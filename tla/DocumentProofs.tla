--------------------------- MODULE DocumentProofs ---------------------------
(* Proofs about Document, for any tree of labels, values, objects, modes and *)
(* limits, whether the application is careful or not.                        *)
EXTENDS Document, SequenceTheorems, FiniteSetTheorems, WellFoundedInduction, TLAPS

-----------------------------------------------------------------------------
(* Induction over the numbers, and functions given by recursion over the     *)
(* subsets of a finite set or over a prefix of the numbers.                  *)

LEMMA FromZero ==
    ASSUME NEW S \in SUBSET Nat, 0 \in S, \A n \in S : n + 1 \in S
    PROVE  S = Nat
<1> SUFFICES ASSUME S # Nat PROVE FALSE OBVIOUS
<1> DEFINE T == Nat \ S
<1>1. T \subseteq Nat /\ T # {} OBVIOUS
<1>2. IsWellFoundedOn(OpToRel(<, Nat), Nat) BY NatLessThanWellFounded
<1>3. \E x \in T : \A y \in T : ~(<<y, x>> \in OpToRel(<, Nat))
  <2> HIDE DEF T
  <2> QED BY <1>1, <1>2, WFMin
<1>4. PICK x \in T : \A y \in T : ~(<<y, x>> \in OpToRel(<, Nat)) BY <1>3
<1>5. x \in Nat /\ x # 0 OBVIOUS
<1>6. x - 1 \in Nat /\ x - 1 < x BY <1>5
<1>7. x - 1 \notin T BY <1>4, <1>5, <1>6 DEF OpToRel
<1>8. x - 1 \in S BY <1>6, <1>7
<1>9. (x - 1) + 1 \in S BY <1>8
<1> QED BY <1>5, <1>9

\* f begins with a and each of its values is made from the one before.
Iterates(f, n, X, a, F) ==
    /\ f \in [0 .. n -> X]
    /\ f[0] = a
    /\ \A i \in 1 .. n : f[i] = F[i][f[i - 1]]

LEMMA PrefixRecursion ==
    ASSUME NEW X, NEW n \in Nat, NEW a \in X, NEW F \in [1 .. n -> [X -> X]]
    PROVE  \E f : Iterates(f, n, X, a, F)
<1> DEFINE M == {m \in Nat : m <= n => \E f : Iterates(f, m, X, a, F)}
<1>1. 0 \in M
  <2> DEFINE g == [j \in 0 .. 0 |-> a]
  <2>1. g \in [0 .. 0 -> X] /\ g[0] = a OBVIOUS
  <2>2. Iterates(g, 0, X, a, F)
    <3> HIDE DEF g
    <3> QED BY <2>1 DEF Iterates
  <2> HIDE DEF g
  <2> QED BY <2>2
<1>2. ASSUME NEW m \in Nat, m \in M PROVE m + 1 \in M
  <2>1. ASSUME m + 1 <= n PROVE \E f : Iterates(f, m + 1, X, a, F)
    <3>1. PICK f : Iterates(f, m, X, a, F) BY <1>2, <2>1
    <3>2. f \in [0 .. m -> X] /\ f[0] = a /\ \A i \in 1 .. m : f[i] = F[i][f[i - 1]]
      BY <3>1 DEF Iterates
    <3>3. F[m + 1] \in [X -> X] /\ f[m] \in X BY <2>1, <3>2
    <3> DEFINE g == [j \in 0 .. (m + 1) |-> IF j <= m THEN f[j] ELSE F[m + 1][f[m]]]
    <3>4. g \in [0 .. (m + 1) -> X] BY <3>2, <3>3
    <3>5. g[0] = a BY <3>2
    <3>6. ASSUME NEW i \in 1 .. (m + 1) PROVE g[i] = F[i][g[i - 1]]
      <4>1. i - 1 \in 0 .. m /\ g[i - 1] = f[i - 1] OBVIOUS
      <4>2. CASE i <= m BY <3>2, <4>1, <4>2
      <4>3. CASE i = m + 1 BY <4>1, <4>3
      <4> QED BY <4>2, <4>3
    <3> HIDE DEF g
    <3>7. Iterates(g, m + 1, X, a, F) BY <3>4, <3>5, <3>6 DEF Iterates
    <3> QED BY <3>7
  <2> QED BY <2>1
<1>3. M = Nat
  <2>1. M \in SUBSET Nat OBVIOUS
  <2> HIDE DEF M
  <2> QED BY <1>1, <1>2, <2>1, FromZero
<1> QED BY <1>3

\* The value at a set is made from the value without one of its elements.
Folds(f, D, X, a, F, C) ==
    /\ f \in [D -> X]
    /\ \A s \in D : f[s] = IF s = {} THEN a ELSE F[C[s]][f[s \ {C[s]}]]

Sized(S, n) == {s \in SUBSET S : Cardinality(s) <= n}

LEMMA FoldRecursion ==
    ASSUME NEW X, NEW S, IsFiniteSet(S), NEW a \in X, NEW F \in [S -> [X -> X]],
           NEW C \in [(SUBSET S) \ {{}} -> S],
           \A s \in (SUBSET S) \ {{}} : C[s] \in s
    PROVE  \E f : Folds(f, SUBSET S, X, a, F, C)
<1> DEFINE M == {n \in Nat : \E f : Folds(f, Sized(S, n), X, a, F, C)}
<1>1. \A s \in SUBSET S : IsFiniteSet(s) /\ Cardinality(s) \in Nat
  BY FS_Subset, FS_CardinalityType
<1>2. 0 \in M
  <2>1. \A s \in Sized(S, 0) : s = {}
    <3>1. \A s \in SUBSET S : Cardinality(s) = 0 => s = {} BY <1>1, FS_EmptySet
    <3>2. \A s \in SUBSET S : Cardinality(s) <= 0 => s = {} BY <1>1, <3>1
    <3> QED BY <3>2 DEF Sized
  <2>2. PICK f : f = [s \in Sized(S, 0) |-> a] OBVIOUS
  <2>3. Folds(f, Sized(S, 0), X, a, F, C) BY <2>1, <2>2 DEF Folds
  <2> QED BY <2>3
<1>3. ASSUME NEW n \in M PROVE n + 1 \in M
  <2>1. PICK f : Folds(f, Sized(S, n), X, a, F, C) OBVIOUS
  <2>2. PICK g : g = [s \in Sized(S, n + 1) |-> IF s \in Sized(S, n) THEN f[s]
                                               ELSE F[C[s]][f[s \ {C[s]}]]]
    OBVIOUS
  <2>3. ASSUME NEW s \in Sized(S, n + 1), s # {}
        PROVE  C[s] \in S /\ s \ {C[s]} \in Sized(S, n)
    <3>1. s \in SUBSET S /\ Cardinality(s) <= n + 1 BY DEF Sized
    <3>2. C[s] \in s BY <2>3, <3>1
    <3>3. Cardinality(s \ {C[s]}) = Cardinality(s) - 1 BY <1>1, <3>1, <3>2, FS_RemoveElement
    <3>4. s \ {C[s]} \in SUBSET S BY <3>1
    <3>5. Cardinality(s \ {C[s]}) <= n BY <1>1, <3>1, <3>3
    <3> QED BY <3>1, <3>2, <3>4, <3>5 DEF Sized
  <2>4. f \in [Sized(S, n) -> X] BY <2>1 DEF Folds
  <2>5. {} \in Sized(S, n) BY FS_EmptySet DEF Sized
  <2>6. \A s \in Sized(S, n + 1) : g[s] \in X
    <3> TAKE s \in Sized(S, n + 1)
    <3>1. CASE s \in Sized(S, n) BY <2>2, <2>4, <3>1
    <3>2. CASE s \notin Sized(S, n)
      <4>1. s # {} BY <2>5, <3>2
      <4>2. f[s \ {C[s]}] \in X /\ F[C[s]] \in [X -> X] BY <2>3, <2>4, <4>1
      <4> QED BY <2>2, <3>2, <4>2
    <3> QED BY <3>1, <3>2
  <2>7. g \in [Sized(S, n + 1) -> X] BY <2>2, <2>6
  <2>8. \A s \in Sized(S, n + 1) : g[s] = IF s = {} THEN a ELSE F[C[s]][g[s \ {C[s]}]]
    <3> TAKE s \in Sized(S, n + 1)
    <3>1. Sized(S, n) \subseteq Sized(S, n + 1) BY <1>1 DEF Sized
    <3>2. CASE s = {} BY <2>1, <2>2, <2>5, <3>2 DEF Folds
    <3>3. CASE s # {}
      <4>1. s \ {C[s]} \in Sized(S, n) BY <2>3, <3>3
      <4>2. g[s \ {C[s]}] = f[s \ {C[s]}] BY <2>2, <3>1, <4>1
      <4>3. s \in Sized(S, n) => f[s] = F[C[s]][f[s \ {C[s]}]] BY <2>1, <3>3 DEF Folds
      <4> QED BY <2>2, <3>3, <4>2, <4>3
    <3> QED BY <3>2, <3>3
  <2>9. Folds(g, Sized(S, n + 1), X, a, F, C) BY <2>7, <2>8 DEF Folds
  <2> QED BY <2>9
<1>4. M = Nat
  <2>1. M \in SUBSET Nat OBVIOUS
  <2> HIDE DEF M
  <2> QED BY <1>2, <1>3, <2>1, FromZero
<1>5. Sized(S, Cardinality(S)) = SUBSET S
  BY FS_Subset DEF Sized
<1>6. Cardinality(S) \in Nat BY FS_CardinalityType
<1>7. \E f : Folds(f, Sized(S, Cardinality(S)), X, a, F, C) BY <1>4, <1>6
<1> QED BY <1>5, <1>7

\* Whatever follows such a recursion has its values where its steps lead.
LEMMA FoldTyped ==
    ASSUME NEW X, NEW S, IsFiniteSet(S), NEW g, g[{}] \in X,
           \A s \in (SUBSET S) \ {{}} : \E e \in s : g[s \ {e}] \in X => g[s] \in X
    PROVE  g[S] \in X
<1> DEFINE M == {n \in Nat : \A s \in SUBSET S : Cardinality(s) = n => g[s] \in X}
<1>1. \A s \in SUBSET S : IsFiniteSet(s) /\ Cardinality(s) \in Nat
  BY FS_Subset, FS_CardinalityType
<1>2. 0 \in M
  <2>1. \A s \in SUBSET S : Cardinality(s) = 0 => s = {} BY <1>1, FS_EmptySet
  <2> QED BY <2>1
<1>3. ASSUME NEW n \in Nat, n \in M PROVE n + 1 \in M
  <2>1. ASSUME NEW s \in SUBSET S, Cardinality(s) = n + 1 PROVE g[s] \in X
    <3>1. Cardinality({}) = 0 BY FS_EmptySet
    <3>2. s \in (SUBSET S) \ {{}} BY <2>1, <3>1
    <3>3. PICK e \in s : g[s \ {e}] \in X => g[s] \in X BY <3>2
    <3>4. IsFiniteSet(s) BY <1>1
    <3>5. Cardinality(s \ {e}) = Cardinality(s) - 1 BY <3>4, FS_RemoveElement
    <3>6. Cardinality(s \ {e}) = n BY <2>1, <3>5
    <3>7. g[s \ {e}] \in X BY <1>3, <3>6
    <3> QED BY <3>3, <3>7
  <2> QED BY <2>1
<1>4. M = Nat
  <2>1. M \in SUBSET Nat OBVIOUS
  <2> HIDE DEF M
  <2> QED BY <1>2, <1>3, <2>1, FromZero
<1>5. Cardinality(S) \in M BY <1>1, <1>4
<1> QED BY <1>5

-----------------------------------------------------------------------------
(* The tree of labels.                                                       *)

\* A label, and the labels above it up to the first one marked or the root.
Climbs(mayMod, S) ==
    \A l \in S : l # Root /\ ~mayMod[Father[l]] => Father[l] \in S

Above(mayMod, l) ==
    {x \in Labels : \A S \in SUBSET Labels : l \in S /\ Climbs(mayMod, S) => x \in S}

LEMMA AboveStep ==
    ASSUME NEW mayMod, NEW l \in Labels
    PROVE  Above(mayMod, l) = {l} \cup IF l = Root \/ mayMod[Father[l]] THEN {}
                                       ELSE Above(mayMod, Father[l])
<1> USE TreeAssumption
<1>1. l \in Above(mayMod, l) BY DEF Above
<1>2. CASE l = Root \/ mayMod[Father[l]]
  <2>1. Climbs(mayMod, {l}) BY <1>2 DEF Climbs
  <2>2. Above(mayMod, l) \subseteq {l} BY <2>1 DEF Above
  <2> QED BY <1>1, <1>2, <2>2
<1>3. CASE ~(l = Root \/ mayMod[Father[l]])
  <2>1. Father[l] \in Labels BY <1>3
  <2> DEFINE T == {l} \cup Above(mayMod, Father[l])
  <2>2. Climbs(mayMod, T)
    <3>1. ASSUME NEW x \in T, x # Root, ~mayMod[Father[x]] PROVE Father[x] \in T
      <4>1. CASE x = l BY <2>1, <4>1 DEF Above
      <4>2. CASE x \in Above(mayMod, Father[l]) BY <3>1, <4>2 DEF Above, Climbs
      <4> QED BY <4>1, <4>2
    <3> QED BY <3>1 DEF Climbs
  <2>3. T \in SUBSET Labels BY DEF Above
  <2>4. Above(mayMod, l) \subseteq T
    <3> HIDE DEF T
    <3>1. l \in T BY DEF T
    <3> QED BY <2>2, <2>3, <3>1 DEF Above
  <2>5. Above(mayMod, Father[l]) \subseteq Above(mayMod, l) BY <1>3, <2>1 DEF Above, Climbs
  <2> QED BY <1>1, <1>3, <2>4, <2>5
<1> QED BY <1>2, <1>3

\* The marked label is among the marks, and so is the father of each of them
\* that was not marked already.
LEMMA MarksFacts ==
    ASSUME NEW mayMod, NEW l \in Labels
    PROVE  /\ l \in Marks(mayMod, l)
           /\ \A x \in Marks(mayMod, l) \cap Labels :
                x # Root /\ ~mayMod[Father[x]] => Father[x] \in Marks(mayMod, l)
<1> USE TreeAssumption
<1> DEFINE Rec(u) == [n \in Labels |->
                        {n} \cup IF n = Root \/ mayMod[Father[n]] THEN {} ELSE u[Father[n]]]
<1>1. PICK A : A = [n \in Labels |-> Above(mayMod, n)] OBVIOUS
<1>2. A = Rec(A)
  <2>1. ASSUME NEW n \in Labels
        PROVE  A[n] = {n} \cup IF n = Root \/ mayMod[Father[n]] THEN {} ELSE A[Father[n]]
    <3>1. n # Root => Father[n] \in Labels OBVIOUS
    <3> QED BY <1>1, <3>1, AboveStep
  <2> QED BY <1>1, <2>1
<1>3. PICK up : up = CHOOSE u : u = Rec(u) OBVIOUS
<1>4. up = Rec(up)
  <2> HIDE DEF Rec
  <2> QED BY <1>2, <1>3
<1>5. Marks(mayMod, l) = up[l] BY <1>3, Zenon DEF Marks
<1>6. \A n \in Labels :
        up[n] = {n} \cup IF n = Root \/ mayMod[Father[n]] THEN {} ELSE up[Father[n]]
  BY <1>4
<1> HIDE DEF Rec
<1> DEFINE Full(n) == \A x \in up[n] \cap Labels :
                        x # Root /\ ~mayMod[Father[x]] => Father[x] \in up[n]
<1>7. \A n \in Labels : Full(n)
  <2>1. PICK B : B = {n \in Labels : ~Full(n)} OBVIOUS
  <2>2. SUFFICES ASSUME B # {} PROVE FALSE BY <2>1
  <2>3. PICK n \in B : n = Root \/ Father[n] \notin B
    <3> HIDE DEF Full
    <3> QED BY <2>1, <2>2
  <2>4. n \in Labels /\ ~Full(n)
    <3> HIDE DEF Full
    <3> QED BY <2>1
  <2>5. PICK x \in up[n] \cap Labels : x # Root /\ ~mayMod[Father[x]] /\ Father[x] \notin up[n]
    BY <2>4
  <2>6. n # Root /\ ~mayMod[Father[n]]
    BY <1>6, <2>4, <2>5
  <2>7. Father[n] \in Labels /\ up[n] = {n} \cup up[Father[n]] BY <1>6, <2>4, <2>6
  <2>8. Full(Father[n])
    <3> HIDE DEF Full
    <3> QED BY <2>1, <2>3, <2>6, <2>7
  <2>9. Father[n] \in up[Father[n]] BY <1>6, <2>7
  <2>10. x # n BY <2>5, <2>7, <2>9
  <2> QED BY <2>5, <2>7, <2>8, <2>10
<1> QED BY <1>5, <1>6, <1>7

\* Who is marked has a marked father: a commit reaches whatever is marked.
Chain(mayMod) == \A l \in Labels \ {Root} : mayMod[l] => mayMod[Father[l]]

LEMMA ReachedMarked ==
    ASSUME NEW d, d.mayMod \in [Labels -> BOOLEAN], Chain(d.mayMod)
    PROVE  Reached(d) = {l \in Labels : d.mayMod[l]}
<1> USE TreeAssumption
<1> DEFINE Rec(r) == [l \in Labels |-> d.mayMod[l] /\ (l = Root \/ r[Father[l]])]
<1>1. d.mayMod = Rec(d.mayMod)
  <2>1. ASSUME NEW l \in Labels
        PROVE  d.mayMod[l] = (d.mayMod[l] /\ (l = Root \/ d.mayMod[Father[l]]))
    BY DEF Chain
  <2> QED BY <2>1
<1>2. PICK reached : reached = CHOOSE r : r = Rec(r) OBVIOUS
<1>3. reached = Rec(reached)
  <2> HIDE DEF Rec
  <2> QED BY <1>1, <1>2
<1>4. Reached(d) = {l \in Labels : reached[l]} BY <1>2, Zenon DEF Reached
<1>5. \A l \in Labels : reached[l] <=> d.mayMod[l] /\ (l = Root \/ reached[Father[l]])
  BY <1>3
<1> HIDE DEF Rec
<1>6. \A l \in Labels : d.mayMod[l] => reached[l]
  <2>1. PICK B : B = {l \in Labels : d.mayMod[l] /\ ~reached[l]} OBVIOUS
  <2>2. SUFFICES ASSUME B # {} PROVE FALSE BY <2>1
  <2>3. PICK l \in B : l = Root \/ Father[l] \notin B BY <2>1, <2>2
  <2>4. l \in Labels /\ d.mayMod[l] /\ ~reached[l] BY <2>1
  <2>5. l # Root /\ ~reached[Father[l]] BY <1>5, <2>4
  <2>6. Father[l] \in Labels /\ d.mayMod[Father[l]] BY <2>4, <2>5 DEF Chain
  <2> QED BY <2>1, <2>3, <2>5, <2>6
<1> QED BY <1>4, <1>5, <1>6

-----------------------------------------------------------------------------
(* Frameworks.  Of an attribute that the open transaction has changed the    *)
(* label and all above it are flagged, so that the commit comes to it; any   *)
(* other is as no transaction was there.                                     *)

AttributeSound(d, o) ==
    LET a == d.attr[o] IN
    /\ a.on => a.slot \in Slots
    /\ ~a.on => a.trans = 0
    /\ a.trans = 0 => a.backup = None /\ ~a.forgotten
    /\ a.trans = 1 => /\ d.transaction = 1
                      /\ d.attMod[a.slot[1]]
                      /\ d.mayMod[a.slot[1]]

Sound(d) == /\ d \in Framework
            /\ Chain(d.mayMod)
            /\ \A o \in Objects : AttributeSound(d, o)

\* The attribute objects that have been added to a label.
Slotted(d) == {o \in Objects : d.attr[o].slot \in Slots}

Frames(S) == {d \in Framework : Sound(d) /\ Slotted(d) = S}


LEMMA TouchFacts ==
    ASSUME NEW d \in Framework, Chain(d.mayMod), NEW s \in Slots
    PROVE  LET e == Touch(d, s) IN
           /\ e \in Framework
           /\ Chain(e.mayMod)
           /\ e.attr = d.attr /\ e.transaction = d.transaction
           /\ e.attMod[s[1]] /\ e.mayMod[s[1]]
           /\ \A l \in Labels : (d.attMod[l] => e.attMod[l]) /\ (d.mayMod[l] => e.mayMod[l])
<1> DEFINE e == Touch(d, s)
<1>1. s[1] \in Labels BY TreeAssumption
<1>2. e = [d EXCEPT !.attMod[s[1]] = TRUE,
                    !.mayMod = [l \in Labels |-> d.mayMod[l] \/ l \in Marks(d.mayMod, s[1])]]
  BY DEF Touch
<1>3. PICK ms : ms = Marks(d.mayMod, s[1]) OBVIOUS
<1>4. s[1] \in ms /\ \A x \in ms \cap Labels : x # Root /\ ~d.mayMod[Father[x]] => Father[x] \in ms
  BY <1>1, <1>3, MarksFacts
<1>5. PICK may : may = [l \in Labels |-> d.mayMod[l] \/ l \in ms] OBVIOUS
<1>6. PICK att : att = [d.attMod EXCEPT ![s[1]] = TRUE] OBVIOUS
<1>7. e = [d EXCEPT !.attMod = att, !.mayMod = may] BY <1>2, <1>3, <1>5, <1>6 DEF Framework
<1>8. d.attMod \in [Labels -> BOOLEAN] /\ d.mayMod \in [Labels -> BOOLEAN] BY DEF Framework
<1>9. may \in [Labels -> BOOLEAN] BY <1>5, <1>8
<1>10. att \in [Labels -> BOOLEAN] BY <1>6, <1>8
<1>11. \A l \in Labels : (d.attMod[l] => att[l]) /\ (d.mayMod[l] => may[l])
  BY <1>5, <1>6, <1>8
<1>12. att[s[1]] /\ may[s[1]] BY <1>1, <1>4, <1>5, <1>6, <1>8
<1>13. Chain(may)
  <2> SUFFICES ASSUME NEW l \in Labels \ {Root}, may[l] PROVE may[Father[l]] BY DEF Chain
  <2>1. Father[l] \in Labels BY TreeAssumption
  <2>2. CASE d.mayMod[l] BY <1>11, <2>1, <2>2 DEF Chain
  <2>3. CASE l \in ms BY <1>4, <1>5, <2>1, <2>3
  <2> QED BY <1>5, <2>2, <2>3
<1>14. e \in Framework /\ e.attMod = att /\ e.mayMod = may
       /\ e.attr = d.attr /\ e.transaction = d.transaction
  BY <1>7, <1>9, <1>10 DEF Framework
<1> HIDE DEF e
<1>15. /\ e \in Framework /\ Chain(e.mayMod) /\ e.attr = d.attr
       /\ e.transaction = d.transaction /\ e.attMod[s[1]] /\ e.mayMod[s[1]]
       /\ \A l \in Labels : (d.attMod[l] => e.attMod[l]) /\ (d.mayMod[l] => e.mayMod[l])
  BY <1>11, <1>12, <1>13, <1>14
<1> QED BY <1>15 DEF e

\* One attribute replaced.
With(d, o, a) == [d EXCEPT !.attr[o] = a]

LEMMA WithFacts ==
    ASSUME NEW d \in Framework, NEW o \in Objects, NEW a \in Attribute
    PROVE  LET e == With(d, o, a) IN
           /\ e \in Framework
           /\ e.attr \in [Objects -> Attribute]
           /\ e.attr[o] = a
           /\ \A p \in Objects \ {o} : e.attr[p] = d.attr[p]
           /\ e.transaction = d.transaction /\ e.attMod = d.attMod /\ e.mayMod = d.mayMod
           /\ e.allow = d.allow /\ e.time = d.time /\ e.begin = d.begin /\ e.was = d.was
           /\ e.fault = d.fault
<1>1. d.attr \in [Objects -> Attribute] BY DEF Framework
<1>2. PICK f : f = [d.attr EXCEPT ![o] = a] OBVIOUS
<1>3. f \in [Objects -> Attribute] /\ f[o] = a /\ \A p \in Objects \ {o} : f[p] = d.attr[p]
  BY <1>1, <1>2
<1>4. With(d, o, a) = [d EXCEPT !.attr = f] BY <1>2 DEF With, Framework
<1>5. PICK e : e = [d EXCEPT !.attr = f] OBVIOUS
<1>6. /\ e \in Framework /\ e.attr = f
      /\ e.transaction = d.transaction /\ e.attMod = d.attMod /\ e.mayMod = d.mayMod
      /\ e.allow = d.allow /\ e.time = d.time /\ e.begin = d.begin /\ e.was = d.was
      /\ e.fault = d.fault
  BY <1>3, <1>5 DEF Framework
<1> QED BY <1>3, <1>4, <1>5, <1>6

\* The attributes other than the one replaced stay sound.
LEMMA OthersSound ==
    ASSUME NEW d, Sound(d), NEW o \in Objects, NEW e \in Framework,
           \A p \in Objects \ {o} : e.attr[p] = d.attr[p],
           e.transaction = d.transaction,
           \A l \in Labels : (d.attMod[l] => e.attMod[l]) /\ (d.mayMod[l] => e.mayMod[l]),
           Chain(e.mayMod), AttributeSound(e, o)
    PROVE  Sound(e)
<1>1. ASSUME NEW p \in Objects \ {o} PROVE AttributeSound(e, p)
  <2>1. AttributeSound(d, p) /\ e.attr[p] = d.attr[p] BY <1>1 DEF Sound
  <2>2. e.attr[p].trans = 1 => e.attr[p].slot[1] \in Labels
    <3>1. e.attr[p].trans = 1 => e.attr[p].on BY <2>1 DEF AttributeSound, Sound, Framework, Attribute
    <3>2. e.attr[p].on => e.attr[p].slot \in Slots BY <2>1 DEF AttributeSound
    <3> QED BY <3>1, <3>2, TreeAssumption
  <2> QED BY <2>1, <2>2 DEF AttributeSound
<1> QED BY <1>1 DEF Sound

LEMMA FrameFacts ==
    ASSUME NEW S \in SUBSET Objects, NEW d \in Frames(S)
    PROVE  /\ d \in Framework /\ Sound(d) /\ Chain(d.mayMod)
           /\ d.attr \in [Objects -> Attribute] /\ d.transaction \in 0 .. 1
           /\ \A o \in Objects : AttributeSound(d, o) /\ (o \in S <=> d.attr[o].slot \in Slots)
           /\ \A o \in Objects : d.attr[o].on => o \in S
<1>1. d \in Framework /\ Sound(d) /\ Slotted(d) = S BY DEF Frames
<1>2. \A o \in Objects : AttributeSound(d, o) /\ (o \in S <=> d.attr[o].slot \in Slots)
  BY <1>1 DEF Sound, Slotted
<1>3. \A o \in Objects : d.attr[o].on => o \in S BY <1>2 DEF AttributeSound
<1>4. d.attr \in [Objects -> Attribute] /\ d.transaction \in 0 .. 1 BY <1>1 DEF Framework
<1> QED BY <1>1, <1>2, <1>3, <1>4 DEF Sound

LEMMA ThrowFrame ==
    ASSUME NEW S \in SUBSET Objects, NEW d \in Frames(S)
    PROVE  Throw(d) \in Frames(S) /\ Throw(d).transaction = d.transaction
<1> DEFINE e == Throw(d)
<1>1. /\ e \in Framework /\ e.attr = d.attr /\ e.transaction = d.transaction
      /\ e.attMod = d.attMod /\ e.mayMod = d.mayMod
  BY FrameFacts DEF Throw, Framework
<1> HIDE DEF e
<1>2. \A o \in Objects : AttributeSound(e, o) BY <1>1, FrameFacts DEF AttributeSound
<1>3. Slotted(e) = S BY <1>1, FrameFacts DEF Slotted
<1>4. e \in Frames(S) BY <1>1, <1>2, <1>3, FrameFacts DEF Frames, Sound
<1> QED BY <1>1, <1>4 DEF e

\* An attribute of a slot replaced by another of that slot, sound where its
\* label is flagged, and the label flagged.
LEMMA TouchedFrame ==
    ASSUME NEW S \in SUBSET Objects, NEW d \in Frames(S), NEW o \in S, NEW a \in Attribute,
           a.slot = d.attr[o].slot, a.on, a.trans = 1, d.transaction = 1
    PROVE  LET e == Touch(With(d, o, a), a.slot) IN
           e \in Frames(S) /\ e.transaction = d.transaction
<1>1. o \in Objects /\ a.slot \in Slots BY FrameFacts
<1>2. PICK w : w = With(d, o, a) OBVIOUS
<1>3. /\ w \in Framework /\ w.attr[o] = a
      /\ \A p \in Objects \ {o} : w.attr[p] = d.attr[p]
      /\ w.transaction = d.transaction /\ w.attMod = d.attMod /\ w.mayMod = d.mayMod
  BY <1>1, <1>2, FrameFacts, WithFacts
<1>4. Chain(w.mayMod) BY <1>3, FrameFacts
<1>5. PICK e : e = Touch(w, a.slot) OBVIOUS
<1>6. /\ e \in Framework /\ Chain(e.mayMod) /\ e.attr = w.attr
      /\ e.transaction = w.transaction /\ e.attMod[a.slot[1]] /\ e.mayMod[a.slot[1]]
      /\ \A l \in Labels : (w.attMod[l] => e.attMod[l]) /\ (w.mayMod[l] => e.mayMod[l])
  BY <1>1, <1>3, <1>4, <1>5, TouchFacts
<1>7. AttributeSound(e, o) BY <1>1, <1>3, <1>6 DEF AttributeSound
<1>8. Sound(e) BY <1>1, <1>3, <1>6, <1>7, FrameFacts, OthersSound
<1>9. \A p \in Objects : e.attr[p].slot = d.attr[p].slot BY <1>3, <1>6
<1>10. Slotted(e) = S BY <1>9, FrameFacts DEF Slotted
<1> QED BY <1>2, <1>3, <1>5, <1>6, <1>8, <1>10 DEF Frames

\* An attribute of a slot replaced by another as no transaction was there.
LEMMA CleanFrame ==
    ASSUME NEW S \in SUBSET Objects, NEW d \in Frames(S), NEW o \in S, NEW a \in Attribute,
           a.slot = d.attr[o].slot, a.trans = 0, a.backup = None, ~a.forgotten
    PROVE  With(d, o, a) \in Frames(S) /\ With(d, o, a).transaction = d.transaction
<1>1. o \in Objects /\ a.slot \in Slots BY FrameFacts
<1>2. PICK e : e = With(d, o, a) OBVIOUS
<1>3. /\ e \in Framework /\ e.attr[o] = a
      /\ \A p \in Objects \ {o} : e.attr[p] = d.attr[p]
      /\ e.transaction = d.transaction /\ e.attMod = d.attMod /\ e.mayMod = d.mayMod
  BY <1>1, <1>2, FrameFacts, WithFacts
<1>4. AttributeSound(e, o) BY <1>1, <1>3 DEF AttributeSound
<1>5. Sound(e) BY <1>1, <1>3, <1>4, FrameFacts, OthersSound
<1>6. \A p \in Objects : e.attr[p].slot = d.attr[p].slot BY <1>3
<1>7. Slotted(e) = S BY <1>6, FrameFacts DEF Slotted
<1> QED BY <1>2, <1>3, <1>5, <1>7 DEF Frames

LEMMA AddToFrame ==
    ASSUME NEW S \in SUBSET Objects, NEW d \in Frames(S), NEW o \in S
    PROVE  AddTo(d, o) \in Frames(S) /\ AddTo(d, o).transaction = d.transaction
<1>1. o \in Objects /\ d.attr[o] \in Attribute /\ d.attr[o].slot \in Slots BY FrameFacts
<1>2. PICK a : a = [d.attr[o] EXCEPT !.on = TRUE, !.forgotten = FALSE, !.trans = d.transaction]
  OBVIOUS
<1>3. d.transaction \in 0 .. 1 BY FrameFacts
<1>4. /\ a \in Attribute /\ a.slot = d.attr[o].slot /\ a.on /\ ~a.forgotten
      /\ a.trans = d.transaction /\ a.backup = d.attr[o].backup
  BY <1>1, <1>2, <1>3 DEF Attribute
<1>5. CASE ~d.allow \/ Find(d, d.attr[o].slot) # {} BY <1>5, ThrowFrame DEF AddTo
<1>6. CASE ~(~d.allow \/ Find(d, d.attr[o].slot) # {}) /\ d.transaction = 1
  <2>1. AddTo(d, o) = Touch(With(d, o, a), a.slot) BY <1>2, <1>4, <1>6 DEF AddTo, With
  <2> QED BY <1>4, <1>6, <2>1, TouchedFrame
<1>7. CASE ~(~d.allow \/ Find(d, d.attr[o].slot) # {}) /\ d.transaction = 0
  <2>1. PICK w : w = With(d, o, a) OBVIOUS
  <2>2. AddTo(d, o) = [w EXCEPT !.attMod[a.slot[1]] = FALSE]
    BY <1>2, <1>4, <1>7, <2>1 DEF AddTo, With
  <2>3. AttributeSound(d, o) BY <1>1, FrameFacts
  <2>4. a.backup = None
    <3>1. d.attr[o].trans \in 0 .. 1 BY <1>1 DEF Attribute
    <3> QED BY <1>4, <1>7, <2>3, <3>1 DEF AttributeSound
  <2>5. w \in Frames(S) BY <1>4, <1>7, <2>1, <2>4, CleanFrame
  <2>6. w.transaction = 0 BY <1>1, <1>4, <1>7, <2>1, FrameFacts, WithFacts
  <2>7. PICK att : att = [w.attMod EXCEPT ![a.slot[1]] = FALSE] OBVIOUS
  <2>8. att \in [Labels -> BOOLEAN]
    <3>1. w.attMod \in [Labels -> BOOLEAN] BY <2>5, FrameFacts DEF Framework
    <3> QED BY <2>7, <3>1
  <2>9. PICK e : e = [w EXCEPT !.attMod = att] OBVIOUS
  <2>10. /\ e \in Framework /\ e.attr = w.attr /\ e.transaction = 0 /\ e.mayMod = w.mayMod
    BY <2>5, <2>6, <2>8, <2>9, FrameFacts DEF Framework
  <2>11. AddTo(d, o) = e BY <2>2, <2>5, <2>7, <2>9, FrameFacts DEF Framework
  <2>12. \A p \in Objects : AttributeSound(e, p) BY <2>5, <2>6, <2>10, FrameFacts DEF AttributeSound
  <2>13. Slotted(e) = S BY <2>5, <2>10, FrameFacts DEF Slotted
  <2>14. Chain(e.mayMod) BY <2>5, <2>10, FrameFacts
  <2> QED BY <1>7, <2>10, <2>11, <2>12, <2>13, <2>14 DEF Frames, Sound
<1> QED BY <1>3, <1>5, <1>6, <1>7

LEMMA AttributeEdit ==
    ASSUME NEW b \in Attribute, NEW on \in BOOLEAN, NEW forgotten \in BOOLEAN, NEW trans \in 0 .. 1
    PROVE  [b EXCEPT !.on = on, !.forgotten = forgotten, !.trans = trans] \in Attribute
BY DEF Attribute

LEMMA DetachFacts ==
    ASSUME NEW b \in Attribute
    PROVE  /\ Detach(b) \in Attribute /\ Detach(b).slot = b.slot /\ ~Detach(b).forgotten
           /\ Detach(b).trans = 0 /\ Detach(b).backup = b.backup /\ ~Detach(b).on
           /\ Detach(b).val = b.val
<1>1. FALSE \in BOOLEAN /\ 0 \in 0 .. 1 OBVIOUS
<1>2. Detach(b) \in Attribute BY <1>1, AttributeEdit DEF Detach
<1> QED BY <1>2 DEF Attribute, Detach

LEMMA ForgottenFacts ==
    ASSUME NEW b \in Attribute, NEW a, a = [b EXCEPT !.forgotten = TRUE, !.trans = 1]
    PROVE  a \in Attribute /\ a.slot = b.slot /\ a.on = b.on /\ a.trans = 1
<1>1. TRUE \in BOOLEAN /\ 1 \in 0 .. 1 OBVIOUS
<1>2. \A forgotten \in BOOLEAN, trans \in 0 .. 1 :
         [b EXCEPT !.forgotten = forgotten, !.trans = trans] \in Attribute
  BY DEF Attribute
<1>3. a \in Attribute BY <1>1, <1>2
<1> QED BY <1>3 DEF Attribute

LEMMA ForgetFrame ==
    ASSUME NEW S \in SUBSET Objects, NEW d \in Frames(S), NEW o \in S, d.attr[o].on
    PROVE  Forget(d, o) \in Frames(S) /\ Forget(d, o).transaction = d.transaction
<1>1. /\ o \in Objects /\ d.attr[o] \in Attribute /\ d.attr[o].slot \in Slots
      /\ AttributeSound(d, o) /\ d.attr[o].trans \in 0 .. 1 /\ d.transaction \in 0 .. 1
  BY FrameFacts DEF Attribute
<1>2. CASE ~d.allow BY <1>2, ThrowFrame DEF Forget
<1>3. CASE d.allow /\ (d.transaction = 0 \/ (d.attr[o].trans = d.transaction
                                              /\ d.attr[o].backup = None))
  <2>1. PICK a : a = Detach(d.attr[o]) OBVIOUS
  <2>2. /\ a \in Attribute /\ a.slot = d.attr[o].slot /\ ~a.forgotten
        /\ a.trans = 0 /\ a.backup = d.attr[o].backup
    BY <1>1, <2>1, DetachFacts
  <2>3. a.backup = None BY <1>1, <1>3, <2>2 DEF AttributeSound
  <2>4. Forget(d, o) = With(d, o, a) BY <1>3, <2>1 DEF Forget, With
  <2> QED BY <2>2, <2>3, <2>4, CleanFrame
<1>4. CASE d.allow /\ ~(d.transaction = 0 \/ (d.attr[o].trans = d.transaction
                                               /\ d.attr[o].backup = None))
  <2>1. PICK a : a = [d.attr[o] EXCEPT !.forgotten = TRUE, !.trans = d.transaction] OBVIOUS
  <2>2. a \in Attribute /\ a.slot = d.attr[o].slot /\ a.on /\ a.trans = 1 /\ d.transaction = 1
    <3>1. d.transaction = 1 BY <1>1, <1>4
    <3>2. PICK b : b = d.attr[o] OBVIOUS
    <3>3. b \in Attribute /\ b.on /\ a = [b EXCEPT !.forgotten = TRUE, !.trans = 1]
      BY <1>1, <2>1, <3>1, <3>2
    <3>4. a \in Attribute /\ a.slot = b.slot /\ a.on = b.on /\ a.trans = 1
      BY <3>3, ForgottenFacts
    <3> QED BY <3>1, <3>2, <3>3, <3>4
  <2>3. Forget(d, o) = Touch(With(d, o, a), a.slot) BY <1>4, <2>1, <2>2 DEF Forget, With
  <2> QED BY <2>2, <2>3, TouchedFrame
<1> QED BY <1>2, <1>3, <1>4

LEMMA ModifyFrame ==
    ASSUME NEW S \in SUBSET Objects, NEW d \in Frames(S), NEW o \in S, d.attr[o].on,
           NEW v \in Values \cup {None}
    PROVE  Modify(d, o, v) \in Frames(S) /\ Modify(d, o, v).transaction = d.transaction
<1>1. /\ o \in Objects /\ d.attr[o] \in Attribute /\ d.attr[o].slot \in Slots
      /\ AttributeSound(d, o) /\ d.attr[o].trans \in 0 .. 1 /\ d.transaction \in 0 .. 1
  BY FrameFacts DEF Attribute
<1>2. CASE ~d.allow BY <1>2, ThrowFrame DEF Modify
<1>3. CASE d.allow /\ d.attr[o].trans < d.transaction
  <2>1. PICK a : a = [d.attr[o] EXCEPT !.backup = d.attr[o].val, !.trans = d.transaction,
                                       !.val = v]
    OBVIOUS
  <2>2. d.transaction = 1 BY <1>1, <1>3
  <2>3. a \in Attribute /\ a.slot = d.attr[o].slot /\ a.on /\ a.trans = 1
    BY <1>1, <2>1, <2>2 DEF Attribute
  <2>4. Modify(d, o, v) = Touch(With(d, o, a), a.slot) BY <1>3, <2>1, <2>3 DEF Modify, With
  <2> QED BY <2>2, <2>3, <2>4, TouchedFrame
<1>4. CASE d.allow /\ ~(d.attr[o].trans < d.transaction)
  <2>1. PICK a : a = [d.attr[o] EXCEPT !.val = v] OBVIOUS
  <2>2. /\ a \in Attribute /\ a.slot = d.attr[o].slot /\ a.on = d.attr[o].on
        /\ a.trans = d.attr[o].trans /\ a.backup = d.attr[o].backup
        /\ a.forgotten = d.attr[o].forgotten
    BY <1>1, <2>1 DEF Attribute
  <2>3. PICK e : e = With(d, o, a) OBVIOUS
  <2>4. Modify(d, o, v) = e BY <1>4, <2>1, <2>3 DEF Modify, With
  <2>5. /\ e \in Framework /\ e.attr[o] = a
        /\ \A p \in Objects \ {o} : e.attr[p] = d.attr[p]
        /\ e.transaction = d.transaction /\ e.attMod = d.attMod /\ e.mayMod = d.mayMod
    <3>1. d \in Framework /\ a \in Attribute BY <2>2, FrameFacts
    <3> QED BY <1>1, <2>3, <3>1, WithFacts
  <2>6. AttributeSound(e, o) BY <1>1, <2>2, <2>5 DEF AttributeSound
  <2>7. Sound(e) BY <1>1, <2>5, <2>6, FrameFacts, OthersSound
  <2>8. \A p \in Objects : e.attr[p].slot = d.attr[p].slot BY <2>2, <2>5
  <2>9. Slotted(e) = S BY <2>8, FrameFacts DEF Slotted
  <2> QED BY <2>4, <2>5, <2>7, <2>9 DEF Frames
<1> QED BY <1>2, <1>3, <1>4

-----------------------------------------------------------------------------
(* Deltas.  The attributes their removals bring back are of some slot.       *)

Parts(S) == {p \in AttributeDelta : p.kind = "removal" => p.obj \in S}

Stored(S) == {delta \in Delta : IsFiniteSet(delta.parts) /\ delta.parts \subseteq Parts(S)}

LEMMA FoundFacts ==
    ASSUME NEW S \in SUBSET Objects, NEW d \in Frames(S), NEW s, NEW o \in Find(d, s)
    PROVE  o \in Objects /\ o \in S /\ d.attr[o].on /\ d.attr[o].slot = s /\ ~d.attr[o].forgotten
BY FrameFacts DEF Find

LEMMA ApplyPartFrame ==
    ASSUME NEW S \in SUBSET Objects, NEW d \in Frames(S), NEW p \in Parts(S)
    PROVE  ApplyPart(d, p) \in Frames(S) /\ ApplyPart(d, p).transaction = d.transaction
<1>1. CASE d.fault # "none" BY <1>1 DEF ApplyPart
<1>2. CASE d.fault = "none" /\ p.kind = "removal" BY <1>2, AddToFrame DEF ApplyPart, Parts
<1>3. CASE d.fault = "none" /\ p.kind # "removal" /\ Find(d, p.slot) = {}
  BY <1>3 DEF ApplyPart
<1>4. CASE d.fault = "none" /\ p.kind # "removal" /\ Find(d, p.slot) # {}
  <2>1. PICK o : o = CHOOSE x \in Find(d, p.slot) : TRUE OBVIOUS
  <2>2. o \in Find(d, p.slot) BY <1>4, <2>1
  <2>3. o \in S /\ d.attr[o].on BY <2>2, FoundFacts
  <2>4. p.val \in Values \cup {None} BY DEF Parts, AttributeDelta
  <2>5. /\ Forget(d, o) \in Frames(S) /\ Forget(d, o).transaction = d.transaction
        /\ Modify(d, o, p.val) \in Frames(S) /\ Modify(d, o, p.val).transaction = d.transaction
    BY <2>3, <2>4, ForgetFrame, ModifyFrame
  <2>6. ApplyPart(d, p) \in {Forget(d, o), Modify(d, o, p.val)} BY <1>4, <2>1 DEF ApplyPart
  <2> QED BY <2>5, <2>6
<1> QED BY <1>1, <1>2, <1>3, <1>4

LEMMA ApplyAllFrame ==
    ASSUME NEW S \in SUBSET Objects, NEW d \in Frames(S), NEW parts \in SUBSET Parts(S),
           IsFiniteSet(parts)
    PROVE  ApplyAll(d, parts) \in Frames(S) /\ ApplyAll(d, parts).transaction = d.transaction
<1> DEFINE X == {e \in Frames(S) : e.transaction = d.transaction}
           C(s) == CHOOSE x \in s : TRUE
           Rec(it) == [s \in SUBSET parts |-> IF s = {} THEN d
                                              ELSE ApplyPart(it[s \ {C(s)}], C(s))]
<1>1. PICK F : F = [p \in parts |-> [e \in X |-> ApplyPart(e, p)]] OBVIOUS
<1>2. F \in [parts -> [X -> X]] BY <1>1, ApplyPartFrame
<1>3. PICK c : c = [s \in (SUBSET parts) \ {{}} |-> C(s)] OBVIOUS
<1>4. \A s \in (SUBSET parts) \ {{}} : C(s) \in s OBVIOUS
<1>5. c \in [(SUBSET parts) \ {{}} -> parts] /\ \A s \in (SUBSET parts) \ {{}} : c[s] \in s
  <2> HIDE DEF C
  <2> QED BY <1>3, <1>4
<1>6. \E f : Folds(f, SUBSET parts, X, d, F, c)
  <2> HIDE DEF X, C
  <2>1. d \in X BY DEF X
  <2> QED BY <1>2, <1>5, <2>1, FoldRecursion
<1>7. PICK f : Folds(f, SUBSET parts, X, d, F, c) BY <1>6
<1>8. f = Rec(f)
  <2>1. f \in [SUBSET parts -> X] BY <1>7 DEF Folds
  <2>2. ASSUME NEW s \in SUBSET parts
        PROVE  f[s] = IF s = {} THEN d ELSE ApplyPart(f[s \ {C(s)}], C(s))
    <3>1. f[s] = IF s = {} THEN d ELSE F[c[s]][f[s \ {c[s]}]] BY <1>7 DEF Folds
    <3>2. CASE s = {} BY <3>1, <3>2
    <3>3. CASE s # {}
      <4>1. c[s] = C(s) /\ C(s) \in parts BY <1>3, <1>4, <3>3
      <4>2. f[s \ {C(s)}] \in X BY <2>1
      <4>3. F[C(s)][f[s \ {C(s)}]] = ApplyPart(f[s \ {C(s)}], C(s))
        <5> HIDE DEF C, X
        <5> QED BY <1>1, <4>1, <4>2
      <4> QED BY <3>1, <3>3, <4>1, <4>3
    <3> QED BY <3>2, <3>3
  <2> HIDE DEF C, X
  <2> QED BY <2>1, <2>2
<1>9. PICK iter : iter = CHOOSE it : it = Rec(it) OBVIOUS
<1>10. iter = Rec(iter)
  <2> HIDE DEF Rec
  <2> QED BY <1>8, <1>9
<1>11. ApplyAll(d, parts) = iter[parts]
  BY <1>9, Zenon DEF ApplyAll, FoldSet, MapThenFoldSet
<1>12. iter[{}] \in X BY <1>10
<1>13. \A s \in (SUBSET parts) \ {{}} : \E e \in s : iter[s \ {e}] \in X => iter[s] \in X
  <2> SUFFICES ASSUME NEW s \in (SUBSET parts) \ {{}}, iter[s \ {C(s)}] \in X
               PROVE  iter[s] \in X
    BY <1>4
  <2>1. iter[s] = ApplyPart(iter[s \ {C(s)}], C(s)) BY <1>10
  <2>2. C(s) \in Parts(S) BY <1>4
  <2> HIDE DEF C
  <2> QED BY <2>1, <2>2, ApplyPartFrame
<1>14. iter[parts] \in X
  <2> HIDE DEF X, C, Rec
  <2> QED BY <1>12, <1>13, FoldTyped
<1> QED BY <1>11, <1>14

LEMMA ApplyFrame ==
    ASSUME NEW S \in SUBSET Objects, NEW d \in Frames(S), NEW parts \in SUBSET Parts(S),
           IsFiniteSet(parts)
    PROVE  Apply(d, parts) \in Frames(S) /\ Apply(d, parts).transaction = d.transaction
<1>1. Removals(parts) \subseteq parts BY DEF Removals
<1>2. IsFiniteSet(Removals(parts)) /\ IsFiniteSet(parts \ Removals(parts))
  BY <1>1, FS_Subset
<1>3. PICK e : e = ApplyAll(d, parts \ Removals(parts)) OBVIOUS
<1>4. e \in Frames(S) /\ e.transaction = d.transaction BY <1>2, <1>3, ApplyAllFrame
<1>5. /\ ApplyAll(e, Removals(parts)) \in Frames(S)
      /\ ApplyAll(e, Removals(parts)).transaction = d.transaction
  BY <1>1, <1>2, <1>4, ApplyAllFrame
<1> QED BY <1>3, <1>5 DEF Apply

-----------------------------------------------------------------------------
(* Transactions.                                                             *)

LEMMA VisibleContents ==
    ASSUME NEW d \in Framework
    PROVE  Visible(d) \in Contents
<1> SUFFICES ASSUME NEW s \in Slots
             PROVE  (IF Find(d, s) = {} THEN None
                     ELSE d.attr[CHOOSE o \in Find(d, s) : TRUE].val) \in Values \cup {None}
  BY DEF Visible, Contents
<1>1. CASE Find(d, s) = {} BY <1>1
<1>2. CASE Find(d, s) # {}
  <2>1. PICK o : o = CHOOSE x \in Find(d, s) : TRUE OBVIOUS
  <2>2. o \in Objects BY <1>2, <2>1 DEF Find
  <2>3. d.attr[o].val \in Values \cup {None} BY <2>2 DEF Framework, Attribute
  <2> QED BY <1>2, <2>1, <2>3
<1> QED BY <1>1, <1>2

LEMMA NothingContents == Nothing \in Contents
BY DEF Nothing, Contents

LEMMA FrameworkEdits ==
    ASSUME NEW d \in Framework, NEW attr \in [Objects -> Attribute], NEW transaction \in 0 .. 1,
           NEW begin \in Nat, NEW time \in Nat, NEW attMod \in [Labels -> BOOLEAN],
           NEW mayMod \in [Labels -> BOOLEAN], NEW was \in Contents
    PROVE  [d EXCEPT !.attr = attr, !.attMod = attMod, !.mayMod = mayMod, !.time = time,
                     !.was = was, !.begin = begin, !.transaction = transaction] \in Framework
BY DEF Framework

LEMMA OpenFrame ==
    ASSUME NEW S \in SUBSET Objects, NEW d \in Frames(S)
    PROVE  OpenTransaction(d) \in Frames(S) /\ OpenTransaction(d).transaction = 1
<1>1. PICK was \in Contents : was = Visible(d) BY VisibleContents, FrameFacts
<1>2. PICK e : e = [d EXCEPT !.transaction = 1, !.begin = d.time, !.was = was] OBVIOUS
<1>3. e = OpenTransaction(d) BY <1>1, <1>2 DEF OpenTransaction
<1>4. /\ e \in Framework /\ e.attr = d.attr /\ e.transaction = 1
      /\ e.attMod = d.attMod /\ e.mayMod = d.mayMod
  <2>1. 1 \in 0 .. 1 /\ d \in Framework /\ d.time \in Nat BY FrameFacts DEF Framework
  <2>2. PICK begin \in Nat : begin = d.time BY <2>1
  <2>3. \A t \in 0 .. 1 :
          [d EXCEPT !.transaction = t, !.begin = begin, !.was = was] \in Framework
    BY <1>1, <2>1, <2>2 DEF Framework
  <2> QED BY <1>2, <2>1, <2>2, <2>3 DEF Framework
<1>5. \A o \in Objects : AttributeSound(e, o) BY <1>4, FrameFacts DEF AttributeSound
<1>6. Slotted(e) = S BY <1>4, FrameFacts DEF Slotted
<1> QED BY <1>3, <1>4, <1>5, <1>6, FrameFacts DEF Frames, Sound

LEMMA ClosedFacts ==
    ASSUME NEW a \in Attribute
    PROVE  /\ Closed(a) \in Attribute /\ Closed(a).slot = a.slot /\ Closed(a).trans = 0
           /\ Closed(a).backup = None /\ ~Closed(a).forgotten /\ (Closed(a).on => a.on)
<1>1. CASE a.forgotten
  <2>1. PICK b \in Attribute : b = Detach(a) BY DetachFacts
  <2>2. b.slot = a.slot /\ b.trans = 0 /\ ~b.forgotten /\ ~b.on /\ b.val = a.val
    BY <2>1, DetachFacts
  <2>3. PICK v \in Values \cup {None} : v = IF a.backup = None THEN a.val ELSE a.backup
    BY DEF Attribute
  <2>4. Closed(a) = [b EXCEPT !.backup = None, !.val = v]
    BY <1>1, <2>1, <2>2, <2>3 DEF Closed, Attribute
  <2>5. PICK c : c = [b EXCEPT !.backup = None, !.val = v] OBVIOUS
  <2>6. /\ c \in Attribute /\ c.slot = b.slot /\ c.trans = b.trans /\ c.backup = None
        /\ c.forgotten = b.forgotten /\ c.on = b.on
    BY <2>3, <2>5 DEF Attribute
  <2> QED BY <2>2, <2>4, <2>5, <2>6
<1>2. CASE ~a.forgotten
  <2>1. PICK c : c = [a EXCEPT !.trans = 0, !.backup = None] OBVIOUS
  <2>2. Closed(a) = c BY <1>2, <2>1 DEF Closed
  <2>3. /\ c \in Attribute /\ c.slot = a.slot /\ c.trans = 0 /\ c.backup = None
        /\ c.forgotten = a.forgotten /\ c.on = a.on
    <3>1. \A t \in 0 .. 1, v \in Values \cup {None} :
             [a EXCEPT !.trans = t, !.backup = v] \in Attribute
      BY DEF Attribute
    <3>2. 0 \in 0 .. 1 /\ None \in Values \cup {None} OBVIOUS
    <3>3. c \in Attribute BY <2>1, <3>1, <3>2
    <3> QED BY <2>1, <3>3 DEF Attribute
  <2> QED BY <1>2, <2>2, <2>3
<1> QED BY <1>1, <1>2

LEMMA PartOfFacts ==
    ASSUME NEW S \in SUBSET Objects, NEW d \in Frames(S), NEW o \in Objects, d.attr[o].on
    PROVE  PartOf(o, d.attr[o]) \in Parts(S)
<1>1. PICK a \in Attribute : a = d.attr[o] BY FrameFacts
<1>2. a.slot \in Slots /\ o \in S BY <1>1, FrameFacts
<1>3. a.backup \in Values \cup {None} BY DEF Attribute
<1>4. Part("removal", a.slot, o, None) \in Parts(S)
  BY <1>2 DEF Part, Parts, AttributeDelta
<1>5. Part("addition", a.slot, None, None) \in Parts(S)
  BY <1>2 DEF Part, Parts, AttributeDelta
<1>6. Part("modification", a.slot, None, a.backup) \in Parts(S)
  BY <1>2, <1>3 DEF Part, Parts, AttributeDelta
<1> QED BY <1>1, <1>4, <1>5, <1>6 DEF PartOf

LEMMA NullStored == ASSUME NEW S PROVE NullDelta \in Stored(S)
BY FS_EmptySet, NothingContents DEF NullDelta, Stored, Delta

LEMMA CommitFacts ==
    ASSUME NEW S \in SUBSET Objects, NEW d \in Frames(S)
    PROVE  /\ Commit(d).data \in Frames(S) /\ Commit(d).data.transaction = 0
           /\ Commit(d).delta \in Stored(S)
<1> USE FrameFacts
<1>1. PICK touched : touched = Touched(d) OBVIOUS
<1>2. PICK visited : visited = Reached(d) OBVIOUS
<1>3. visited = {l \in Labels : d.mayMod[l]}
  <2>1. d.mayMod \in [Labels -> BOOLEAN] BY DEF Framework
  <2> QED BY <1>2, <2>1, ReachedMarked
<1>4. touched \subseteq Objects /\ \A o \in touched : d.attr[o].on BY <1>1 DEF Touched
<1>5. \A o \in Objects : d.attr[o].trans = 1 => o \in touched
  <2> SUFFICES ASSUME NEW o \in Objects, d.attr[o].trans = 1 PROVE o \in touched OBVIOUS
  <2>1. AttributeSound(d, o) OBVIOUS
  <2>2. d.attr[o].on
    BY <2>1 DEF AttributeSound
  <2>3. d.attr[o].slot[1] \in Labels BY <2>1, <2>2, TreeAssumption DEF AttributeSound
  <2>4. d.attr[o].slot[1] \in visited BY <1>3, <2>1, <2>3 DEF AttributeSound
  <2> QED BY <1>1, <1>2, <2>1, <2>2, <2>4 DEF AttributeSound, Touched
<1>6. PICK dirty : dirty = {d.attr[o].slot[1] : o \in {t \in touched :
                               d.attr[t].forgotten /\ d.attr[t].backup = None}}
  OBVIOUS
<1>7. dirty \subseteq Labels
  <2>1. \A o \in touched : d.attr[o].slot \in Slots BY <1>4
  <2> QED BY <1>6, <2>1, TreeAssumption
<1>8. PICK kept : kept = [l \in Labels |-> d.mayMod[l] /\ l \notin visited] OBVIOUS
<1>9. \A l \in Labels : ~kept[l] BY <1>3, <1>8
<1>10. PICK may : may = [l \in Labels |-> kept[l] \/ \E m \in dirty : l \in Marks(kept, m)]
  OBVIOUS
<1>11. may \in [Labels -> BOOLEAN] /\ Chain(may)
  <2>1. ASSUME NEW l \in Labels \ {Root}, may[l] PROVE may[Father[l]]
    <3>1. PICK m \in dirty : l \in Marks(kept, m) BY <1>9, <1>10, <2>1
    <3>2. Father[l] \in Labels BY TreeAssumption
    <3>3. m \in Labels BY <1>7
    <3>4. Father[l] \in Marks(kept, m) BY <1>9, <3>1, <3>2, <3>3, MarksFacts
    <3> QED BY <1>10, <3>2, <3>4
  <2>2. may \in [Labels -> BOOLEAN] BY <1>8, <1>10
  <2> QED BY <2>1, <2>2 DEF Chain
<1>12. PICK att : att = [l \in Labels |-> IF l \in visited THEN l \in dirty ELSE d.attMod[l]]
  OBVIOUS
<1>13. att \in [Labels -> BOOLEAN]
  <2>1. d.attMod \in [Labels -> BOOLEAN] BY DEF Framework
  <2>2. ASSUME NEW l \in Labels
        PROVE  (IF l \in visited THEN l \in dirty ELSE d.attMod[l]) \in BOOLEAN
    <3>1. CASE l \in visited
      <4>1. (l \in dirty) \in BOOLEAN OBVIOUS
      <4> QED BY <3>1, <4>1, Zenon
    <3>2. CASE l \notin visited BY <2>1, <3>2
    <3> QED BY <3>1, <3>2
  <2> QED BY <1>12, <2>2
<1>14. PICK attr : attr = [o \in Objects |-> IF o \in touched THEN Closed(d.attr[o])
                                             ELSE d.attr[o]]
  OBVIOUS
<1>15. attr \in [Objects -> Attribute] BY <1>14, ClosedFacts
<1>16. PICK time \in Nat : time = IF touched = {} THEN d.time ELSE d.time + 1
  BY DEF Framework
<1>17. PICK e : e = [d EXCEPT !.attr = attr, !.attMod = att, !.mayMod = may, !.time = time,
                              !.was = Nothing, !.begin = 0, !.transaction = 0]
  OBVIOUS
<1>18. PICK parts : parts = {PartOf(o, d.attr[o]) : o \in touched} OBVIOUS
<1>19. PICK delta : delta = IF touched = {} THEN NullDelta
                            ELSE [NullDelta EXCEPT !.begin = d.begin, !.end = time,
                                                   !.parts = parts, !.back = d.was]
  OBVIOUS
<1>20. Commit(d) = [data |-> e, delta |-> delta]
  BY <1>1, <1>2, <1>6, <1>8, <1>10, <1>12, <1>14, <1>16, <1>17, <1>18, <1>19
  DEF Commit, Committed
<1>21. /\ e \in Framework /\ e.attr = attr /\ e.transaction = 0
       /\ e.attMod = att /\ e.mayMod = may
  <2>1. 0 \in 0 .. 1 /\ 0 \in Nat /\ d \in Framework OBVIOUS
  <2>2. [d EXCEPT !.attr = attr, !.attMod = att, !.mayMod = may, !.time = time, !.was = Nothing,
                  !.begin = 0, !.transaction = 0] \in Framework
    BY <1>11, <1>13, <1>15, <1>16, <2>1, NothingContents, FrameworkEdits
  <2> QED BY <1>17, <2>1, <2>2 DEF Framework
<1>22. \A o \in Objects : attr[o].slot = d.attr[o].slot BY <1>14, ClosedFacts
<1>23. ASSUME NEW o \in Objects PROVE AttributeSound(e, o)
  <2>1. attr[o].trans = 0 /\ attr[o].backup = None /\ ~attr[o].forgotten
    <3>1. CASE o \in touched BY <1>14, <3>1, ClosedFacts
    <3>2. CASE o \notin touched
      <4>1. d.attr[o].trans = 0 BY <1>5, <3>2 DEF Attribute
      <4>2. AttributeSound(d, o) OBVIOUS
      <4> QED BY <1>14, <3>2, <4>1, <4>2 DEF AttributeSound
    <3> QED BY <3>1, <3>2
  <2>2. attr[o].on => d.attr[o].on BY <1>14, ClosedFacts
  <2>3. attr[o].on => attr[o].slot \in Slots BY <1>22, <2>2
  <2> QED BY <1>21, <2>1, <2>3 DEF AttributeSound
<1>24. Slotted(e) = S BY <1>21, <1>22 DEF Slotted
<1>25. e \in Frames(S) BY <1>11, <1>21, <1>23, <1>24 DEF Frames, Sound
<1>26. delta \in Stored(S)
  <2>1. IsFiniteSet(touched) BY <1>4, TreeAssumption, FS_Subset
  <2>2. IsFiniteSet(parts)
    <3>1. PICK f : f = [o \in touched |-> PartOf(o, d.attr[o])] OBVIOUS
    <3>2. f \in Surjection(touched, parts) BY <1>18, <3>1 DEF Surjection
    <3> QED BY <2>1, <3>2, FS_Surjection
  <2>3. parts \subseteq Parts(S) BY <1>4, <1>18, PartOfFacts
  <2>4. parts \in SUBSET AttributeDelta BY <2>3 DEF Parts
  <2>5. d.begin \in Nat /\ d.was \in Contents BY DEF Framework
  <2>6. NullDelta \in Delta BY NullStored DEF Stored
  <2>7. PICK f : f = [NullDelta EXCEPT !.begin = d.begin, !.end = time,
                                       !.parts = parts, !.back = d.was]
    OBVIOUS
  <2>8. f \in Delta /\ f.parts = parts BY <2>4, <2>5, <2>6, <2>7 DEF Delta
  <2>9. f \in Stored(S) BY <2>2, <2>3, <2>8 DEF Stored
  <2> QED BY <1>19, <2>7, <2>9, NullStored
<1> QED BY <1>20, <1>21, <1>25, <1>26

LEMMA AsideFrame ==
    ASSUME NEW S \in SUBSET Objects, NEW d \in Frames(S), NEW e \in Framework,
           e.attr = d.attr, e.transaction = d.transaction,
           e.attMod = d.attMod, e.mayMod = d.mayMod
    PROVE  e \in Frames(S)
<1>1. \A o \in Objects : AttributeSound(e, o) BY FrameFacts DEF AttributeSound
<1>2. Slotted(e) = S BY FrameFacts DEF Slotted
<1> QED BY <1>1, <1>2, FrameFacts DEF Frames, Sound

LEMMA TimeFrame ==
    ASSUME NEW S \in SUBSET Objects, NEW d \in Frames(S), NEW time \in Nat
    PROVE  LET e == [d EXCEPT !.time = time] IN
           e \in Frames(S) /\ e.transaction = d.transaction
<1>1. PICK e : e = [d EXCEPT !.time = time] OBVIOUS
<1>2. /\ e \in Framework /\ e.attr = d.attr /\ e.transaction = d.transaction
      /\ e.attMod = d.attMod /\ e.mayMod = d.mayMod
  BY <1>1, FrameFacts DEF Framework
<1> QED BY <1>1, <1>2, AsideFrame

LEMMA AllowFrame ==
    ASSUME NEW S \in SUBSET Objects, NEW d \in Frames(S), NEW allow \in BOOLEAN
    PROVE  LET e == [d EXCEPT !.allow = allow] IN
           e \in Frames(S) /\ e.transaction = d.transaction
<1>1. PICK e : e = [d EXCEPT !.allow = allow] OBVIOUS
<1>2. /\ e \in Framework /\ e.attr = d.attr /\ e.transaction = d.transaction
      /\ e.attMod = d.attMod /\ e.mayMod = d.mayMod
  BY <1>1, FrameFacts DEF Framework
<1> QED BY <1>1, <1>2, AsideFrame

LEMMA NullFrame ==
    ASSUME NEW S \in SUBSET Objects, NEW d \in Frames(S)
    PROVE  LET e == [d EXCEPT !.fault = "null"] IN
           e \in Frames(S) /\ e.transaction = d.transaction
<1>1. PICK e : e = [d EXCEPT !.fault = "null"] OBVIOUS
<1>2. /\ e \in Framework /\ e.attr = d.attr /\ e.transaction = d.transaction
      /\ e.attMod = d.attMod /\ e.mayMod = d.mayMod
  BY <1>1, FrameFacts DEF Framework
<1> QED BY <1>1, <1>2, AsideFrame

LEMMA UndoFacts ==
    ASSUME NEW S \in SUBSET Objects, NEW d \in Frames(S), NEW delta \in Stored(S)
    PROVE  /\ Undo(d, delta).data \in Frames(S) /\ Undo(d, delta).data.transaction = 0
           /\ Undo(d, delta).delta \in Stored(S)
<1>1. OpenTransaction(d) \in Frames(S) BY OpenFrame
<1>2. delta.parts \in SUBSET Parts(S) /\ IsFiniteSet(delta.parts) /\ delta \in Delta
  BY DEF Stored
<1>3. PICK e : e = Apply(OpenTransaction(d), delta.parts) OBVIOUS
<1>4. e \in Frames(S) BY <1>1, <1>2, <1>3, ApplyFrame
<1>5. PICK done : done = Commit(e) OBVIOUS
<1>6. /\ done.data \in Frames(S) /\ done.data.transaction = 0 /\ done.delta \in Stored(S)
  BY <1>4, <1>5, CommitFacts
<1>7. delta.begin \in Nat /\ delta.end \in Nat BY <1>2 DEF Delta
<1>8. PICK x : x = [done.data EXCEPT !.time = delta.begin] OBVIOUS
<1>9. x \in Frames(S) /\ x.transaction = 0 BY <1>6, <1>7, <1>8, TimeFrame
<1>10. PICK back \in Contents : back = Visible(d) BY VisibleContents, FrameFacts
<1>11. PICK y : y = [done.delta EXCEPT !.begin = delta.end, !.end = delta.begin, !.back = back]
  OBVIOUS
<1>12. y \in Stored(S)
  <2>1. done.delta \in Delta BY <1>6 DEF Stored
  <2>2. y \in Delta /\ y.parts = done.delta.parts BY <1>7, <1>11, <2>1 DEF Delta
  <2> QED BY <1>6, <2>2 DEF Stored
<1>13. Undo(d, delta) = [data |-> x, delta |-> y]
  BY <1>3, <1>5, <1>8, <1>10, <1>11 DEF Undo, Undone
<1> QED BY <1>9, <1>12, <1>13

LEMMA AbortFrame ==
    ASSUME NEW S \in SUBSET Objects, NEW d \in Frames(S)
    PROVE  Abort(d) \in Frames(S) /\ Abort(d).transaction = 0
<1>1. PICK done : done = Commit(d) OBVIOUS
<1>2. /\ done.data \in Frames(S) /\ done.data.transaction = 0 /\ done.delta \in Stored(S)
  BY <1>1, CommitFacts
<1>3. PICK delta \in Stored(S) : delta = done.delta BY <1>2
<1>4. delta.parts \in SUBSET Parts(S) /\ IsFiniteSet(delta.parts) /\ delta.begin \in Nat
  BY <1>3 DEF Stored, Delta
<1>5. PICK e : e = Apply(done.data, delta.parts) OBVIOUS
<1>6. e \in Frames(S) /\ e.transaction = 0 BY <1>2, <1>4, <1>5, ApplyFrame
<1>7. PICK x : x = [e EXCEPT !.time = delta.begin] OBVIOUS
<1>8. x \in Frames(S) /\ x.transaction = 0 BY <1>4, <1>6, <1>7, TimeFrame
<1>9. Abort(d) \in {done.data, x} BY <1>1, <1>3, <1>5, <1>7 DEF Abort, Aborted
<1> QED BY <1>2, <1>8, <1>9

-----------------------------------------------------------------------------
(* Documents.                                                                *)

Drafts(S) ==
    [data : Frames(S), undos : Seq(Stored(S)), redos : Seq(Stored(S)), filo : Seq(Stored(S)),
     limit : Nat, nested : BOOLEAN, only : BOOLEAN, from : BOOLEAN, fromRedo : BOOLEAN]

\* In the nested mode undo is enabled, and what is open has a compound delta.
Documents(S) ==
    {D \in Drafts(S) :
        D.nested => D.limit # 0 /\ (D.data.transaction = 1 => D.filo # << >>)}

LEMMA DocumentFacts ==
    ASSUME NEW S \in SUBSET Objects, NEW D \in Documents(S)
    PROVE  /\ D.data \in Frames(S) /\ D.data.transaction \in 0 .. 1
           /\ D.undos \in Seq(Stored(S)) /\ D.redos \in Seq(Stored(S)) /\ D.filo \in Seq(Stored(S))
           /\ D.limit \in Nat
           /\ D.nested \in BOOLEAN /\ D.only \in BOOLEAN /\ D.from \in BOOLEAN
           /\ D.fromRedo \in BOOLEAN
           /\ (Opened(D) <=> D.data.transaction = 1)
           /\ (D.nested => D.limit # 0 /\ (Opened(D) => D.filo # << >>))
<1>1. D.data \in Frames(S) BY DEF Documents, Drafts
<1> QED BY <1>1, FrameFacts DEF Documents, Drafts, Opened

\* The data replaced.
LEMMA DataDocument ==
    ASSUME NEW S \in SUBSET Objects, NEW D \in Documents(S), NEW d \in Frames(S),
           d.transaction = 1 => D.data.transaction = 1 \/ D.filo # << >> \/ ~D.nested
    PROVE  /\ WithData(D, d) \in Documents(S) /\ WithData(D, d).data = d
           /\ WithData(D, d).undos = D.undos /\ WithData(D, d).redos = D.redos
           /\ WithData(D, d).filo = D.filo
           /\ WithData(D, d).limit = D.limit /\ WithData(D, d).nested = D.nested
<1>1. PICK E : E = WithData(D, d) OBVIOUS
<1>2. /\ E.data = d /\ E.undos = D.undos /\ E.redos = D.redos /\ E.filo = D.filo
      /\ E.limit = D.limit /\ E.nested = D.nested
      /\ E \in Drafts(S)
  BY <1>1 DEF WithData, Documents, Drafts
<1>3. E \in Documents(S) BY <1>2 DEF Documents
<1> QED BY <1>1, <1>2, <1>3

\* What a call leaves as it was.
Same(D, E) == /\ E.undos = D.undos /\ E.redos = D.redos
              /\ E.limit = D.limit /\ E.nested = D.nested

LEMMA AllowDocument ==
    ASSUME NEW S \in SUBSET Objects, NEW D \in Documents(S)
    PROVE  /\ Allow(D) \in Documents(S) /\ Same(D, Allow(D)) /\ Allow(D).filo = D.filo
           /\ Allow(D).data.transaction = D.data.transaction
<1>1. PICK d : d = [D.data EXCEPT !.allow = TRUE] OBVIOUS
<1>2. TRUE \in BOOLEAN OBVIOUS
<1>3. d \in Frames(S) /\ d.transaction = D.data.transaction
  BY <1>1, <1>2, DocumentFacts, AllowFrame
<1>4. Allow(D) = WithData(D, d) BY <1>1 DEF Allow, WithData, Documents, Drafts
<1> QED BY <1>3, <1>4, DataDocument DEF Same

LEMMA DenyDocument ==
    ASSUME NEW S \in SUBSET Objects, NEW D \in Documents(S)
    PROVE  /\ Deny(D) \in Documents(S) /\ Same(D, Deny(D)) /\ Deny(D).filo = D.filo
           /\ Deny(D).data.transaction = D.data.transaction
<1>1. PICK allow \in BOOLEAN : allow = (Opened(D) /\ D.limit # 0) OBVIOUS
<1>2. PICK d : d = [D.data EXCEPT !.allow = allow] OBVIOUS
<1>3. d \in Frames(S) /\ d.transaction = D.data.transaction
  BY <1>2, DocumentFacts, AllowFrame
<1>4. D.only => Deny(D) = WithData(D, d) BY <1>1, <1>2 DEF Deny, WithData, Documents, Drafts
<1>5. ~D.only => Deny(D) = D BY DEF Deny
<1>6. WithData(D, d) \in Documents(S) /\ Same(D, WithData(D, d))
      /\ WithData(D, d).filo = D.filo /\ WithData(D, d).data = d
  BY <1>3, DataDocument DEF Same
<1> QED BY <1>3, <1>4, <1>5, <1>6 DEF Same

LEMMA BegunDocument ==
    ASSUME NEW S \in SUBSET Objects, NEW D \in Documents(S), D.nested => D.filo # << >>
    PROVE  /\ Begun(D) \in Documents(S) /\ Same(D, Begun(D)) /\ Begun(D).filo = D.filo
           /\ Begun(D).data.transaction = 1
<1>1. PICK d : d = OpenTransaction(D.data) OBVIOUS
<1>2. d \in Frames(S) /\ d.transaction = 1 BY <1>1, DocumentFacts, OpenFrame
<1>3. D.filo # << >> \/ ~D.nested OBVIOUS
<1>4. Begun(D) = WithData(D, d) BY <1>1 DEF Begun
<1> QED BY <1>2, <1>3, <1>4, DataDocument DEF Same

LEMMA HeadReplaced ==
    ASSUME NEW X, NEW s \in Seq(X), s # << >>, NEW e \in X
    PROVE  [s EXCEPT ![1] = e] \in Seq(X) /\ [s EXCEPT ![1] = e] # << >>
<1>1. Len(s) \in Nat \ {0} BY EmptySeq
<1>2. 1 \in 1 .. Len(s) BY <1>1
<1>3. [s EXCEPT ![1] = e] \in Seq(X) /\ Len([s EXCEPT ![1] = e]) = Len(s)
  BY <1>2, ExceptSeq
<1> QED BY <1>1, <1>3, EmptySeq

LEMMA FirstOf ==
    ASSUME NEW X, NEW s \in Seq(X), s # << >>
    PROVE  s[1] \in X /\ s[Len(s)] \in X /\ Len(s) \in Nat \ {0}
           /\ Tail(s) \in Seq(X) /\ Front(s) \in Seq(X) /\ Head(s) = s[1] /\ Last(s) = s[Len(s)]
<1>1. Len(s) \in Nat \ {0} BY EmptySeq
<1>2. 1 \in 1 .. Len(s) /\ Len(s) \in 1 .. Len(s) BY <1>1
<1>3. s[1] \in X /\ s[Len(s)] \in X BY <1>2, ElementOfSeq
<1>4. Tail(s) \in Seq(X) BY HeadTailProperties
<1>5. Front(s) \in Seq(X)
  <2>1. Len(s) - 1 \in Int /\ 1 \in Int BY <1>1
  <2>2. \A i \in 1 .. Len(s) - 1 : s[i] \in X BY <1>1, ElementOfSeq
  <2>3. SubSeq(s, 1, Len(s) - 1) \in Seq(X) BY <2>1, <2>2, SubSeqProperties
  <2> QED BY <2>3 DEF Front
<1>6. Head(s) = s[1] OBVIOUS
<1> QED BY <1>1, <1>3, <1>4, <1>5, <1>6 DEF Last

LEMMA AppendDeltaStored ==
    ASSUME NEW S, NEW first \in Stored(S), NEW second \in Stored(S)
    PROVE  AppendDelta(first, second) \in Stored(S)
<1>1. PICK more : more = {p \in second.parts : \A q \in first.parts : q.slot # p.slot} OBVIOUS
<1>2. /\ first \in Delta /\ second \in Delta
      /\ IsFiniteSet(first.parts) /\ IsFiniteSet(second.parts)
      /\ first.parts \subseteq Parts(S) /\ second.parts \subseteq Parts(S)
  BY DEF Stored
<1>3. more \subseteq second.parts BY <1>1
<1>4. IsFiniteSet(first.parts \cup more) BY <1>2, <1>3, FS_Subset, FS_Union
<1>5. PICK parts : parts = first.parts \cup more OBVIOUS
<1>6. parts \subseteq Parts(S) /\ IsFiniteSet(parts) BY <1>2, <1>3, <1>4, <1>5
<1>7. PICK e : e = [first EXCEPT !.end = second.end, !.parts = parts] OBVIOUS
<1>8. e \in Delta /\ e.parts = parts
  <2>1. parts \in SUBSET AttributeDelta BY <1>6 DEF Parts
  <2> QED BY <1>2, <1>7, <2>1 DEF Delta
<1>9. e \in Stored(S) BY <1>6, <1>8 DEF Stored
<1>10. AppendDelta(first, second) \in {first, e} BY <1>1, <1>5, <1>7 DEF AppendDelta
<1> QED BY <1>9, <1>10

-----------------------------------------------------------------------------
(* Commits.                                                                  *)

\* What CommitTransaction may change besides the lists and the data.
Stays(D, E) == E.limit = D.limit /\ E.nested = D.nested

LEMMA PushedDocument ==
    ASSUME NEW S \in SUBSET Objects, NEW D \in Documents(S), NEW delta \in Stored(S)
    PROVE  Pushed(D, delta) \in Documents(S) /\ Stays(D, Pushed(D, delta))
<1> DEFINE us == Append(D.undos, delta)
           rest == Tail(us)
           moved == [rest EXCEPT ![1].mark = TRUE]
<1>1. us \in Seq(Stored(S)) /\ us # << >> BY DocumentFacts, AppendProperties
<1>2. rest \in Seq(Stored(S)) BY <1>1, FirstOf
<1>3. moved \in Seq(Stored(S))
  <2>1. CASE rest = << >>
    <3>1. moved = rest BY <2>1
    <3> QED BY <1>2, <3>1
  <2>2. CASE rest # << >>
    <3>1. rest[1] \in Stored(S) BY <1>2, <2>2, FirstOf
    <3>2. PICK e : e = [rest[1] EXCEPT !.mark = TRUE] OBVIOUS
    <3>3. e \in Stored(S)
      <4>1. PICK f \in Stored(S) : f = rest[1] BY <3>1
      <4>2. f \in Delta BY DEF Stored
      <4>3. \A b \in BOOLEAN : [f EXCEPT !.mark = b] \in Delta BY <4>2 DEF Delta
      <4>4. TRUE \in BOOLEAN OBVIOUS
      <4>5. e \in Delta BY <3>2, <4>1, <4>3, <4>4
      <4>6. e.parts = f.parts BY <3>2, <4>1, <4>2 DEF Delta
      <4> QED BY <4>5, <4>6 DEF Stored
    <3>4. moved = [rest EXCEPT ![1] = e] BY <3>2
    <3> HIDE DEF rest, moved
    <3> QED BY <1>2, <2>2, <3>3, <3>4, HeadReplaced
  <2> QED BY <2>1, <2>2
<1>4. << >> \in Seq(Stored(S)) BY EmptySeq
<1>5. PICK clear : clear = [D EXCEPT !.redos = << >>] OBVIOUS
<1>6. ASSUME NEW vs \in Seq(Stored(S)), NEW from \in BOOLEAN, NEW fromRedo \in BOOLEAN
      PROVE  LET E == [clear EXCEPT !.undos = vs]
                 F == [clear EXCEPT !.undos = vs, !.from = from, !.fromRedo = fromRedo]
             IN  E \in Documents(S) /\ Stays(D, E) /\ F \in Documents(S) /\ Stays(D, F)
  <2>1. clear \in Drafts(S) /\ clear.limit = D.limit /\ clear.nested = D.nested
        /\ clear.data = D.data /\ clear.filo = D.filo
    BY <1>4, <1>5 DEF Documents, Drafts
  <2>2. PICK E : E = [clear EXCEPT !.undos = vs] OBVIOUS
  <2>3. E \in Drafts(S) /\ E.limit = D.limit /\ E.nested = D.nested
        /\ E.data = D.data /\ E.filo = D.filo
    BY <2>1, <2>2 DEF Drafts
  <2>4. PICK F : F = [clear EXCEPT !.undos = vs, !.from = from, !.fromRedo = fromRedo] OBVIOUS
  <2>5. F \in Drafts(S) /\ F.limit = D.limit /\ F.nested = D.nested
        /\ F.data = D.data /\ F.filo = D.filo
    BY <2>1, <2>4 DEF Drafts
  <2> QED BY <2>2, <2>3, <2>4, <2>5 DEF Documents, Stays
<1>7. FALSE \in BOOLEAN OBVIOUS
<1>8. Pushed(D, delta) \in {[clear EXCEPT !.undos = us], [clear EXCEPT !.undos = rest],
                            [clear EXCEPT !.undos = moved],
                            [clear EXCEPT !.undos = rest, !.from = FALSE, !.fromRedo = FALSE]}
  BY <1>5 DEF Pushed
<1> HIDE DEF us, rest, moved
<1> QED BY <1>1, <1>2, <1>3, <1>6, <1>7, <1>8

\* The lists and the data replaced, no transaction being open after.
LEMMA ClosedDocument ==
    ASSUME NEW S \in SUBSET Objects, NEW D \in Documents(S), NEW d \in Frames(S),
           d.transaction = 0, NEW filo \in Seq(Stored(S))
    PROVE  LET E == WithData([D EXCEPT !.filo = filo], d) IN
           E \in Documents(S) /\ Same(D, E) /\ E.filo = filo /\ E.data = d
<1>1. PICK F : F = [D EXCEPT !.filo = filo] OBVIOUS
<1>2. F \in Drafts(S) /\ Same(D, F) /\ F.filo = filo
  BY <1>1 DEF Documents, Drafts, Same
<1>3. PICK E : E = [F EXCEPT !.data = d] OBVIOUS
<1>4. E \in Drafts(S) /\ Same(D, E) /\ E.filo = filo /\ E.data = d
  BY <1>2, <1>3 DEF Drafts, Same
<1>5. E \in Documents(S) BY <1>4 DEF Documents, Same
<1> QED BY <1>1, <1>3, <1>4, <1>5 DEF WithData

LEMMA FiloDocument ==
    ASSUME NEW S \in SUBSET Objects, NEW D \in Documents(S), NEW filo \in Seq(Stored(S)),
           D.data.transaction = 0 \/ filo # << >>
    PROVE  LET E == [D EXCEPT !.filo = filo] IN
           E \in Documents(S) /\ Same(D, E) /\ E.filo = filo /\ E.data = D.data
<1>1. PICK E : E = [D EXCEPT !.filo = filo] OBVIOUS
<1>2. E \in Drafts(S) /\ Same(D, E) /\ E.filo = filo /\ E.data = D.data
  BY <1>1 DEF Documents, Drafts, Same
<1>3. E \in Documents(S) BY <1>2, DocumentFacts DEF Documents, Same
<1> QED BY <1>1, <1>2, <1>3

LEMMA PassedOnDocument ==
    ASSUME NEW S \in SUBSET Objects, NEW D \in Documents(S), D.data.transaction = 0,
           NEW delta \in Stored(S)
    PROVE  PassedOn(D, delta) \in Documents(S) /\ Stays(D, PassedOn(D, delta))
<1>1. CASE D.filo # << >>
  <2>1. D.filo \in Seq(Stored(S)) BY DocumentFacts
  <2>2. D.filo[1] \in Stored(S) BY <1>1, <2>1, FirstOf
  <2>3. PICK f : f = AppendDelta(D.filo[1], delta) OBVIOUS
  <2>4. f \in Stored(S) BY <2>2, <2>3, AppendDeltaStored
  <2>5. PICK filo : filo = [D.filo EXCEPT ![1] = f] OBVIOUS
  <2>6. filo \in Seq(Stored(S)) /\ filo # << >> BY <1>1, <2>1, <2>4, <2>5, HeadReplaced
  <2>7. PICK E : E = [D EXCEPT !.filo = filo] OBVIOUS
  <2>8. E \in Documents(S) /\ Same(D, E) /\ E.filo = filo BY <2>6, <2>7, FiloDocument
  <2>9. PassedOn(D, delta) = Begun(E)
    BY <1>1, <2>3, <2>5, <2>7 DEF PassedOn, Documents, Drafts
  <2> QED BY <2>6, <2>8, <2>9, BegunDocument DEF Same, Stays
<1>2. CASE D.filo = << >> /\ delta.parts = {} BY <1>2 DEF PassedOn, Stays
<1>3. CASE D.filo = << >> /\ delta.parts # {}
  <2>1. PICK us : us = Append(D.undos, delta) OBVIOUS
  <2>2. us \in Seq(Stored(S)) /\ << >> \in Seq(Stored(S))
    BY <2>1, DocumentFacts, AppendProperties, EmptySeq
  <2>3. PICK E : E = [D EXCEPT !.undos = us, !.redos = << >>] OBVIOUS
  <2>4. E \in Drafts(S) /\ E.limit = D.limit /\ E.nested = D.nested /\ E.data = D.data
        /\ E.filo = D.filo
    BY <2>2, <2>3 DEF Documents, Drafts
  <2>5. PassedOn(D, delta) = E BY <1>3, <2>1, <2>3 DEF PassedOn
  <2> QED BY <2>4, <2>5 DEF Documents, Stays
<1> QED BY <1>1, <1>2, <1>3

LEMMA CommitDocument ==
    ASSUME NEW S \in SUBSET Objects, NEW D \in Documents(S)
    PROVE  CommitTransaction(D) \in Documents(S) /\ Stays(D, CommitTransaction(D))
<1>1. PICK A : A = Allow(D) OBVIOUS
<1>2. A \in Documents(S) /\ Stays(D, A) BY <1>1, AllowDocument DEF Same, Stays
<1>3. PICK done : done = Commit(D.data) OBVIOUS
<1>4. /\ done.data \in Frames(S) /\ done.data.transaction = 0 /\ done.delta \in Stored(S)
  BY <1>3, DocumentFacts, CommitFacts
<1>5. PICK C : C = Closing(A, done) OBVIOUS
<1>6. ASSUME A.nested /\ Opened(A) PROVE C \in Documents(S) /\ Stays(D, C)
  <2>1. A.filo \in Seq(Stored(S)) /\ A.filo # << >> BY <1>2, <1>6, DocumentFacts
  <2>2. A.filo[1] \in Stored(S) /\ Tail(A.filo) \in Seq(Stored(S)) BY <2>1, FirstOf
  <2>3. PICK E : E = WithData([A EXCEPT !.filo = Tail(A.filo)], done.data) OBVIOUS
  <2>4. E \in Documents(S) /\ Same(A, E) /\ E.data.transaction = 0
    BY <1>2, <1>4, <2>2, <2>3, ClosedDocument
  <2>5. PICK delta \in Stored(S) : delta = AppendDelta(A.filo[1], done.delta)
    BY <1>4, <2>2, AppendDeltaStored
  <2>6. C = PassedOn(E, delta) BY <1>5, <1>6, <2>3, <2>5 DEF Closing, CommitNested
  <2> QED BY <1>2, <2>4, <2>6, PassedOnDocument DEF Same, Stays
<1>7. ASSUME ~(A.nested /\ Opened(A)) PROVE C \in Documents(S) /\ Stays(D, C)
  <2>1. C = CommitFlat(A, done) BY <1>5, <1>7 DEF Closing
  <2>2. CASE A.limit = 0 \/ ~Opened(A) BY <1>2, <2>1, <2>2 DEF CommitFlat
  <2>3. CASE ~(A.limit = 0 \/ ~Opened(A))
    <3>1. PICK E : E = WithData(A, done.data) OBVIOUS
    <3>2. E \in Documents(S) /\ Stays(A, E)
      <4>1. ~(done.data.transaction = 1) BY <1>4
      <4> QED BY <1>2, <1>4, <3>1, <4>1, DataDocument DEF Stays
    <3>3. Pushed(E, done.delta) \in Documents(S) /\ Stays(E, Pushed(E, done.delta))
      BY <1>4, <3>2, PushedDocument
    <3>4. C \in {E, Pushed(E, done.delta)} BY <2>1, <2>3, <3>1 DEF CommitFlat
    <3> QED BY <1>2, <3>2, <3>3, <3>4 DEF Stays
  <2> QED BY <2>2, <2>3
<1>8. C \in Documents(S) /\ Stays(D, C) BY <1>6, <1>7
<1>9. CommitTransaction(D) = Deny(C) BY <1>1, <1>3, <1>5 DEF CommitTransaction
<1> QED BY <1>8, <1>9, DenyDocument DEF Same, Stays

-----------------------------------------------------------------------------
(* Aborts, and the opening of commands.                                      *)

LEMMA AbortDocument ==
    ASSUME NEW S \in SUBSET Objects, NEW D \in Documents(S)
    PROVE  AbortTransaction(D) \in Documents(S) /\ Same(D, AbortTransaction(D))
<1>1. PICK A : A = Allow(D) OBVIOUS
<1>2. A \in Documents(S) /\ Same(D, A) BY <1>1, AllowDocument
<1>3. PICK B : B = Dropped(A) OBVIOUS
<1>4. B \in Documents(S) /\ Same(A, B) /\ (B.nested => B.data.transaction = 0)
  <2>1. CASE Opened(A) /\ A.limit # 0
    <3>1. Abort(A.data) \in Frames(S) /\ Abort(A.data).transaction = 0
      BY <1>2, DocumentFacts, AbortFrame
    <3>2. ~(Abort(A.data).transaction = 1) BY <3>1
    <3>3. B = WithData(A, Abort(A.data)) BY <1>3, <2>1 DEF Dropped
    <3> QED BY <1>2, <3>1, <3>2, <3>3, DataDocument DEF Same
  <2>2. CASE ~(Opened(A) /\ A.limit # 0)
    <3>1. B = A BY <1>3, <2>2 DEF Dropped
    <3>2. A.nested => A.data.transaction = 0 BY <1>2, <2>2, DocumentFacts
    <3> QED BY <1>2, <3>1, <3>2 DEF Same
  <2> QED BY <2>1, <2>2
<1>5. PICK C : C = AbortNested(B) OBVIOUS
<1>6. ASSUME B.nested /\ B.filo # << >> PROVE C \in Documents(S) /\ Same(B, C)
  <2>1. B.filo \in Seq(Stored(S)) BY <1>4, DocumentFacts
  <2>2. B.filo[1] \in Stored(S) /\ Tail(B.filo) \in Seq(Stored(S)) BY <1>6, <2>1, FirstOf
  <2>3. PICK R : R = Reverted(B) OBVIOUS
  <2>4. R \in Documents(S) /\ Same(B, R) /\ R.filo = B.filo /\ R.data.transaction = 0
    <3>1. PICK u : u = Undo(B.data, B.filo[1]).data OBVIOUS
    <3>2. u \in Frames(S) /\ u.transaction = 0 BY <1>4, <2>2, <3>1, DocumentFacts, UndoFacts
    <3>3. ~(u.transaction = 1) BY <3>2
    <3>4. WithData(B, u) \in Documents(S) /\ Same(B, WithData(B, u))
          /\ WithData(B, u).filo = B.filo /\ WithData(B, u).data = u
      BY <1>4, <3>2, <3>3, DataDocument DEF Same
    <3>5. R \in {B, WithData(B, u)} BY <2>3, <3>1 DEF Reverted
    <3> QED BY <1>4, <1>6, <3>2, <3>4, <3>5 DEF Same
  <2>5. PICK L : L = [R EXCEPT !.filo = Tail(B.filo)] OBVIOUS
  <2>6. L \in Documents(S) /\ Same(R, L) BY <2>2, <2>4, <2>5, FiloDocument
  <2>7. C = Left(L)
    <3>1. L = [R EXCEPT !.filo = Tail(@)] BY <2>4, <2>5 DEF Documents, Drafts
    <3> QED BY <1>5, <1>6, <2>3, <3>1 DEF AbortNested
  <2>8. CASE L.filo = << >> BY <2>4, <2>6, <2>7, <2>8 DEF Left, Same
  <2>9. CASE L.filo # << >>
    <3>1. C = Begun(L) BY <2>7, <2>9 DEF Left
    <3>2. Begun(L) \in Documents(S) /\ Same(L, Begun(L)) BY <2>6, <2>9, BegunDocument
    <3> QED BY <2>4, <2>6, <3>1, <3>2 DEF Same
  <2> QED BY <2>8, <2>9
<1>7. ASSUME ~(B.nested /\ B.filo # << >>) PROVE C \in Documents(S) /\ Same(B, C)
  BY <1>4, <1>5, <1>7 DEF AbortNested, Same
<1>8. C \in Documents(S) /\ Same(B, C) BY <1>6, <1>7
<1>9. AbortTransaction(D) = Deny(C) BY <1>1, <1>3, <1>5 DEF AbortTransaction
<1>10. Deny(C) \in Documents(S) /\ Same(C, Deny(C)) BY <1>8, DenyDocument
<1> QED BY <1>2, <1>4, <1>8, <1>9, <1>10 DEF Same

LEMMA OpenDocumentDocument ==
    ASSUME NEW S \in SUBSET Objects, NEW D \in Documents(S)
    PROVE  OpenDocument(D) \in Documents(S) /\ Same(D, OpenDocument(D))
<1>1. PICK A : A = Allow(D) OBVIOUS
<1>2. A \in Documents(S) /\ Same(D, A) BY <1>1, AllowDocument
<1>3. PICK B : B = OpenNested(A) OBVIOUS
<1>4. ASSUME A.nested PROVE B \in Documents(S) /\ Same(A, B) /\ B.filo # << >>
  <2>1. PICK done : done = Commit(A.data) OBVIOUS
  <2>2. /\ done.data \in Frames(S) /\ done.data.transaction = 0 /\ done.delta \in Stored(S)
    BY <1>2, <2>1, DocumentFacts, CommitFacts
  <2>3. PICK X : X = Suspended(A, done) OBVIOUS
  <2>4. X \in Documents(S) /\ Same(A, X) /\ X.data.transaction = 0
    <3>1. CASE Opened(A)
      <4>1. A.filo \in Seq(Stored(S)) /\ A.filo # << >> BY <1>2, <1>4, <3>1, DocumentFacts
      <4>2. A.filo[1] \in Stored(S) BY <4>1, FirstOf
      <4>3. PICK f : f = AppendDelta(A.filo[1], done.delta) OBVIOUS
      <4>4. f \in Stored(S) BY <2>2, <4>2, <4>3, AppendDeltaStored
      <4>5. PICK filo : filo = [A.filo EXCEPT ![1] = f] OBVIOUS
      <4>6. filo \in Seq(Stored(S)) BY <4>1, <4>4, <4>5, HeadReplaced
      <4>7. X = WithData([A EXCEPT !.filo = filo], done.data)
        BY <1>2, <2>3, <3>1, <4>3, <4>5 DEF Suspended, Documents, Drafts
      <4> QED BY <1>2, <2>2, <4>6, <4>7, ClosedDocument
    <3>2. CASE ~Opened(A)
      <4>1. X = A BY <2>3, <3>2 DEF Suspended
      <4> QED BY <1>2, <3>2, <4>1, DocumentFacts DEF Same
    <3> QED BY <3>1, <3>2
  <2>5. PICK back \in Contents : back = Visible(A.data)
    BY <1>2, DocumentFacts, FrameFacts, VisibleContents
  <2>6. X.filo \in Seq(Stored(S)) BY <2>4, DocumentFacts
  <2>7. PICK time \in Nat : time = IF X.filo = << >> THEN X.data.time ELSE X.filo[1].end
    <3>1. X.data.time \in Nat BY <2>4, DocumentFacts, FrameFacts DEF Framework
    <3>2. X.filo # << >> => X.filo[1] \in Delta BY <2>6, FirstOf DEF Stored
    <3> QED BY <3>1, <3>2 DEF Delta
  <2>8. PICK n : n = [NullDelta EXCEPT !.begin = time, !.end = time, !.back = back] OBVIOUS
  <2>9. n \in Stored(S)
    <3>1. NullDelta \in Delta /\ NullDelta \in Stored(S) BY NullStored DEF Stored
    <3>2. n \in Delta /\ n.parts = NullDelta.parts BY <2>8, <3>1 DEF Delta
    <3> QED BY <3>1, <3>2 DEF Stored
  <2>10. PICK filo : filo = <<n>> \o X.filo OBVIOUS
  <2>11. filo \in Seq(Stored(S)) /\ filo # << >>
    <3>1. <<n>> \in Seq(Stored(S)) /\ <<n>> # << >> BY <2>9
    <3> QED BY <2>6, <2>10, <3>1, ConcatProperties, ConcatEqualIffEmpty
  <2>12. B = [X EXCEPT !.filo = filo]
    BY <1>3, <1>4, <2>1, <2>3, <2>4, <2>5, <2>7, <2>8, <2>10
    DEF OpenNested, Nested, Documents, Drafts
  <2>13. B \in Documents(S) /\ Same(X, B) /\ B.filo = filo
    BY <2>4, <2>11, <2>12, FiloDocument
  <2> QED BY <2>4, <2>11, <2>13 DEF Same
<1>5. ASSUME ~A.nested PROVE B = A BY <1>3, <1>5 DEF OpenNested
<1>6. B \in Documents(S) /\ Same(A, B) /\ (B.nested => B.filo # << >>)
  BY <1>2, <1>4, <1>5 DEF Same
<1>7. Begun(B) \in Documents(S) /\ Same(B, Begun(B)) BY <1>6, BegunDocument
<1>8. Started(B) \in Documents(S) /\ Same(B, Started(B)) BY <1>6, <1>7 DEF Started, Same
<1>9. OpenDocument(D) = Deny(Started(B)) BY <1>1, <1>3 DEF OpenDocument
<1>10. Deny(Started(B)) \in Documents(S) /\ Same(Started(B), Deny(Started(B)))
  BY <1>8, DenyDocument
<1> QED BY <1>2, <1>6, <1>8, <1>9, <1>10 DEF Same

-----------------------------------------------------------------------------
(* Undo and redo.                                                            *)

LEMMA AllAbortedDocument ==
    ASSUME NEW S \in SUBSET Objects, NEW D \in Documents(S)
    PROVE  AllAborted(D) \in Documents(S) /\ Same(D, AllAborted(D))
<1> DEFINE X == {E \in Documents(S) : Same(D, E)}
           n == Len(D.filo) + 1
           Rec(g) == [k \in 0 .. n |->
                        IF k = 0 THEN D
                        ELSE IF k = 1 \/ g[k - 1].filo # << >> THEN AbortTransaction(g[k - 1])
                        ELSE g[k - 1]]
<1>1. n \in Nat /\ n # 0
  <2>1. D.filo \in Seq(Stored(S)) BY DocumentFacts
  <2>2. Len(D.filo) \in Nat BY <2>1, LenProperties
  <2> QED BY <2>2
<1>2. \A E \in X : AbortTransaction(E) \in X BY AbortDocument DEF Same
<1>3. D \in X BY DEF Same
<1>4. PICK F : F = [k \in 1 .. n |-> [E \in X |-> IF k = 1 \/ E.filo # << >>
                                                  THEN AbortTransaction(E) ELSE E]]
  OBVIOUS
<1> HIDE DEF X, n
<1>5. F \in [1 .. n -> [X -> X]] BY <1>2, <1>4
<1>6. PICK f : Iterates(f, n, X, D, F) BY <1>1, <1>3, <1>5, PrefixRecursion
<1>7. f \in [0 .. n -> X] /\ f[0] = D /\ \A i \in 1 .. n : f[i] = F[i][f[i - 1]]
  BY <1>6 DEF Iterates
<1>8. f = Rec(f)
  <2>1. ASSUME NEW k \in 0 .. n, k # 0
        PROVE  f[k] = IF k = 1 \/ f[k - 1].filo # << >> THEN AbortTransaction(f[k - 1])
                      ELSE f[k - 1]
    <3>1. k \in 1 .. n /\ k - 1 \in 0 .. n BY <1>1, <2>1
    <3>2. f[k - 1] \in X BY <1>7, <3>1
    <3>3. PICK E \in X : E = f[k - 1] BY <3>2
    <3>4. F[k][E] = IF k = 1 \/ E.filo # << >> THEN AbortTransaction(E) ELSE E
      BY <1>4, <3>1
    <3> QED BY <1>7, <3>1, <3>3, <3>4
  <2>2. \A k \in 0 .. n : f[k] = IF k = 0 THEN D
                        ELSE IF k = 1 \/ f[k - 1].filo # << >> THEN AbortTransaction(f[k - 1])
                        ELSE f[k - 1]
    BY <1>7, <2>1
  <2> QED BY <1>7, <2>2
<1>9. PICK g : g = CHOOSE h : h = Rec(h) OBVIOUS
<1>10. g = Rec(g)
  <2> HIDE DEF Rec
  <2> QED BY <1>8, <1>9
<1>11. AllAborted(D) = g[n] BY <1>9, Zenon DEF AllAborted, n
<1>12. ASSUME NEW k \in 0 .. n
       PROVE  g[k] = IF k = 0 THEN D
                     ELSE IF k = 1 \/ g[k - 1].filo # << >> THEN AbortTransaction(g[k - 1])
                     ELSE g[k - 1]
  BY <1>10
<1> HIDE DEF Rec
<1>13. PICK M : M = {k \in Nat : k <= n => g[k] \in X} OBVIOUS
<1>14. M = Nat
  <2>1. 0 \in M BY <1>1, <1>3, <1>12, <1>13
  <2>2. ASSUME NEW k \in M PROVE k + 1 \in M
    <3>1. k \in Nat /\ (k <= n => g[k] \in X) BY <1>13
    <3>2. ASSUME k + 1 <= n PROVE g[k + 1] \in X
      <4>1. k + 1 \in 0 .. n /\ k + 1 # 0 /\ (k + 1) - 1 = k /\ g[k] \in X
        BY <1>1, <3>1, <3>2
      <4>2. g[k + 1] \in {AbortTransaction(g[k]), g[k]} BY <1>12, <4>1
      <4> QED BY <1>2, <4>1, <4>2
    <3> QED BY <1>13, <3>1, <3>2
  <2> QED BY <1>13, <2>1, <2>2, FromZero
<1>15. g[n] \in X BY <1>1, <1>13, <1>14
<1> QED BY <1>11, <1>15 DEF X

LEMMA SteppedFacts ==
    ASSUME NEW S \in SUBSET Objects, NEW D \in Documents(S), NEW delta \in Stored(S)
    PROVE  /\ Stepped(D, delta).data \in Frames(S) /\ Stepped(D, delta).delta \in Stored(S)
           /\ Stepped(D, delta).data.transaction \in {0, D.data.transaction}
<1>1. PICK A : A = Allow(D) OBVIOUS
<1>2. A \in Documents(S) /\ A.data.transaction = D.data.transaction BY <1>1, AllowDocument
<1>3. PICK d \in Frames(S) : d = A.data BY <1>2, DocumentFacts
<1>4. Stepped(D, delta) = Step(d, delta) BY <1>1, <1>3 DEF Stepped
<1>5. CASE IsApplicable(d, delta)
  <2>1. Step(d, delta) = Undo(d, delta) BY <1>5 DEF Step
  <2> QED BY <1>4, <2>1, UndoFacts
<1>6. CASE ~IsApplicable(d, delta)
  <2>1. PICK e : e = [d EXCEPT !.fault = "null"] OBVIOUS
  <2>2. e \in Frames(S) /\ e.transaction = d.transaction BY <2>1, NullFrame
  <2>3. Step(d, delta) = [data |-> e, delta |-> NullDelta] BY <1>6, <2>1 DEF Step
  <2> QED BY <1>2, <1>3, <1>4, <2>2, <2>3, NullStored
<1> QED BY <1>5, <1>6

LEMMA ReopenedDocument ==
    ASSUME NEW S \in SUBSET Objects, NEW D \in Documents(S), NEW opened \in BOOLEAN
    PROVE  Reopened(D, opened) \in Documents(S)
<1>1. OpenDocument(D) \in Documents(S) BY OpenDocumentDocument
<1>2. Deny(D) \in Documents(S) /\ Deny(OpenDocument(D)) \in Documents(S) BY <1>1, DenyDocument
<1>3. Reopened(D, opened) \in {Deny(D), Deny(OpenDocument(D))} BY DEF Reopened
<1> QED BY <1>2, <1>3

\* A step taken: the lists replaced.
LEMMA MovedDocument ==
    ASSUME NEW S \in SUBSET Objects, NEW D \in Documents(S), NEW d \in Frames(S),
           d.transaction \in {0, D.data.transaction},
           NEW undos \in Seq(Stored(S)), NEW redos \in Seq(Stored(S))
    PROVE  [WithData(D, d) EXCEPT !.undos = undos, !.redos = redos] \in Documents(S)
<1>1. d.transaction = 1 => D.data.transaction = 1 BY DocumentFacts
<1>2. PICK W : W = WithData(D, d) OBVIOUS
<1>3. W \in Documents(S) BY <1>1, <1>2, DataDocument
<1>4. PICK E : E = [W EXCEPT !.undos = undos, !.redos = redos] OBVIOUS
<1>5. E \in Drafts(S) /\ E.limit = W.limit /\ E.nested = W.nested /\ E.data = W.data
      /\ E.filo = W.filo
  BY <1>3, <1>4 DEF Documents, Drafts
<1>6. E \in Documents(S) BY <1>3, <1>5 DEF Documents
<1> QED BY <1>2, <1>4, <1>6

LEMMA UndoStepDocument ==
    ASSUME NEW S \in SUBSET Objects, NEW D \in Documents(S), D.undos # << >>
    PROVE  UndoStep(D) \in Documents(S)
<1>1. PICK A : A = AllAborted(D) OBVIOUS
<1>2. A \in Documents(S) /\ A.undos = D.undos BY <1>1, AllAbortedDocument DEF Same
<1>3. A.undos \in Seq(Stored(S)) /\ A.redos \in Seq(Stored(S)) BY <1>2, DocumentFacts
<1>4. Last(A.undos) \in Stored(S) /\ Front(A.undos) \in Seq(Stored(S)) BY <1>2, <1>3, FirstOf
<1>5. PICK step : step = Stepped(A, Last(A.undos)) OBVIOUS
<1>6. /\ step.data \in Frames(S) /\ step.delta \in Stored(S)
      /\ step.data.transaction \in {0, A.data.transaction}
  BY <1>2, <1>4, <1>5, SteppedFacts
<1>7. PICK redos : redos = <<step.delta>> \o A.redos OBVIOUS
<1>8. redos \in Seq(Stored(S))
  <2>1. <<step.delta>> \in Seq(Stored(S)) BY <1>6
  <2> QED BY <1>3, <1>7, <2>1, ConcatProperties
<1>9. Undid(A) = [WithData(A, step.data) EXCEPT !.undos = Front(A.undos), !.redos = redos]
  <2>1. Undid(A) = ToRedos(A, step) BY <1>5 DEF Undid
  <2>2. PICK W : W = WithData(A, step.data) OBVIOUS
  <2>3. W.undos = A.undos /\ W.redos = A.redos /\ W \in Drafts(S)
    <3>1. A \in Drafts(S) BY <1>2 DEF Documents
    <3> QED BY <1>6, <2>2, <3>1 DEF WithData, Drafts
  <2>4. ToRedos(A, step) = [W EXCEPT !.undos = Front(W.undos), !.redos = <<step.delta>> \o W.redos]
    BY <2>2, <2>3 DEF ToRedos, Drafts
  <2> QED BY <1>7, <2>1, <2>2, <2>3, <2>4
<1>10. Undid(A) \in Documents(S)
  <2>1. PICK d \in Frames(S) : d = step.data BY <1>6
  <2>2. PICK us \in Seq(Stored(S)) : us = Front(A.undos) BY <1>4
  <2>3. d.transaction \in {0, A.data.transaction} BY <1>6, <2>1
  <2>4. [WithData(A, d) EXCEPT !.undos = us, !.redos = redos] \in Documents(S)
    BY <1>2, <1>8, <2>3, MovedDocument
  <2> QED BY <1>9, <2>1, <2>2, <2>4
<1>11. Opened(D) \in BOOLEAN BY DEF Opened
<1> QED BY <1>1, <1>10, <1>11, ReopenedDocument DEF UndoStep

LEMMA RedoStepDocument ==
    ASSUME NEW S \in SUBSET Objects, NEW D \in Documents(S), D.redos # << >>
    PROVE  RedoStep(D) \in Documents(S)
<1>1. PICK A : A = AllAborted(D) OBVIOUS
<1>2. A \in Documents(S) /\ A.redos = D.redos BY <1>1, AllAbortedDocument DEF Same
<1>3. A.undos \in Seq(Stored(S)) /\ A.redos \in Seq(Stored(S)) BY <1>2, DocumentFacts
<1>4. Head(A.redos) \in Stored(S) /\ Tail(A.redos) \in Seq(Stored(S)) BY <1>2, <1>3, FirstOf
<1>5. PICK step : step = Stepped(A, Head(A.redos)) OBVIOUS
<1>6. /\ step.data \in Frames(S) /\ step.delta \in Stored(S)
      /\ step.data.transaction \in {0, A.data.transaction}
  BY <1>2, <1>4, <1>5, SteppedFacts
<1>7. PICK undos : undos = Append(A.undos, step.delta) OBVIOUS
<1>8. undos \in Seq(Stored(S)) BY <1>3, <1>6, <1>7, AppendProperties
<1>9. Redid(A) = [WithData(A, step.data) EXCEPT !.undos = undos, !.redos = Tail(A.redos)]
  <2>1. Redid(A) = ToUndos(A, step) BY <1>5 DEF Redid
  <2>2. PICK W : W = WithData(A, step.data) OBVIOUS
  <2>3. W.undos = A.undos /\ W.redos = A.redos /\ W \in Drafts(S)
    <3>1. A \in Drafts(S) BY <1>2 DEF Documents
    <3> QED BY <1>6, <2>2, <3>1 DEF WithData, Drafts
  <2>4. ToUndos(A, step) = [W EXCEPT !.undos = Append(W.undos, step.delta), !.redos = Tail(W.redos)]
    BY <2>2, <2>3 DEF ToUndos, Drafts
  <2> QED BY <1>7, <2>1, <2>2, <2>3, <2>4
<1>10. Redid(A) \in Documents(S)
  <2>1. PICK d \in Frames(S) : d = step.data BY <1>6
  <2>2. PICK rs \in Seq(Stored(S)) : rs = Tail(A.redos) BY <1>4
  <2>3. d.transaction \in {0, A.data.transaction} BY <1>6, <2>1
  <2>4. [WithData(A, d) EXCEPT !.undos = undos, !.redos = rs] \in Documents(S)
    BY <1>2, <1>8, <2>3, MovedDocument
  <2> QED BY <1>9, <2>1, <2>2, <2>4
<1>11. Opened(D) \in BOOLEAN BY DEF Opened
<1> QED BY <1>1, <1>10, <1>11, ReopenedDocument DEF RedoStep

-----------------------------------------------------------------------------
(* The calls.                                                                *)

Inv == doc \in Documents(Slotted(doc.data))

LEMMA SlottedObjects == ASSUME NEW d PROVE Slotted(d) \in SUBSET Objects
BY DEF Slotted

\* The sequences whose elements are in a smaller or a greater set.
LEMMA SeqOver ==
    ASSUME NEW X, NEW Y, NEW s \in Seq(X), \A e \in Range(s) : e \in Y
    PROVE  s \in Seq(Y)
<1>1. s \in [1 .. Len(s) -> X] /\ Len(s) \in Nat BY LenProperties
<1>2. \A i \in 1 .. Len(s) : s[i] \in Y BY <1>1 DEF Range
<1>3. s \in [1 .. Len(s) -> Y] BY <1>1, <1>2
<1> QED BY <1>1, <1>3

\* What else is stored, and the objects it refers to.
LEMMA StoredOver ==
    ASSUME NEW S, NEW T, NEW delta \in Stored(S),
           \A p \in delta.parts : p.kind = "removal" => p.obj \in T
    PROVE  delta \in Stored(T)
BY DEF Stored, Parts

LEMMA BecomeInv ==
    ASSUME NEW S \in SUBSET Objects, NEW D \in Documents(S), Become(D)
    PROVE  Inv'
<1>1. D.data \in Frames(S) BY DocumentFacts
<1>2. PICK H : H = Held(D) OBVIOUS
<1>3. PICK attr : attr = [o \in Objects |-> IF o \in H THEN D.data.attr[o] ELSE NoAttribute]
  OBVIOUS
<1>4. NoAttribute \in Attribute
  BY DEF NoAttribute, Attribute
<1>5. attr \in [Objects -> Attribute] BY <1>1, <1>3, <1>4, FrameFacts
<1>6. PICK d : d = [D.data EXCEPT !.attr = attr] OBVIOUS
<1>7. /\ d \in Framework /\ d.attr = attr /\ d.transaction = D.data.transaction
      /\ d.attMod = D.data.attMod /\ d.mayMod = D.data.mayMod
  BY <1>1, <1>5, <1>6, FrameFacts DEF Framework
<1>8. doc' = [D EXCEPT !.data = d] BY <1>2, <1>3, <1>6 DEF Become, Documents, Drafts
<1>9. ASSUME NEW o \in Objects PROVE AttributeSound(d, o)
  <2>1. CASE o \in H
    <3>1. d.attr[o] = D.data.attr[o] BY <1>3, <1>7, <2>1
    <3>2. AttributeSound(D.data, o) BY <1>1, FrameFacts
    <3> QED BY <1>7, <3>1, <3>2 DEF AttributeSound
  <2>2. CASE o \notin H
    <3>1. d.attr[o] = NoAttribute BY <1>3, <1>7, <2>2
    <3> QED BY <3>1 DEF AttributeSound, NoAttribute
  <2> QED BY <2>1, <2>2
<1>10. PICK T : T = Slotted(d) OBVIOUS
<1>11. d \in Frames(T) BY <1>1, <1>7, <1>9, <1>10, FrameFacts DEF Frames, Sound
<1>12. \A o \in S \cap H : o \in T
  <2> SUFFICES ASSUME NEW o \in S \cap H PROVE o \in T OBVIOUS
  <2>1. o \in Objects /\ d.attr[o] = D.data.attr[o] BY <1>3, <1>7
  <2>2. D.data.attr[o].slot \in Slots BY <1>1, <2>1, FrameFacts
  <2> QED BY <1>10, <2>1, <2>2 DEF Slotted
<1>13. ASSUME NEW delta \in Deltas(D), delta \in Stored(S) PROVE delta \in Stored(T)
  <2>1. ASSUME NEW p \in delta.parts, p.kind = "removal" PROVE p.obj \in T
    <3>1. p.obj \in S BY <1>13, <2>1 DEF Stored, Parts
    <3>2. p.obj \in H BY <1>2 DEF Held
    <3> QED BY <1>12, <3>1, <3>2
  <2> QED BY <1>13, <2>1, StoredOver
<1>14. D.undos \in Seq(Stored(S)) /\ D.redos \in Seq(Stored(S)) /\ D.filo \in Seq(Stored(S))
  BY DocumentFacts
<1>15. Range(D.undos) \in SUBSET Stored(S) /\ Range(D.redos) \in SUBSET Stored(S)
       /\ Range(D.filo) \in SUBSET Stored(S)
  BY <1>14, RangeOfSeq
<1>16. D.undos \in Seq(Stored(T)) /\ D.redos \in Seq(Stored(T)) /\ D.filo \in Seq(Stored(T))
  <2>1. \A e \in Range(D.undos) : e \in Stored(T) BY <1>13, <1>15 DEF Deltas
  <2>2. \A e \in Range(D.redos) : e \in Stored(T) BY <1>13, <1>15 DEF Deltas
  <2>3. \A e \in Range(D.filo) : e \in Stored(T) BY <1>13, <1>15 DEF Deltas
  <2> QED BY <1>14, <2>1, <2>2, <2>3, SeqOver
<1>17. PICK E : E = [D EXCEPT !.data = d] OBVIOUS
<1>18. E \in Drafts(T) /\ E.data = d /\ E.filo = D.filo /\ E.limit = D.limit
       /\ E.nested = D.nested
  BY <1>11, <1>16, <1>17 DEF Documents, Drafts
<1>19. E \in Documents(T) BY <1>7, <1>18 DEF Documents
<1> QED BY <1>8, <1>10, <1>17, <1>18, <1>19 DEF Inv

\* The lists and the marks replaced.
LEMMA EditedDocument ==
    ASSUME NEW S \in SUBSET Objects, NEW D \in Documents(S),
           NEW undos \in Seq(Stored(S)), NEW redos \in Seq(Stored(S)),
           NEW from \in BOOLEAN, NEW fromRedo \in BOOLEAN
    PROVE  LET E == [D EXCEPT !.undos = undos, !.redos = redos, !.from = from,
                              !.fromRedo = fromRedo]
           IN  E \in Documents(S) /\ Stays(D, E)
<1>1. PICK E : E = [D EXCEPT !.undos = undos, !.redos = redos, !.from = from,
                             !.fromRedo = fromRedo]
  OBVIOUS
<1>2. E \in Drafts(S) /\ E.data = D.data /\ E.filo = D.filo /\ E.limit = D.limit
      /\ E.nested = D.nested
  BY <1>1 DEF Documents, Drafts
<1> QED BY <1>1, <1>2 DEF Documents, Stays

LEMMA LeastOf ==
    ASSUME NEW K \in SUBSET Nat, K # {}
    PROVE  Min(K) \in K /\ \A k \in K : Min(K) =< k
<1>1. IsWellFoundedOn(OpToRel(<, Nat), Nat) BY NatLessThanWellFounded
<1>2. \E x \in K : \A y \in K : ~(<<y, x>> \in OpToRel(<, Nat)) BY <1>1, WFMin
<1>3. PICK x \in K : \A y \in K : ~(<<y, x>> \in OpToRel(<, Nat)) BY <1>2
<1>4. ASSUME NEW y \in K PROVE x =< y
  <2>1. x \in Nat /\ y \in Nat OBVIOUS
  <2>2. ~(y < x)
    <3>1. ~(<<y, x>> \in OpToRel(<, Nat)) BY <1>3
    <3> QED BY <2>1, <3>1 DEF OpToRel
  <2> QED BY <2>1, <2>2
<1>5. \E z \in K : \A y \in K : z =< y BY <1>4
<1> QED BY <1>5 DEF Min

LEMMA AddAttributeInv ==
    ASSUME Inv, NEW s \in Slots, NEW v \in Values, AddAttribute(s, v)
    PROVE  Inv'
<1> DEFINE o == Min(Objects \ Held(doc))
           S == Slotted(doc.data)
<1>1. doc \in Documents(S) /\ S \in SUBSET Objects BY SlottedObjects DEF Inv
<1>2. o \in Objects /\ o \notin Held(doc)
  <2>1. PICK K : K = Objects \ Held(doc) OBVIOUS
  <2>2. K \in SUBSET Nat /\ K # {} BY <2>1, TreeAssumption DEF AddAttribute
  <2> QED BY <2>1, <2>2, LeastOf
<1>3. PICK a : a = [NoAttribute EXCEPT !.slot = s, !.val = v] OBVIOUS
<1>4. a \in Attribute /\ a.slot = s /\ ~a.on /\ a.trans = 0 /\ a.backup = None /\ ~a.forgotten
  <2>1. PICK n : n = NoAttribute OBVIOUS
  <2>2. /\ n \in Attribute /\ ~n.on /\ n.trans = 0 /\ n.backup = None /\ ~n.forgotten
    BY <2>1 DEF NoAttribute, Attribute
  <2>3. a = [n EXCEPT !.slot = s, !.val = v] BY <1>3, <2>1
  <2>4. a \in Attribute BY <2>2, <2>3 DEF Attribute
  <2> QED BY <2>2, <2>3, <2>4 DEF Attribute
<1>5. PICK d : d = With(doc.data, o, a) OBVIOUS
<1>6. Become(WithData(doc, AddTo(d, o))) BY <1>3, <1>5 DEF AddAttribute, With
<1> HIDE DEF o, S
<1>7. doc.data \in Frames(S) BY <1>1, DocumentFacts
<1>8. PICK T : T = S \cup {o} OBVIOUS
<1>9. T \in SUBSET Objects BY <1>1, <1>2, <1>8
<1>10. /\ d \in Framework /\ d.attr[o] = a
       /\ \A p \in Objects \ {o} : d.attr[p] = doc.data.attr[p]
       /\ d.transaction = doc.data.transaction
       /\ d.attMod = doc.data.attMod /\ d.mayMod = doc.data.mayMod
  BY <1>1, <1>2, <1>4, <1>5, <1>7, FrameFacts, WithFacts
<1>11. AttributeSound(d, o) BY <1>4, <1>10 DEF AttributeSound
<1>12. Sound(d) BY <1>1, <1>2, <1>7, <1>10, <1>11, FrameFacts, OthersSound
<1>13. Slotted(d) = T
  <2>1. \A p \in Objects \ {o} : d.attr[p].slot \in Slots <=> p \in S
    BY <1>1, <1>7, <1>10, FrameFacts
  <2> QED BY <1>1, <1>2, <1>4, <1>8, <1>10, <2>1 DEF Slotted
<1>14. d \in Frames(T) BY <1>10, <1>12, <1>13 DEF Frames
<1>15. AddTo(d, o) \in Frames(T) /\ AddTo(d, o).transaction = d.transaction
  BY <1>8, <1>9, <1>14, AddToFrame
<1>16. \A delta \in Stored(S) : delta \in Stored(T) BY <1>8 DEF Stored, Parts
<1>17. doc.undos \in Seq(Stored(T)) /\ doc.redos \in Seq(Stored(T)) /\ doc.filo \in Seq(Stored(T))
  <2>1. doc.undos \in Seq(Stored(S)) /\ doc.redos \in Seq(Stored(S)) /\ doc.filo \in Seq(Stored(S))
    BY <1>1, DocumentFacts
  <2>2. Stored(S) \subseteq Stored(T) BY <1>16
  <2> QED BY <2>1, <2>2, SeqMonotonic
<1>18. PICK D : D = WithData(doc, AddTo(d, o)) OBVIOUS
<1>19. D \in Drafts(T) /\ D.data = AddTo(d, o) /\ D.filo = doc.filo /\ D.limit = doc.limit
       /\ D.nested = doc.nested
  BY <1>1, <1>15, <1>17, <1>18 DEF WithData, Documents, Drafts
<1>20. D \in Documents(T) BY <1>1, <1>10, <1>15, <1>19 DEF Documents
<1> QED BY <1>6, <1>9, <1>18, <1>20, BecomeInv

LEMMA FoundHere ==
    ASSUME Inv, NEW s \in Slots, NEW o \in Find(doc.data, s)
    PROVE  /\ Slotted(doc.data) \in SUBSET Objects /\ doc.data \in Frames(Slotted(doc.data))
           /\ o \in Slotted(doc.data) /\ doc.data.attr[o].on
<1>1. PICK S : S = Slotted(doc.data) OBVIOUS
<1>2. S \in SUBSET Objects /\ doc \in Documents(S) BY <1>1, SlottedObjects DEF Inv
<1>3. doc.data \in Frames(S) BY <1>2, DocumentFacts
<1> QED BY <1>1, <1>2, <1>3, FoundFacts

\* An edit of an attribute that leaves the attributes attached in their slots.
LEMMA FrameEditInv ==
    ASSUME Inv, NEW d \in Frames(Slotted(doc.data)), d.transaction = doc.data.transaction,
           Become(WithData(doc, d))
    PROVE  Inv'
<1>1. PICK S : S = Slotted(doc.data) OBVIOUS
<1>2. S \in SUBSET Objects /\ doc \in Documents(S) BY <1>1, SlottedObjects DEF Inv
<1>3. d.transaction = 1 => doc.data.transaction = 1 OBVIOUS
<1>4. WithData(doc, d) \in Documents(S) BY <1>1, <1>2, <1>3, DataDocument
<1> QED BY <1>2, <1>4, BecomeInv

LEMMA ChangeInv ==
    ASSUME Inv, NEW s \in Slots, NEW v \in Values, Change(s, v)
    PROVE  Inv'
<1>1. PICK o \in Find(doc.data, s) : Become(WithData(doc, Modify(doc.data, o, v)))
  BY DEF Change
<1>2. v \in Values \cup {None} OBVIOUS
<1>3. PICK S : S = Slotted(doc.data) OBVIOUS
<1>4. S \in SUBSET Objects /\ doc.data \in Frames(S) /\ o \in S /\ doc.data.attr[o].on
  BY <1>3, FoundHere
<1>5. /\ Modify(doc.data, o, v) \in Frames(S)
      /\ Modify(doc.data, o, v).transaction = doc.data.transaction
  BY <1>2, <1>4, ModifyFrame
<1> QED BY <1>1, <1>3, <1>5, FrameEditInv

LEMMA ForgetAttributeInv ==
    ASSUME Inv, NEW s \in Slots, ForgetAttribute(s)
    PROVE  Inv'
<1>1. PICK o \in Find(doc.data, s) : Become(WithData(doc, Forget(doc.data, o)))
  BY DEF ForgetAttribute
<1>2. PICK S : S = Slotted(doc.data) OBVIOUS
<1>3. S \in SUBSET Objects /\ doc.data \in Frames(S) /\ o \in S /\ doc.data.attr[o].on
  BY <1>2, FoundHere
<1>4. /\ Forget(doc.data, o) \in Frames(S)
      /\ Forget(doc.data, o).transaction = doc.data.transaction
  BY <1>3, ForgetFrame
<1> QED BY <1>1, <1>2, <1>4, FrameEditInv

LEMMA CommandsInv ==
    ASSUME Inv, \/ OpenCommand \/ CommitCommand \/ NewCommand \/ AbortCommand
                \/ UndoCommand \/ RedoCommand
    PROVE  Inv'
<1>1. PICK S : S = Slotted(doc.data) OBVIOUS
<1>2. S \in SUBSET Objects /\ doc \in Documents(S) BY <1>1, SlottedObjects DEF Inv
<1>3. CASE OpenCommand
  <2>1. OpenDocument(doc) \in Documents(S) BY <1>2, OpenDocumentDocument
  <2> QED BY <1>2, <1>3, <2>1, BecomeInv DEF OpenCommand
<1>4. CASE CommitCommand
  <2>1. CommitTransaction(doc) \in Documents(S) BY <1>2, CommitDocument
  <2> QED BY <1>2, <1>4, <2>1, BecomeInv DEF CommitCommand
<1>5. CASE NewCommand
  <2>1. CommitTransaction(doc) \in Documents(S) BY <1>2, CommitDocument
  <2>2. OpenDocument(CommitTransaction(doc)) \in Documents(S) BY <1>2, <2>1, OpenDocumentDocument
  <2> QED BY <1>2, <1>5, <2>2, BecomeInv DEF NewCommand
<1>6. CASE AbortCommand
  <2>1. AbortTransaction(doc) \in Documents(S) BY <1>2, AbortDocument
  <2> QED BY <1>2, <1>6, <2>1, BecomeInv DEF AbortCommand
<1>7. CASE UndoCommand
  <2>1. doc.undos # << >> /\ Become(UndoStep(doc)) BY <1>7 DEF UndoCommand
  <2>2. UndoStep(doc) \in Documents(S) BY <1>2, <2>1, UndoStepDocument
  <2> QED BY <1>2, <2>1, <2>2, BecomeInv
<1>8. CASE RedoCommand
  <2>1. doc.redos # << >> /\ Become(RedoStep(doc)) BY <1>8 DEF RedoCommand
  <2>2. RedoStep(doc) \in Documents(S) BY <1>2, <2>1, RedoStepDocument
  <2> QED BY <1>2, <2>1, <2>2, BecomeInv
<1> QED BY <1>3, <1>4, <1>5, <1>6, <1>7, <1>8

\* What the document stores replaced.
LEMMA EditInv ==
    ASSUME Inv, NEW undos \in Seq(Stored(Slotted(doc.data))),
           NEW redos \in Seq(Stored(Slotted(doc.data))),
           NEW from \in BOOLEAN, NEW fromRedo \in BOOLEAN,
           Become([doc EXCEPT !.undos = undos, !.redos = redos, !.from = from,
                              !.fromRedo = fromRedo])
    PROVE  Inv'
<1>1. PICK S : S = Slotted(doc.data) OBVIOUS
<1>2. S \in SUBSET Objects /\ doc \in Documents(S) BY <1>1, SlottedObjects DEF Inv
<1>3. [doc EXCEPT !.undos = undos, !.redos = redos, !.from = from,
                  !.fromRedo = fromRedo] \in Documents(S)
  BY <1>1, <1>2, EditedDocument
<1> QED BY <1>2, <1>3, BecomeInv

LEMMA ClearsInv ==
    ASSUME Inv, ClearUndos \/ ClearRedos \/ RemoveFirstUndo
    PROVE  Inv'
<1>1. PICK S : S = Slotted(doc.data) OBVIOUS
<1>2. S \in SUBSET Objects /\ doc \in Documents(S) BY <1>1, SlottedObjects DEF Inv
<1>3. /\ doc.undos \in Seq(Stored(S)) /\ doc.redos \in Seq(Stored(S)) /\ doc \in Drafts(S)
      /\ doc.from \in BOOLEAN /\ doc.fromRedo \in BOOLEAN
  BY <1>2, DocumentFacts DEF Documents
<1>4. << >> \in Seq(Stored(S)) /\ FALSE \in BOOLEAN BY EmptySeq
<1>5. \A undos \in Seq(Stored(S)), redos \in Seq(Stored(S)), from \in BOOLEAN,
         fromRedo \in BOOLEAN :
         Become([doc EXCEPT !.undos = undos, !.redos = redos, !.from = from,
                            !.fromRedo = fromRedo]) => Inv'
  BY <1>1, EditInv
<1>6. CASE ClearUndos BY <1>4, <1>5, <1>6 DEF ClearUndos
<1>7. CASE ClearRedos
  <2>1. [doc EXCEPT !.redos = << >>, !.fromRedo = FALSE]
        = [doc EXCEPT !.undos = doc.undos, !.redos = << >>, !.from = doc.from,
                      !.fromRedo = FALSE]
    BY <1>3 DEF Drafts
  <2> QED BY <1>3, <1>4, <1>5, <1>7, <2>1 DEF ClearRedos
<1>8. CASE RemoveFirstUndo
  <2>1. doc.undos # << >> /\ Tail(doc.undos) \in Seq(Stored(S))
    BY <1>3, <1>8, FirstOf DEF RemoveFirstUndo
  <2>2. [doc EXCEPT !.undos = Tail(@)]
        = [doc EXCEPT !.undos = Tail(doc.undos), !.redos = doc.redos, !.from = doc.from,
                      !.fromRedo = doc.fromRedo]
    BY <1>3 DEF Drafts
  <2> QED BY <1>3, <1>5, <1>8, <2>1, <2>2 DEF RemoveFirstUndo
<1> QED BY <1>6, <1>7, <1>8

\* Without its first elements a sequence is one of the same elements.
LEMMA Excerpt ==
    ASSUME NEW X, NEW s \in Seq(X), NEW m \in Nat, NEW n \in 0 .. Len(s)
    PROVE  SubSeq(s, m + 1, n) \in Seq(X)
<1>1. s \in [1 .. Len(s) -> X] /\ Len(s) \in Nat BY LenProperties
<1>2. m + 1 \in Nat /\ n \in Nat BY <1>1
<1>3. \A i \in m + 1 .. n : s[i] \in X BY <1>1, <1>2
<1> QED BY <1>2, <1>3, SubSeqProperties

LEMMA SetUndoLimitInv ==
    ASSUME Inv, NEW L \in Limits, SetUndoLimit(L)
    PROVE  Inv'
<1> DEFINE stopped == [doc EXCEPT !.from = FALSE, !.fromRedo = FALSE]
           D == CommitTransaction(stopped)
           E == [D EXCEPT !.limit = Clamped(L)]
<1>1. PICK S : S = Slotted(doc.data) OBVIOUS
<1>2. S \in SUBSET Objects /\ doc \in Documents(S) BY <1>1, SlottedObjects DEF Inv
<1>3. (doc.nested => L > 0) /\ Become(Deny(Limited(E))) BY DEF SetUndoLimit
<1>4. Clamped(L) \in Nat /\ (doc.nested => Clamped(L) # 0)
  BY <1>3, DocumentAssumption DEF Clamped
<1>5. stopped \in Documents(S) /\ Stays(doc, stopped)
  <2>1. doc.undos \in Seq(Stored(S)) /\ doc.redos \in Seq(Stored(S)) /\ doc \in Drafts(S)
    BY <1>2, DocumentFacts DEF Documents
  <2>2. stopped = [doc EXCEPT !.undos = doc.undos, !.redos = doc.redos, !.from = FALSE,
                              !.fromRedo = FALSE]
    BY <2>1 DEF Drafts
  <2>3. FALSE \in BOOLEAN OBVIOUS
  <2> HIDE DEF stopped
  <2> QED BY <1>2, <2>1, <2>2, <2>3, EditedDocument
<1> HIDE DEF stopped
<1>6. D \in Documents(S) /\ D.nested = doc.nested
  BY <1>2, <1>5, CommitDocument DEF Stays
<1> HIDE DEF D
<1>7. E \in Documents(S) /\ E.undos \in Seq(Stored(S)) /\ E.limit \in Nat
  BY <1>4, <1>6 DEF Documents, Drafts
<1> HIDE DEF E
<1>8. Limited(E) \in Documents(S)
  <2>1. PICK over : over = IF Len(E.undos) > E.limit THEN Len(E.undos) - E.limit ELSE 0
    OBVIOUS
  <2>2. Len(E.undos) \in Nat BY <1>7, LenProperties
  <2>3. over \in Nat /\ Len(E.undos) \in 0 .. Len(E.undos) BY <1>7, <2>1, <2>2
  <2>4. PICK us : us = SubSeq(E.undos, over + 1, Len(E.undos)) OBVIOUS
  <2>5. us \in Seq(Stored(S)) BY <1>7, <2>3, <2>4, Excerpt
  <2>6. Limited(E) = [E EXCEPT !.undos = us] BY <2>1, <2>4 DEF Limited
  <2> QED BY <1>7, <2>5, <2>6 DEF Documents, Drafts
<1>9. Deny(Limited(E)) \in Documents(S) BY <1>2, <1>8, DenyDocument
<1> QED BY <1>2, <1>3, <1>9, BecomeInv

-----------------------------------------------------------------------------
(* Compactions.                                                              *)

LEMMA MarkStored ==
    ASSUME NEW S, NEW delta \in Stored(S), NEW mark \in BOOLEAN
    PROVE  [delta EXCEPT !.mark = mark] \in Stored(S)
<1>1. delta \in Delta BY DEF Stored
<1>2. PICK e : e = [delta EXCEPT !.mark = mark] OBVIOUS
<1>3. e \in Delta /\ e.parts = delta.parts BY <1>1, <1>2 DEF Delta
<1> QED BY <1>2, <1>3 DEF Stored

LEMMA UnmarkedStored ==
    ASSUME NEW S, NEW s \in Seq(Stored(S))
    PROVE  Unmarked(s) \in Seq(Stored(S)) /\ Len(Unmarked(s)) = Len(s)
<1>1. s \in [1 .. Len(s) -> Stored(S)] /\ Len(s) \in Nat /\ DOMAIN s = 1 .. Len(s)
  BY LenProperties
<1>2. FALSE \in BOOLEAN OBVIOUS
<1>3. \A i \in DOMAIN s : [s[i] EXCEPT !.mark = FALSE] \in Stored(S)
  <2> SUFFICES ASSUME NEW i \in DOMAIN s PROVE [s[i] EXCEPT !.mark = FALSE] \in Stored(S)
    OBVIOUS
  <2>1. PICK delta \in Stored(S) : delta = s[i] BY <1>1
  <2> QED BY <1>2, <2>1, MarkStored
<1>4. PICK u : u = Unmarked(s) OBVIOUS
<1>5. u \in [1 .. Len(s) -> Stored(S)] BY <1>1, <1>3, <1>4 DEF Unmarked
<1>6. u \in Seq(Stored(S)) BY <1>1, <1>5, SeqDef
<1>7. Len(u) = Len(s)
  <2>1. Len(u) \in Nat /\ DOMAIN u = 1 .. Len(u) BY <1>6, LenProperties
  <2> QED BY <1>1, <1>5, <2>1
<1> QED BY <1>4, <1>6, <1>7

LEMMA MarkedStored ==
    ASSUME NEW S, NEW s \in Seq(Stored(S)), NEW i \in 1 .. Len(s)
    PROVE  [s EXCEPT ![i].mark = TRUE] \in Seq(Stored(S))
<1>1. PICK delta \in Stored(S) : delta = s[i] BY ElementOfSeq
<1>2. PICK e : e = [delta EXCEPT !.mark = TRUE] OBVIOUS
<1>3. e \in Stored(S)
  <2>1. TRUE \in BOOLEAN OBVIOUS
  <2> QED BY <1>2, <2>1, MarkStored
<1>4. [s EXCEPT ![i] = e] \in Seq(Stored(S)) BY <1>3, ExceptSeq
<1> QED BY <1>1, <1>2, <1>4

LEMMA InitDeltaCompactionInv ==
    ASSUME Inv, InitDeltaCompaction
    PROVE  Inv'
<1>1. PICK S : S = Slotted(doc.data) OBVIOUS
<1>2. S \in SUBSET Objects /\ doc \in Documents(S) BY <1>1, SlottedObjects DEF Inv
<1>3. PICK us : us = Unmarked(doc.undos) OBVIOUS
<1>4. PICK rs : rs = Unmarked(doc.redos) OBVIOUS
<1>5. us \in Seq(Stored(S)) /\ rs \in Seq(Stored(S))
  BY <1>2, <1>3, <1>4, DocumentFacts, UnmarkedStored
<1>6. PICK D : D = [doc EXCEPT !.undos = us, !.redos = rs, !.from = FALSE, !.fromRedo = FALSE]
  OBVIOUS
<1>7. D \in Documents(S)
  <2>1. FALSE \in BOOLEAN OBVIOUS
  <2> QED BY <1>2, <1>5, <1>6, <2>1, EditedDocument
<1>8. PICK E : E = [D EXCEPT !.undos[Len(us)].mark = TRUE, !.from = TRUE,
                       !.redos = IF rs = << >> THEN rs ELSE [rs EXCEPT ![1].mark = TRUE],
                       !.fromRedo = rs # << >>]
  OBVIOUS
<1>9. Become(IF doc.limit = 0 \/ us = << >> THEN D ELSE E)
  BY <1>3, <1>4, <1>6, <1>8 DEF InitDeltaCompaction
<1>10. ASSUME us # << >> PROVE E \in Documents(S)
  <2>1. PICK vs : vs = [us EXCEPT ![Len(us)].mark = TRUE] OBVIOUS
  <2>2. PICK qs : qs = IF rs = << >> THEN rs ELSE [rs EXCEPT ![1].mark = TRUE] OBVIOUS
  <2>3. vs \in Seq(Stored(S))
    <3>1. Len(us) \in 1 .. Len(us) BY <1>5, <1>10, EmptySeq
    <3> QED BY <1>5, <2>1, <3>1, MarkedStored
  <2>4. qs \in Seq(Stored(S))
    <3>1. CASE rs = << >> BY <1>5, <2>2, <3>1
    <3>2. CASE rs # << >>
      <4>1. 1 \in 1 .. Len(rs) BY <1>5, <3>2, EmptySeq
      <4>2. [rs EXCEPT ![1].mark = TRUE] \in Seq(Stored(S)) BY <1>5, <4>1, MarkedStored
      <4> QED BY <2>2, <3>2, <4>2
    <3> QED BY <3>1, <3>2
  <2>5. PICK fromRedo \in BOOLEAN : fromRedo = (rs # << >>) OBVIOUS
  <2>6. D.undos = us /\ D \in Drafts(S) BY <1>2, <1>6, <1>7 DEF Documents, Drafts
  <2>7. E = [D EXCEPT !.undos = vs, !.redos = qs, !.from = TRUE, !.fromRedo = fromRedo]
    BY <1>8, <2>1, <2>2, <2>5, <2>6 DEF Drafts
  <2>8. TRUE \in BOOLEAN OBVIOUS
  <2> QED BY <1>2, <1>7, <2>3, <2>4, <2>7, <2>8, EditedDocument
<1>11. CASE doc.limit = 0 \/ us = << >> BY <1>2, <1>7, <1>9, <1>11, BecomeInv
<1>12. CASE ~(doc.limit = 0 \/ us = << >>) BY <1>2, <1>9, <1>10, <1>12, BecomeInv
<1> QED BY <1>11, <1>12

LEMMA MarkedBound ==
    ASSUME NEW X, NEW s \in Seq(X)
    PROVE  Marked(s) \in 0 .. Len(s)
<1>1. Len(s) \in Nat /\ DOMAIN s = 1 .. Len(s) BY LenProperties
<1>2. PICK I : I = {i \in DOMAIN s : s[i].mark} OBVIOUS
<1>3. Marked(s) = IF I = {} THEN Len(s) ELSE Min(I) BY <1>2 DEF Marked
<1>4. CASE I = {} BY <1>1, <1>3, <1>4
<1>5. CASE I # {}
  <2>1. I \in SUBSET Nat /\ I \subseteq 1 .. Len(s) BY <1>1, <1>2
  <2>2. PICK x \in I : x = Min(I) BY <1>5, <2>1, LeastOf
  <2>3. Marked(s) = x BY <1>3, <1>5, <2>2
  <2>4. x \in 1 .. Len(s) BY <2>1
  <2> QED BY <1>1, <2>3, <2>4
<1> QED BY <1>4, <1>5

\* The parts of stored deltas.
LEMMA PartsFinite ==
    ASSUME NEW S, NEW s \in Seq(Stored(S))
    PROVE  LET U == UNION {s[i].parts : i \in DOMAIN s} IN
           IsFiniteSet(U) /\ U \subseteq Parts(S)
<1>1. s \in [1 .. Len(s) -> Stored(S)] /\ Len(s) \in Nat /\ DOMAIN s = 1 .. Len(s)
  BY LenProperties
<1>2. PICK V : V = {s[i].parts : i \in DOMAIN s} OBVIOUS
<1>3. IsFiniteSet(V)
  <2>1. PICK f : f = [i \in 1 .. Len(s) |-> s[i].parts] OBVIOUS
  <2>2. f \in [1 .. Len(s) -> V] BY <1>1, <1>2, <2>1
  <2>3. f \in Surjection(1 .. Len(s), V)
    <3>1. \A v \in V : \E i \in 1 .. Len(s) : f[i] = v BY <1>1, <1>2, <2>1
    <3> QED BY <2>2, <3>1 DEF Surjection
  <2>4. IsFiniteSet(1 .. Len(s))
    <3>1. 1 \in Int /\ Len(s) \in Int BY <1>1
    <3> QED BY <3>1, FS_Interval
  <2> QED BY <2>3, <2>4, FS_Surjection
<1>4. \A i \in DOMAIN s : IsFiniteSet(s[i].parts) /\ s[i].parts \subseteq Parts(S)
  BY <1>1 DEF Stored
<1>5. \A T \in V : IsFiniteSet(T) /\ T \subseteq Parts(S) BY <1>2, <1>4
<1>6. IsFiniteSet(UNION V) BY <1>3, <1>5, FS_UNION
<1> QED BY <1>2, <1>5, <1>6

LEMMA PerformDeltaCompactionInv ==
    ASSUME Inv, PerformDeltaCompaction
    PROVE  Inv'
<1> DEFINE m == Marked(doc.undos)
           merged == SubSeq(doc.undos, m + 1, Len(doc.undos))
           times == IF merged = << >> THEN NullDelta
                    ELSE [NullDelta EXCEPT !.begin = merged[1].begin, !.end = Last(merged).end,
                                           !.back = merged[1].back]
           rs == IF doc.fromRedo THEN SubSeq(doc.redos, 1, Marked(doc.redos)) ELSE << >>
           slots == {p.slot : p \in UNION {ds.parts : ds \in Range(merged)}}
<1>1. PICK S : S = Slotted(doc.data) OBVIOUS
<1>2. S \in SUBSET Objects /\ doc \in Documents(S) BY <1>1, SlottedObjects DEF Inv
<1>3. PICK P \in FirstParts(merged, slots) :
          Become([doc EXCEPT !.redos = rs,
                     !.undos = Append(SubSeq(doc.undos, 1, m), [times EXCEPT !.parts = P])])
  BY DEF PerformDeltaCompaction
<1>4. /\ doc.undos \in Seq(Stored(S)) /\ doc.redos \in Seq(Stored(S)) /\ doc \in Drafts(S)
      /\ doc.from \in BOOLEAN /\ doc.fromRedo \in BOOLEAN
  BY <1>2, DocumentFacts DEF Documents
<1>5. m \in 0 .. Len(doc.undos) /\ Len(doc.undos) \in Nat BY <1>4, MarkedBound, LenProperties
<1>6. Marked(doc.redos) \in 0 .. Len(doc.redos) /\ Len(doc.redos) \in Nat
  BY <1>4, MarkedBound, LenProperties
<1>7. merged \in Seq(Stored(S))
  <2>1. m \in Nat /\ Len(doc.undos) \in 0 .. Len(doc.undos) BY <1>5
  <2> QED BY <1>4, <2>1, Excerpt
<1>8. rs \in Seq(Stored(S))
  <2>1. 0 \in Nat /\ 0 + 1 = 1 OBVIOUS
  <2>2. SubSeq(doc.redos, 0 + 1, Marked(doc.redos)) \in Seq(Stored(S))
    BY <1>4, <1>6, <2>1, Excerpt
  <2>3. << >> \in Seq(Stored(S)) BY EmptySeq
  <2> QED BY <2>1, <2>2, <2>3
<1>9. SubSeq(doc.undos, 1, m) \in Seq(Stored(S))
  <2>1. 0 \in Nat /\ 0 + 1 = 1 OBVIOUS
  <2>2. SubSeq(doc.undos, 0 + 1, m) \in Seq(Stored(S)) BY <1>4, <1>5, <2>1, Excerpt
  <2> QED BY <2>1, <2>2
<1> HIDE DEF m, merged, rs, slots
<1>10. P \subseteq Parts(S) /\ IsFiniteSet(P)
  <2>1. PICK U : U = UNION {merged[i].parts : i \in DOMAIN merged} OBVIOUS
  <2>2. IsFiniteSet(U) /\ U \subseteq Parts(S) BY <1>7, <2>1, PartsFinite
  <2>3. P \subseteq U BY <1>3, <2>1 DEF FirstParts
  <2> QED BY <2>2, <2>3, FS_Subset
<1>11. times \in Delta
  <2>1. NullDelta \in Delta BY NullStored DEF Stored
  <2>2. CASE merged = << >> BY <2>1, <2>2
  <2>3. CASE merged # << >>
    <3>1. merged[1] \in Stored(S) /\ Last(merged) \in Stored(S) BY <1>7, <2>3, FirstOf
    <3>2. merged[1].begin \in Nat /\ Last(merged).end \in Nat /\ merged[1].back \in Contents
      BY <3>1 DEF Stored, Delta
    <3>3. \A e \in Delta, begin \in Nat, end \in Nat, back \in Contents :
            [e EXCEPT !.begin = begin, !.end = end, !.back = back] \in Delta
      BY DEF Delta
    <3>4. PICK begin \in Nat : begin = merged[1].begin BY <3>2
    <3>5. PICK end \in Nat : end = Last(merged).end BY <3>2
    <3>6. PICK back \in Contents : back = merged[1].back BY <3>2
    <3>7. times = [NullDelta EXCEPT !.begin = begin, !.end = end, !.back = back]
      BY <2>3, <3>4, <3>5, <3>6
    <3>8. [NullDelta EXCEPT !.begin = begin, !.end = end, !.back = back] \in Delta
      BY <2>1, <3>3
    <3> QED BY <3>7, <3>8
  <2> QED BY <2>2, <2>3
<1> HIDE DEF times
<1>12. PICK delta : delta = [times EXCEPT !.parts = P] OBVIOUS
<1>13. delta \in Stored(S)
  <2>1. P \in SUBSET AttributeDelta BY <1>10 DEF Parts
  <2>2. delta \in Delta /\ delta.parts = P BY <1>11, <1>12, <2>1 DEF Delta
  <2> QED BY <1>10, <2>2 DEF Stored
<1>14. PICK us : us = Append(SubSeq(doc.undos, 1, m), delta) OBVIOUS
<1>15. us \in Seq(Stored(S)) BY <1>9, <1>13, <1>14, AppendProperties
<1>16. Become([doc EXCEPT !.redos = rs, !.undos = us]) BY <1>3, <1>12, <1>14
<1>17. [doc EXCEPT !.redos = rs, !.undos = us]
       = [doc EXCEPT !.undos = us, !.redos = rs, !.from = doc.from, !.fromRedo = doc.fromRedo]
  BY <1>4 DEF Drafts
<1>18. [doc EXCEPT !.undos = us, !.redos = rs, !.from = doc.from, !.fromRedo = doc.fromRedo]
       \in Documents(S)
  BY <1>2, <1>4, <1>8, <1>15, EditedDocument
<1> QED BY <1>2, <1>16, <1>17, <1>18, BecomeInv

-----------------------------------------------------------------------------
(* The specification.                                                        *)

LEMMA InitInv == ASSUME Init PROVE Inv
<1>1. PICK nested \in Modes, only \in Denials, limit \in Limits :
        /\ nested => limit > 0
        /\ doc = [data |-> [NewData EXCEPT !.allow = ~only], undos |-> << >>,
                  redos |-> << >>, filo |-> << >>, limit |-> Clamped(limit),
                  nested |-> nested, only |-> only, from |-> FALSE, fromRedo |-> FALSE]
  BY DEF Init
<1>2. PICK d : d = [NewData EXCEPT !.allow = ~only] OBVIOUS
<1>3. nested \in BOOLEAN /\ only \in BOOLEAN /\ Clamped(limit) \in Nat
      /\ (nested => Clamped(limit) # 0)
  BY <1>1, DocumentAssumption DEF Clamped
<1>4. NewData \in Framework
  <2>1. NoAttribute \in Attribute BY DEF NoAttribute, Attribute
  <2>2. [o \in Objects |-> NoAttribute] \in [Objects -> Attribute] BY <2>1
  <2>3. [l \in Labels |-> FALSE] \in [Labels -> BOOLEAN] OBVIOUS
  <2> QED BY <2>2, <2>3, NothingContents DEF NewData, Framework
<1>5. /\ d \in Framework /\ d.attr = [o \in Objects |-> NoAttribute]
      /\ d.mayMod = [l \in Labels |-> FALSE] /\ d.transaction = 0
  <2>1. /\ NewData.attr = [o \in Objects |-> NoAttribute]
        /\ NewData.mayMod = [l \in Labels |-> FALSE] /\ NewData.transaction = 0
    BY DEF NewData
  <2>2. PICK n \in Framework : n = NewData BY <1>4
  <2>3. PICK allow \in BOOLEAN : allow = ~only BY <1>3
  <2>4. d = [n EXCEPT !.allow = allow] BY <1>2, <2>2, <2>3
  <2>5. d \in Framework /\ d.attr = n.attr /\ d.mayMod = n.mayMod
        /\ d.transaction = n.transaction
    BY <2>4 DEF Framework
  <2> QED BY <2>1, <2>2, <2>5
<1>6. \A o \in Objects : AttributeSound(d, o) BY <1>5 DEF AttributeSound, NoAttribute
<1>7. Chain(d.mayMod) BY <1>5 DEF Chain
<1>8. PICK S : S = Slotted(d) OBVIOUS
<1>9. d \in Frames(S) BY <1>5, <1>6, <1>7, <1>8 DEF Frames, Sound
<1>10. << >> \in Seq(Stored(S)) BY EmptySeq
<1>11. doc \in Drafts(S) BY <1>1, <1>2, <1>3, <1>9, <1>10 DEF Drafts
<1>12. doc.data = d /\ doc.nested = nested /\ doc.limit = Clamped(limit) BY <1>1, <1>2
<1>13. doc \in Documents(S) BY <1>3, <1>5, <1>11, <1>12 DEF Documents
<1> QED BY <1>8, <1>12, <1>13 DEF Inv

LEMMA NextInv == Inv /\ [Next]_doc => Inv'
<1> SUFFICES ASSUME Inv, [Next]_doc PROVE Inv' OBVIOUS
<1>1. CASE \E s \in Slots, v \in Values : AddAttribute(s, v) \/ Change(s, v)
  BY <1>1, AddAttributeInv, ChangeInv
<1>2. CASE \E s \in Slots : ForgetAttribute(s) BY <1>2, ForgetAttributeInv
<1>3. CASE \/ OpenCommand \/ CommitCommand \/ NewCommand \/ AbortCommand
           \/ UndoCommand \/ RedoCommand
  BY <1>3, CommandsInv
<1>4. CASE \E L \in Limits : SetUndoLimit(L) BY <1>4, SetUndoLimitInv
<1>5. CASE ClearUndos \/ ClearRedos \/ RemoveFirstUndo BY <1>5, ClearsInv
<1>6. CASE InitDeltaCompaction BY <1>6, InitDeltaCompactionInv
<1>7. CASE PerformDeltaCompaction BY <1>7, PerformDeltaCompactionInv
<1>8. CASE UNCHANGED doc BY <1>8 DEF Inv
<1> QED BY <1>1, <1>2, <1>3, <1>4, <1>5, <1>6, <1>7, <1>8 DEF Next

LEMMA InvTypeOK == Inv => TypeOK
<1> SUFFICES ASSUME Inv PROVE TypeOK OBVIOUS
<1>1. PICK S : S = Slotted(doc.data) OBVIOUS
<1>2. S \in SUBSET Objects /\ doc \in Documents(S) BY <1>1, SlottedObjects DEF Inv
<1>3. doc.data \in Framework BY <1>2, DocumentFacts, FrameFacts
<1>4. Range(doc.undos) \in SUBSET Stored(S) /\ Range(doc.redos) \in SUBSET Stored(S)
      /\ Range(doc.filo) \in SUBSET Stored(S)
  BY <1>2, DocumentFacts, RangeOfSeq
<1>5. \A delta \in Deltas(doc) : delta \in Delta BY <1>4 DEF Deltas, Stored
<1>6. doc.limit \in Nat /\ {doc.nested, doc.only, doc.from, doc.fromRedo} \subseteq BOOLEAN
  BY <1>2, DocumentFacts
<1> QED BY <1>3, <1>5, <1>6 DEF TypeOK

LEMMA InvNothingLeft == Inv => NothingLeftOpen
<1> SUFFICES ASSUME Inv PROVE NothingLeftOpen OBVIOUS
<1>1. PICK S : S = Slotted(doc.data) OBVIOUS
<1>2. S \in SUBSET Objects /\ doc \in Documents(S) BY <1>1, SlottedObjects DEF Inv
<1>3. doc.data \in Frames(S) BY <1>2, DocumentFacts
<1>4. ASSUME ~Opened(doc), NEW o \in Objects
      PROVE  /\ doc.data.attr[o].trans = 0 /\ doc.data.attr[o].backup = None
             /\ ~doc.data.attr[o].forgotten
  <2>1. doc.data.transaction # 1 BY <1>4 DEF Opened
  <2>2. AttributeSound(doc.data, o) /\ doc.data.attr[o] \in Attribute
    BY <1>2, <1>3, FrameFacts
  <2>3. doc.data.attr[o].trans \in 0 .. 1 BY <2>2 DEF Attribute
  <2> QED BY <2>1, <2>2, <2>3 DEF AttributeSound
<1> QED BY <1>4, InvTypeOK DEF NothingLeftOpen

\* Whatever the application opens, edits, commits, aborts, undoes, redoes,
\* clears and compacts, in either mode, the document is well formed, and when
\* no command is open no attribute is left touched, with a backup or forgotten:
\* the labels a commit skips hold none (TDocStd_Document, TDF_Data::FixOrder,
\* TDF_Transaction::CommitTransaction, TDF_LabelNode).
THEOREM NothingLeft == Spec => []NothingLeftOpen
<1>1. Spec => []Inv BY InitInv, NextInv, PTL DEF Spec
<1> QED BY <1>1, InvNothingLeft, PTL

-----------------------------------------------------------------------------
\* A new attribute of the open transaction, and the value an attribute had
\* when the transaction opened.
New(a) == a.trans = 1 /\ a.backup = None /\ ~a.forgotten
Former(a) == IF a.backup = None THEN a.val ELSE a.backup

\* What the document held when the transaction opened.
Prior(d, s) == {o \in Objects : d.attr[o].on /\ d.attr[o].slot = s /\ ~New(d.attr[o])}
Start(d) == [s \in Slots |-> IF Prior(d, s) = {} THEN None
                             ELSE Former(d.attr[CHOOSE o \in Prior(d, s) : TRUE])]

\* Of two attributes of one slot the transaction has forgotten one and added
\* the other.
Distinct(d) ==
    \A o, p \in Objects :
        o # p /\ d.attr[o].on /\ d.attr[p].on /\ d.attr[o].slot = d.attr[p].slot =>
            \/ d.attr[o].forgotten /\ New(d.attr[p])
            \/ d.attr[p].forgotten /\ New(d.attr[o])

Valued(d) == \A o \in Objects : d.attr[o].slot \in Slots => d.attr[o].val \in Values

Fine(S) == {d \in Frames(S) : Distinct(d) /\ Valued(d) /\ d.fault = "none"}

LEMMA FineFacts ==
    ASSUME NEW S \in SUBSET Objects, NEW d \in Fine(S)
    PROVE  d \in Frames(S) /\ Distinct(d) /\ Valued(d) /\ d.fault = "none"
BY DEF Fine

\* What is seen in a slot is the value of any attribute found there.
LEMMA Seen ==
    ASSUME NEW S \in SUBSET Objects, NEW d \in Fine(S), NEW s \in Slots
    PROVE  /\ Find(d, s) = {} => Visible(d)[s] = None
           /\ \A o \in Find(d, s) : /\ Find(d, s) = {o}
                                    /\ Visible(d)[s] = d.attr[o].val
                                    /\ Visible(d)[s] \in Values
           /\ Visible(d)[s] # None => Find(d, s) # {}
<1>1. Find(d, s) = {} => Visible(d)[s] = None BY DEF Visible
<1>2. ASSUME NEW o \in Find(d, s)
      PROVE  Find(d, s) = {o} /\ Visible(d)[s] = d.attr[o].val /\ Visible(d)[s] \in Values
  <2>1. \A p \in Find(d, s) : p = o BY FineFacts DEF Find, Distinct
  <2>2. Find(d, s) = {o} BY <2>1
  <2>3. (CHOOSE p \in Find(d, s) : TRUE) = o BY <2>2
  <2>4. Visible(d)[s] = d.attr[o].val BY <2>2, <2>3 DEF Visible
  <2>5. d.attr[o].val \in Values BY FineFacts DEF Valued, Find
  <2> QED BY <2>2, <2>4, <2>5
<1> QED BY <1>1, <1>2

LEMMA Held0 ==
    ASSUME NEW S \in SUBSET Objects, NEW d \in Fine(S), NEW s \in Slots
    PROVE  /\ Prior(d, s) = {} => Start(d)[s] = None
           /\ \A o \in Prior(d, s) : /\ Prior(d, s) = {o}
                                     /\ Start(d)[s] = Former(d.attr[o])
                                     /\ Start(d)[s] \in Values
<1>1. Prior(d, s) = {} => Start(d)[s] = None BY DEF Start
<1>2. ASSUME NEW o \in Prior(d, s)
      PROVE  Prior(d, s) = {o} /\ Start(d)[s] = Former(d.attr[o]) /\ Start(d)[s] \in Values
  <2>1. \A p \in Prior(d, s) : p = o BY FineFacts DEF Prior, Distinct
  <2>2. Prior(d, s) = {o} BY <2>1
  <2>3. (CHOOSE p \in Prior(d, s) : TRUE) = o BY <2>2
  <2>4. Start(d)[s] = Former(d.attr[o]) BY <2>2, <2>3 DEF Start
  <2>5. d.attr[o].val \in Values BY FineFacts DEF Valued, Prior
  <2>6. d.attr[o] \in Attribute BY FineFacts, FrameFacts DEF Prior
  <2>7. Former(d.attr[o]) \in Values BY <2>5, <2>6 DEF Former, Attribute
  <2> QED BY <2>2, <2>4, <2>7
<1> QED BY <1>1, <1>2

\* What an edit of one attribute leaves alone.
Aside(d, e) == /\ e.transaction = d.transaction /\ e.begin = d.begin /\ e.time = d.time
               /\ e.allow = d.allow /\ e.was = d.was /\ e.fault = d.fault

Alters(d, e, o) == /\ Aside(d, e)
                   /\ \A p \in Objects \ {o} : e.attr[p] = d.attr[p]
                   /\ e.attr[o].slot = d.attr[o].slot

LEMMA TouchAside ==
    ASSUME NEW d \in Framework, NEW s
    PROVE  LET e == Touch(d, s) IN e.attr = d.attr /\ Aside(d, e)
BY DEF Touch, Aside, Framework

LEMMA OtherSlots ==
    ASSUME NEW d, NEW e, NEW o \in Objects, Alters(d, e, o),
           NEW s, d.attr[o].slot # s
    PROVE  Find(e, s) = Find(d, s) /\ Prior(e, s) = Prior(d, s)
           /\ (s \in Slots => Visible(e)[s] = Visible(d)[s] /\ Start(e)[s] = Start(d)[s])
<1>1. Find(e, s) = Find(d, s) BY DEF Alters, Find
<1>2. \A p \in Find(d, s) : e.attr[p] = d.attr[p] BY DEF Alters, Find
<1>3. Prior(e, s) = Prior(d, s) BY DEF Alters, Prior
<1>4. \A p \in Prior(d, s) : e.attr[p] = d.attr[p] BY DEF Alters, Prior
<1>5. ASSUME s \in Slots PROVE Visible(e)[s] = Visible(d)[s]
  <2>1. CASE Find(d, s) = {} BY <1>1, <1>5, <2>1 DEF Visible
  <2>2. CASE Find(d, s) # {}
    <3>1. PICK c : c = CHOOSE p \in Find(d, s) : TRUE OBVIOUS
    <3>2. c \in Find(d, s) BY <2>2, <3>1
    <3>3. Visible(d)[s] = d.attr[c].val BY <1>5, <2>2, <3>1 DEF Visible
    <3>4. Visible(e)[s] = e.attr[c].val BY <1>1, <1>5, <2>2, <3>1 DEF Visible
    <3> QED BY <1>2, <3>2, <3>3, <3>4
  <2> QED BY <2>1, <2>2
<1>6. ASSUME s \in Slots PROVE Start(e)[s] = Start(d)[s]
  <2>1. CASE Prior(d, s) = {} BY <1>3, <1>6, <2>1 DEF Start
  <2>2. CASE Prior(d, s) # {}
    <3>1. PICK c : c = CHOOSE p \in Prior(d, s) : TRUE OBVIOUS
    <3>2. c \in Prior(d, s) BY <2>2, <3>1
    <3>3. Start(d)[s] = Former(d.attr[c]) BY <1>6, <2>2, <3>1 DEF Start
    <3>4. Start(e)[s] = Former(e.attr[c]) BY <1>3, <1>6, <2>2, <3>1 DEF Start
    <3> QED BY <1>4, <3>2, <3>3, <3>4
  <2> QED BY <2>1, <2>2
<1> QED BY <1>1, <1>3, <1>5, <1>6

LEMMA SameStart ==
    ASSUME NEW d, NEW e,
           \A o \in Objects :
              /\ e.attr[o].slot = d.attr[o].slot
              /\ (e.attr[o].on /\ ~New(e.attr[o])) <=> (d.attr[o].on /\ ~New(d.attr[o]))
              /\ d.attr[o].on /\ ~New(d.attr[o]) => Former(e.attr[o]) = Former(d.attr[o])
    PROVE  Start(e) = Start(d)
<1>1. ASSUME NEW s \in Slots
      PROVE  (IF Prior(e, s) = {} THEN None ELSE Former(e.attr[CHOOSE o \in Prior(e, s) : TRUE]))
           = (IF Prior(d, s) = {} THEN None ELSE Former(d.attr[CHOOSE o \in Prior(d, s) : TRUE]))
  <2>1. Prior(e, s) = Prior(d, s) BY DEF Prior
  <2>2. \A p \in Prior(d, s) : Former(e.attr[p]) = Former(d.attr[p]) BY DEF Prior
  <2>3. PICK c : c = CHOOSE p \in Prior(d, s) : TRUE OBVIOUS
  <2>4. Prior(d, s) # {} => c \in Prior(d, s) BY <2>3
  <2> QED BY <2>1, <2>2, <2>3, <2>4
<1> QED BY <1>1, Zenon DEF Start

\* The framework with one attribute replaced, and its label flagged.
LEMMA TouchedAlters ==
    ASSUME NEW d \in Framework, NEW o \in Objects, NEW a \in Attribute,
           a.slot = d.attr[o].slot, NEW s
    PROVE  /\ LET e == Touch(With(d, o, a), s) IN Alters(d, e, o) /\ e.attr[o] = a
           /\ LET e == With(d, o, a) IN Alters(d, e, o) /\ e.attr[o] = a
<1>1. PICK w : w = With(d, o, a) OBVIOUS
<1>2. /\ w \in Framework /\ w.attr[o] = a /\ \A p \in Objects \ {o} : w.attr[p] = d.attr[p]
      /\ Aside(d, w)
  BY <1>1, WithFacts DEF Aside
<1>3. PICK e : e = Touch(w, s) OBVIOUS
<1>4. e.attr = w.attr /\ Aside(w, e) BY <1>2, <1>3, TouchAside
<1> QED BY <1>1, <1>2, <1>3, <1>4 DEF Alters, Aside

\* One attribute altered, the framework stays fine.
LEMMA AlteredFine ==
    ASSUME NEW S \in SUBSET Objects, NEW d \in Fine(S), NEW e \in Frames(S),
           NEW o \in Objects, Alters(d, e, o), e.attr[o].val \in Values,
           \A p \in Objects \ {o} :
              e.attr[o].on /\ d.attr[p].on /\ d.attr[o].slot = d.attr[p].slot =>
                 \/ e.attr[o].forgotten /\ New(d.attr[p])
                 \/ d.attr[p].forgotten /\ New(e.attr[o])
    PROVE  e \in Fine(S)
<1>1. Distinct(d) /\ Valued(d) /\ d.fault = "none" BY FineFacts
<1>2. e.fault = "none" BY <1>1 DEF Alters, Aside
<1>3. \A p \in Objects \ {o} : e.attr[p] = d.attr[p] BY DEF Alters
<1>4. Valued(e) BY <1>1, <1>3 DEF Valued
<1>5. e.attr[o].slot = d.attr[o].slot BY DEF Alters
<1>6. Distinct(e)
  <2> SUFFICES ASSUME NEW p \in Objects, NEW q \in Objects, p # q, e.attr[p].on, e.attr[q].on,
                      e.attr[p].slot = e.attr[q].slot
               PROVE  \/ e.attr[p].forgotten /\ New(e.attr[q])
                      \/ e.attr[q].forgotten /\ New(e.attr[p])
    BY DEF Distinct
  <2>1. CASE p = o BY <1>3, <1>5, <2>1
  <2>2. CASE q = o BY <1>3, <1>5, <2>2
  <2>3. CASE p # o /\ q # o BY <1>1, <1>3, <2>3 DEF Distinct
  <2> QED BY <2>1, <2>2, <2>3
<1> QED BY <1>2, <1>4, <1>6 DEF Fine

LEMMA AddToEffect ==
    ASSUME NEW S \in SUBSET Objects, NEW d \in Fine(S), NEW o \in S, ~d.attr[o].on, d.allow,
           Find(d, d.attr[o].slot) = {}
    PROVE  LET e == AddTo(d, o) IN
           /\ e \in Fine(S) /\ Alters(d, e, o)
           /\ e.attr[o].on /\ ~e.attr[o].forgotten /\ e.attr[o].val = d.attr[o].val
           /\ Visible(e)[d.attr[o].slot] = d.attr[o].val
           /\ d.transaction = 1 => Start(e) = Start(d) /\ New(e.attr[o])
<1>1. /\ d \in Framework /\ o \in Objects /\ d.attr[o] \in Attribute /\ d.attr[o].slot \in Slots
      /\ d.transaction \in 0 .. 1 /\ AttributeSound(d, o)
  BY FineFacts, FrameFacts
<1>2. PICK a : a = [d.attr[o] EXCEPT !.on = TRUE, !.forgotten = FALSE, !.trans = d.transaction]
  OBVIOUS
<1>3. /\ a \in Attribute /\ a.slot = d.attr[o].slot /\ a.on /\ ~a.forgotten
      /\ a.trans = d.transaction /\ a.backup = d.attr[o].backup /\ a.val = d.attr[o].val
  BY <1>1, <1>2 DEF Attribute
<1>4. a.backup = None
  <2>1. d.attr[o].trans = 0 BY <1>1 DEF AttributeSound, Attribute
  <2> QED BY <1>1, <1>3, <2>1 DEF AttributeSound
<1>5. PICK e : e = AddTo(d, o) OBVIOUS
<1>6. e \in Frames(S) BY <1>5, FineFacts, AddToFrame
<1>7. Alters(d, e, o) /\ e.attr[o] = a
  <2>1. CASE d.transaction = 1
    <3>1. e = Touch(With(d, o, a), a.slot) BY <1>2, <1>3, <1>5, <2>1 DEF AddTo, With
    <3> QED BY <1>1, <1>3, <3>1, TouchedAlters
  <2>2. CASE d.transaction = 0
    <3>1. PICK w : w = With(d, o, a) OBVIOUS
    <3>2. e = [w EXCEPT !.attMod[a.slot[1]] = FALSE]
      BY <1>2, <1>3, <1>5, <2>2, <3>1 DEF AddTo, With
    <3>3. w \in Framework BY <1>1, <1>3, <3>1, WithFacts
    <3>4. e.attr = w.attr /\ Aside(w, e) BY <3>2, <3>3 DEF Framework, Aside
    <3>5. Alters(d, w, o) /\ w.attr[o] = a BY <1>1, <1>3, <3>1, TouchedAlters
    <3> QED BY <3>4, <3>5 DEF Alters, Aside
  <2> QED BY <1>1, <2>1, <2>2
<1>8. ASSUME NEW p \in Objects \ {o}, d.attr[p].on, d.attr[o].slot = d.attr[p].slot
      PROVE  d.attr[p].forgotten /\ New(a) /\ d.transaction = 1
  <2>1. d.attr[p].forgotten BY <1>8 DEF Find
  <2>2. d.attr[p] \in Attribute /\ AttributeSound(d, p) BY FineFacts, FrameFacts
  <2>3. d.attr[p].trans # 0 BY <2>1, <2>2 DEF AttributeSound
  <2>4. d.attr[p].trans = 1 BY <2>2, <2>3 DEF Attribute
  <2>5. d.transaction = 1 BY <2>2, <2>4 DEF AttributeSound
  <2> QED BY <1>3, <1>4, <2>1, <2>5 DEF New
<1>9. a.val \in Values BY <1>1, <1>3, FineFacts DEF Valued
<1>10. e \in Fine(S) BY <1>1, <1>6, <1>7, <1>8, <1>9, AlteredFine
<1>11. Visible(e)[d.attr[o].slot] = a.val
  <2>1. o \in Find(e, d.attr[o].slot) BY <1>1, <1>3, <1>7 DEF Find
  <2> QED BY <1>1, <1>7, <1>10, <2>1, Seen
<1>12. ASSUME d.transaction = 1 PROVE Start(e) = Start(d)
  <2>1. New(a) BY <1>3, <1>4, <1>12 DEF New
  <2>2. \A p \in Objects : \/ p = o /\ New(e.attr[p]) /\ ~d.attr[p].on /\ e.attr[p].slot = d.attr[p].slot
                           \/ e.attr[p] = d.attr[p]
    BY <1>1, <1>3, <1>7, <2>1 DEF Alters
  <2> QED BY <2>2, SameStart
<1>13. d.transaction = 1 => New(a) BY <1>3, <1>4 DEF New
<1> QED BY <1>3, <1>5, <1>7, <1>10, <1>11, <1>12, <1>13

LEMMA ForgetEffect ==
    ASSUME NEW S \in SUBSET Objects, NEW d \in Fine(S), NEW s \in Slots, NEW o \in Find(d, s),
           d.allow
    PROVE  LET e == Forget(d, o) IN
           /\ e \in Fine(S) /\ Alters(d, e, o) /\ Visible(e)[s] = None
           /\ d.transaction = 1 => Start(e) = Start(d)
           /\ d.transaction = 1 => e.attr[o].val = d.attr[o].val
                                   /\ (New(d.attr[o]) => ~e.attr[o].on)
                                   /\ (~New(d.attr[o]) => e.attr[o].forgotten)
           /\ e.attr[o].on => e.attr[o].forgotten
<1>1. /\ d \in Framework /\ o \in Objects /\ o \in S /\ d.attr[o] \in Attribute
      /\ d.attr[o].slot = s /\ d.attr[o].on /\ ~d.attr[o].forgotten
      /\ d.transaction \in 0 .. 1 /\ AttributeSound(d, o) /\ d.attr[o].trans \in 0 .. 1
      /\ d.attr[o].forgotten \in BOOLEAN
  BY FineFacts, FrameFacts DEF Find, Attribute
<1>2. d.attr[o].val \in Values BY <1>1, FineFacts DEF Valued
<1>3. PICK e : e = Forget(d, o) OBVIOUS
<1>4. e \in Frames(S) BY <1>1, <1>3, FineFacts, ForgetFrame
<1>5. CASE d.transaction = 0 \/ New(d.attr[o])
  <2>1. PICK a : a = Detach(d.attr[o]) OBVIOUS
  <2>2. a \in Attribute /\ a.slot = s /\ ~a.on /\ a.val = d.attr[o].val
    BY <1>1, <2>1, DetachFacts
  <2>3. e = With(d, o, a)
    <3>1. d.transaction = 0 \/ (d.attr[o].trans = d.transaction /\ d.attr[o].backup = None)
      BY <1>1, <1>5 DEF New
    <3> QED BY <1>3, <2>1, <3>1 DEF Forget, With
  <2>4. Alters(d, e, o) /\ e.attr[o] = a BY <1>1, <2>2, <2>3, TouchedAlters
  <2>5. e \in Fine(S) BY <1>1, <1>2, <1>4, <2>2, <2>4, AlteredFine
  <2>6. Find(e, s) = {}
    <3>1. Find(d, s) = {o} BY Seen
    <3> QED BY <2>2, <2>4, <3>1 DEF Find, Alters
  <2>7. Visible(e)[s] = None BY <2>5, <2>6, Seen
  <2>8. ASSUME d.transaction = 1 PROVE Start(e) = Start(d)
    <3>1. New(d.attr[o]) BY <1>5, <2>8
    <3>2. \A p \in Objects : \/ p = o /\ New(d.attr[p]) /\ ~e.attr[p].on /\ e.attr[p].slot = d.attr[p].slot
                             \/ e.attr[p] = d.attr[p]
      BY <1>1, <2>2, <2>4, <3>1 DEF Alters
    <3> QED BY <3>2, SameStart
  <2> QED BY <1>3, <1>5, <2>2, <2>4, <2>5, <2>7, <2>8
<1>6. CASE d.transaction = 1 /\ ~New(d.attr[o])
  <2>1. PICK b : b = d.attr[o] OBVIOUS
  <2>2. PICK a : a = [b EXCEPT !.forgotten = TRUE, !.trans = 1] OBVIOUS
  <2>3. a \in Attribute /\ a.slot = s /\ a.on BY <1>1, <2>1, <2>2, ForgottenFacts
  <2>4. a.forgotten /\ a.val = b.val /\ a.backup = b.backup
    BY <1>1, <2>1, <2>2 DEF Attribute
  <2>5. e = Touch(With(d, o, a), s)
    <3>1. ~(d.transaction = 0 \/ (d.attr[o].trans = d.transaction /\ d.attr[o].backup = None))
      BY <1>1, <1>6 DEF New
    <3> QED BY <1>1, <1>3, <1>6, <2>1, <2>2, <3>1 DEF Forget, With
  <2>6. Alters(d, e, o) /\ e.attr[o] = a BY <1>1, <2>3, <2>5, TouchedAlters
  <2>7. ~New(a) BY <2>4 DEF New
  <2>8. ASSUME NEW p \in Objects \ {o}, d.attr[p].on, d.attr[o].slot = d.attr[p].slot PROVE FALSE
    BY <1>1, <1>6, <2>8, FineFacts DEF Distinct
  <2>9. e \in Fine(S) BY <1>1, <1>2, <1>4, <2>1, <2>4, <2>6, <2>8, AlteredFine
  <2>10. Find(e, s) = {}
    <3>1. Find(d, s) = {o} BY Seen
    <3> QED BY <2>4, <2>6, <3>1 DEF Find, Alters
  <2>11. Visible(e)[s] = None BY <2>9, <2>10, Seen
  <2>12. \A p \in Objects : \/ /\ p = o /\ ~New(d.attr[p]) /\ ~New(e.attr[p]) /\ d.attr[p].on /\ e.attr[p].on
                               /\ e.attr[p].slot = d.attr[p].slot /\ Former(e.attr[p]) = Former(d.attr[p])
                            \/ e.attr[p] = d.attr[p]
    BY <1>1, <1>6, <2>1, <2>3, <2>4, <2>6, <2>7 DEF Alters, Former
  <2>13. Start(e) = Start(d) BY <2>12, SameStart
  <2> QED BY <1>3, <1>6, <2>1, <2>4, <2>6, <2>9, <2>11, <2>13
<1> QED BY <1>1, <1>5, <1>6

LEMMA ModifyEffect ==
    ASSUME NEW S \in SUBSET Objects, NEW d \in Fine(S), NEW s \in Slots, NEW o \in Find(d, s),
           d.allow, NEW v \in Values
    PROVE  LET e == Modify(d, o, v) IN
           /\ e \in Fine(S) /\ Alters(d, e, o) /\ Visible(e)[s] = v
           /\ d.transaction = 1 => Start(e) = Start(d)
           /\ e.attr[o].on /\ ~e.attr[o].forgotten
           /\ d.transaction = 1 => (New(e.attr[o]) <=> New(d.attr[o]))
<1>1. /\ d \in Framework /\ o \in Objects /\ o \in S /\ d.attr[o] \in Attribute
      /\ d.attr[o].slot = s /\ d.attr[o].on /\ ~d.attr[o].forgotten
      /\ d.transaction \in 0 .. 1 /\ AttributeSound(d, o) /\ d.attr[o].trans \in 0 .. 1
      /\ d.attr[o].forgotten \in BOOLEAN
  BY FineFacts, FrameFacts DEF Find, Attribute
<1>2. d.attr[o].val \in Values /\ None \notin Values BY <1>1, FineFacts, TreeAssumption DEF Valued
<1>3. PICK b \in Attribute : b = d.attr[o] BY <1>1
<1>4. PICK a : a = IF b.trans < d.transaction
                   THEN [b EXCEPT !.backup = b.val, !.trans = d.transaction, !.val = v]
                   ELSE [b EXCEPT !.val = v]
  OBVIOUS
<1>5. /\ a \in Attribute /\ a.slot = s /\ a.on /\ ~a.forgotten /\ a.val = v
      /\ a.trans = IF b.trans < d.transaction THEN d.transaction ELSE b.trans
      /\ a.backup = IF b.trans < d.transaction THEN b.val ELSE b.backup
  <2>1. CASE b.trans < d.transaction BY <1>1, <1>3, <1>4, <2>1 DEF Attribute
  <2>2. CASE ~(b.trans < d.transaction) BY <1>1, <1>3, <1>4, <2>2 DEF Attribute
  <2> QED BY <2>1, <2>2
<1>6. PICK e : e = Modify(d, o, v) OBVIOUS
<1>7. e \in Frames(S) BY <1>1, <1>6, FineFacts, ModifyFrame
<1>8. e = IF b.trans < d.transaction THEN Touch(With(d, o, a), s) ELSE With(d, o, a)
  <2>1. CASE b.trans < d.transaction BY <1>1, <1>3, <1>4, <1>6, <2>1 DEF Modify, With
  <2>2. CASE ~(b.trans < d.transaction)
    <3>1. e = [d EXCEPT !.attr[o].val = v] BY <1>1, <1>3, <1>6, <2>2 DEF Modify
    <3>2. a = [d.attr[o] EXCEPT !.val = v] BY <1>3, <1>4, <2>2
    <3> QED BY <2>2, <3>1, <3>2 DEF With
  <2> QED BY <2>1, <2>2
<1>9. Alters(d, e, o) /\ e.attr[o] = a BY <1>1, <1>5, <1>8, TouchedAlters
<1>10. New(a) <=> New(b)
  BY <1>1, <1>2, <1>3, <1>5 DEF New, AttributeSound
<1>11. \A p \in Objects \ {o} : d.attr[p].on /\ d.attr[o].slot = d.attr[p].slot =>
          d.attr[p].forgotten /\ New(a)
  BY <1>1, <1>3, <1>10, FineFacts DEF Distinct
<1>12. e \in Fine(S) BY <1>1, <1>5, <1>7, <1>9, <1>11, AlteredFine
<1>13. Visible(e)[s] = v
  <2>1. o \in Find(e, s) BY <1>1, <1>5, <1>9 DEF Find
  <2> QED BY <1>5, <1>9, <1>12, <2>1, Seen
<1>14. ASSUME d.transaction = 1 PROVE Start(e) = Start(d)
  <2>1. ~New(b) => Former(a) = Former(b)
    BY <1>1, <1>2, <1>3, <1>5, <1>14 DEF New, AttributeSound, Former
  <2>2. \A p \in Objects : \/ /\ p = o /\ e.attr[p] = a /\ d.attr[p] = b /\ a.slot = b.slot /\ a.on /\ b.on
                           \/ e.attr[p] = d.attr[p]
    BY <1>1, <1>3, <1>5, <1>9 DEF Alters
  <2> QED BY <1>10, <2>1, <2>2, SameStart
<1> QED BY <1>3, <1>5, <1>6, <1>9, <1>10, <1>12, <1>13, <1>14

-----------------------------------------------------------------------------
(* What a delta brings back.                                                 *)

Has(parts, kind, s) == \E p \in parts : p.kind = kind /\ p.slot = s

Mentions(parts) == {p.obj : p \in Removals(parts)}

\* The parts of a delta that takes the contents c to back, in one slot: where
\* it has none nothing changes; the values that removals bring back are those
\* of the objects.
Here(d, parts, c, back, s) ==
    /\ (\A p \in parts : p.slot # s) => back[s] = c[s]
    /\ \A p \in parts : p.slot = s =>
          /\ p.kind = "addition" => Has(parts, "removal", s) \/ back[s] = None
          /\ p.kind = "modification" => /\ c[s] # None
                                        /\ p.val \in Values
                                        /\ back[s] = p.val
                                        /\ \A q \in parts : q.slot = s => q = p
          /\ p.kind = "removal" => /\ back[s] = d.attr[p.obj].val
                                   /\ c[s] = None \/ Has(parts, "addition", s)

Uniform(parts) == \A p, q \in parts : p.slot = q.slot /\ p.kind = q.kind => p = q

Fits(d, parts, c, back) == Uniform(parts) /\ \A s \in Slots : Here(d, parts, c, back, s)

\* The objects a delta brings back are there to be attached again.
Whole(d, parts) == \A p \in parts : p.kind = "removal" =>
                      /\ ~d.attr[p.obj].on
                      /\ d.attr[p.obj].slot = p.slot
                      /\ d.attr[p.obj].val \in Values

\* What is seen when some of the parts have been applied.
Amid(d, back, r, s) ==
    IF Has(r, "removal", s) \/ Has(r, "modification", s) THEN back[s]
    ELSE IF Has(r, "addition", s) THEN None ELSE Visible(d)[s]

Halfway(S, d, back, r, e) ==
    /\ e \in Fine(S) /\ Aside(d, e)
    /\ \A s \in Slots : Visible(e)[s] = Amid(d, back, r, s)
    /\ d.transaction = 1 => Start(e) = Start(d)
    /\ \A o \in Objects : e.attr[o].slot = d.attr[o].slot
    /\ \A o \in Objects : ~d.attr[o].on =>
          /\ ~e.attr[o].forgotten
          /\ e.attr[o].val = d.attr[o].val
          /\ o \notin Mentions(r) => e.attr[o] = d.attr[o]

LEMMA HalfwayStep ==
    ASSUME NEW S \in SUBSET Objects, NEW d, NEW back, NEW r, NEW e, Halfway(S, d, back, r, e),
           NEW p, p.slot \in Slots, NEW f \in Fine(S), NEW o \in Objects, Alters(e, f, o),
           d.attr[o].slot = p.slot, Visible(f)[p.slot] = Amid(d, back, r \cup {p}, p.slot),
           d.transaction = 1 => Start(f) = Start(e),
           \/ d.attr[o].on
           \/ p.kind = "removal" /\ p.obj = o /\ ~f.attr[o].forgotten
              /\ f.attr[o].val = d.attr[o].val
    PROVE  Halfway(S, d, back, r \cup {p}, f)
<1>1. Aside(d, f) BY DEF Halfway, Alters, Aside
<1>2. ASSUME NEW s \in Slots PROVE Visible(f)[s] = Amid(d, back, r \cup {p}, s)
  <2>1. CASE s = p.slot BY <2>1
  <2>2. CASE s # p.slot
    <3>1. e.attr[o].slot = d.attr[o].slot BY DEF Halfway
    <3>2. Visible(f)[s] = Visible(e)[s] BY <2>2, <3>1, OtherSlots
    <3>3. Visible(e)[s] = Amid(d, back, r, s) BY DEF Halfway
    <3>4. \A kind : Has(r \cup {p}, kind, s) <=> Has(r, kind, s) BY <2>2 DEF Has
    <3> QED BY <3>2, <3>3, <3>4 DEF Amid
  <2> QED BY <2>1, <2>2
<1>3. d.transaction = 1 => Start(f) = Start(d) BY DEF Halfway
<1>4. \A q \in Objects : f.attr[q].slot = d.attr[q].slot BY DEF Halfway, Alters
<1>5. ASSUME NEW q \in Objects, ~d.attr[q].on
      PROVE  /\ ~f.attr[q].forgotten
             /\ f.attr[q].val = d.attr[q].val
             /\ q \notin Mentions(r \cup {p}) => f.attr[q] = d.attr[q]
  <2>1. /\ ~e.attr[q].forgotten
        /\ e.attr[q].val = d.attr[q].val
        /\ q \notin Mentions(r) => e.attr[q] = d.attr[q]
    BY <1>5 DEF Halfway
  <2>2. Mentions(r) \subseteq Mentions(r \cup {p}) BY DEF Mentions, Removals
  <2>3. CASE q # o BY <2>1, <2>2, <2>3 DEF Alters
  <2>4. CASE q = o
    <3>1. q \in Mentions(r \cup {p}) BY <1>5, <2>4 DEF Mentions, Removals
    <3> QED BY <1>5, <2>4, <3>1
  <2> QED BY <2>3, <2>4
<1> QED BY <1>1, <1>2, <1>3, <1>4, <1>5 DEF Halfway

LEMMA PartStep ==
    ASSUME NEW S \in SUBSET Objects, NEW d \in Fine(S), d.allow,
           NEW parts \in SUBSET Parts(S), NEW back, Fits(d, parts, Visible(d), back),
           Whole(d, parts),
           NEW r \in SUBSET parts, NEW e, Halfway(S, d, back, r, e), NEW p \in parts \ r,
           IF p.kind = "removal" THEN parts \ Removals(parts) \subseteq r
                                 ELSE r \cap Removals(parts) = {}
    PROVE  Halfway(S, d, back, r \cup {p}, ApplyPart(e, p))
<1>1. /\ e \in Fine(S) /\ e.fault = "none" /\ e.allow /\ e.transaction = d.transaction
  BY FineFacts DEF Halfway, Aside
<1>2. PICK s \in Slots : s = p.slot BY DEF Parts, AttributeDelta
<1>3. /\ p.kind \in {"addition", "modification", "removal"}
      /\ p.kind = "removal" => p.obj \in S
  BY DEF Parts, AttributeDelta
<1>4. Here(d, parts, Visible(d), back, s) /\ Uniform(parts) BY DEF Fits
<1>5. Visible(e)[s] = Amid(d, back, r, s) BY DEF Halfway
<1>6. \A q \in r : q.slot = s => q.kind # p.kind BY <1>2, <1>4 DEF Uniform
<1>7. \A o \in Objects : e.attr[o].slot = d.attr[o].slot BY DEF Halfway
<1>8. None \notin Values BY TreeAssumption
<1>9. CASE p.kind = "removal"
  <2>1. PICK o \in S : o = p.obj BY <1>3, <1>9
  <2>2. ~d.attr[o].on /\ d.attr[o].slot = s /\ d.attr[o].val \in Values /\ back[s] = d.attr[o].val
    BY <1>2, <1>4, <1>9, <2>1 DEF Whole, Here
  <2>3. o \notin Mentions(r)
    <3> SUFFICES ASSUME NEW q \in r, q.kind = "removal", q.obj = o PROVE FALSE
      BY DEF Mentions, Removals
    <3>1. q.slot = s BY <2>2 DEF Whole
    <3> QED BY <1>6, <1>9, <3>1
  <2>4. e.attr[o] = d.attr[o] BY <2>2, <2>3 DEF Halfway
  <2>5. \A q \in r : q.slot = s => q.kind # "modification"
    BY <1>2, <1>4, <1>9 DEF Here
  <2>6. Visible(d)[s] = None \/ Has(r, "addition", s)
    <3>1. Visible(d)[s] = None \/ Has(parts, "addition", s) BY <1>2, <1>4, <1>9 DEF Here
    <3>2. Has(parts, "addition", s) => Has(r, "addition", s) BY <1>9 DEF Has, Removals
    <3> QED BY <3>1, <3>2
  <2>7. Visible(e)[s] = None BY <1>5, <1>6, <1>9, <2>5, <2>6 DEF Amid, Has
  <2>8. Find(e, s) = {} BY <1>1, <1>8, <2>7, Seen
  <2>9. PICK f : f = AddTo(e, o) OBVIOUS
  <2>10. /\ f \in Fine(S) /\ Alters(e, f, o)
         /\ ~f.attr[o].forgotten /\ f.attr[o].val = d.attr[o].val
         /\ Visible(f)[s] = d.attr[o].val
         /\ d.transaction = 1 => Start(f) = Start(e)
    BY <1>1, <2>2, <2>4, <2>8, <2>9, AddToEffect
  <2>11. ApplyPart(e, p) = f BY <1>1, <1>9, <2>1, <2>9 DEF ApplyPart
  <2>12. Amid(d, back, r \cup {p}, s) = back[s] BY <1>2, <1>9 DEF Amid, Has
  <2> QED BY <1>2, <1>9, <2>1, <2>2, <2>10, <2>11, <2>12, HalfwayStep
<1>10. CASE p.kind # "removal"
  <2>1. \A q \in r : q.kind # "removal" BY <1>10 DEF Removals
  <2>2. Mentions(r) = {} BY <2>1 DEF Mentions, Removals
  <2>3. \A q \in r : q.slot # s
    <3> SUFFICES ASSUME NEW q \in r, q.slot = s PROVE FALSE OBVIOUS
    <3>1. q.kind \in {"addition", "modification"} BY <2>1 DEF Parts, AttributeDelta
    <3>2. q # p /\ q.kind # p.kind BY <1>6
    <3>3. q \in parts OBVIOUS
    <3>4. q.kind = "modification" => q = p BY <1>2, <1>4, <3>3 DEF Here
    <3>5. p.kind = "modification" => q = p BY <1>2, <1>4, <3>3 DEF Here
    <3> QED BY <1>3, <1>10, <3>1, <3>2, <3>4, <3>5
  <2>4. Visible(e)[s] = Visible(d)[s]
    <3>1. \A kind : ~Has(r, kind, s) BY <2>3 DEF Has
    <3> QED BY <1>5, <3>1 DEF Amid
  <2>5. CASE Find(e, s) = {}
    <3>1. Visible(e)[s] = None BY <1>1, <2>5, Seen
    <3>2. p.kind = "addition" BY <1>2, <1>3, <1>4, <1>10, <2>4, <3>1 DEF Here
    <3>3. ApplyPart(e, p) = e BY <1>1, <1>2, <1>10, <2>5 DEF ApplyPart
    <3>4. ASSUME NEW t \in Slots PROVE Visible(e)[t] = Amid(d, back, r \cup {p}, t)
      <4>1. Visible(e)[t] = Amid(d, back, r, t) BY DEF Halfway
      <4>2. CASE t = s
        <5>1. Amid(d, back, r \cup {p}, s) = None BY <1>2, <2>3, <3>2 DEF Amid, Has
        <5> QED BY <3>1, <4>2, <5>1
      <4>3. CASE t # s
        <5>1. \A kind : Has(r \cup {p}, kind, t) <=> Has(r, kind, t) BY <1>2, <4>3 DEF Has
        <5> QED BY <4>1, <5>1 DEF Amid
      <4> QED BY <4>2, <4>3
    <3>5. Mentions(r \cup {p}) = {} BY <1>10, <2>1 DEF Mentions, Removals
    <3> QED BY <2>2, <3>3, <3>4, <3>5 DEF Halfway
  <2>6. CASE Find(e, s) # {}
    <3>1. PICK o : o = CHOOSE x \in Find(e, s) : TRUE OBVIOUS
    <3>2. o \in Find(e, s) BY <2>6, <3>1
    <3>3. o \in Objects /\ e.attr[o].on /\ e.attr[o].slot = s BY <3>2 DEF Find
    <3>4. d.attr[o].on /\ d.attr[o].slot = s BY <1>7, <2>2, <3>3 DEF Halfway
    <3>5. CASE p.kind = "addition"
      <4>1. PICK f : f = Forget(e, o) OBVIOUS
      <4>2. /\ f \in Fine(S) /\ Alters(e, f, o) /\ Visible(f)[s] = None
            /\ d.transaction = 1 => Start(f) = Start(e)
        BY <1>1, <3>2, <4>1, ForgetEffect
      <4>3. ApplyPart(e, p) = f BY <1>1, <1>2, <2>6, <3>1, <3>5, <4>1 DEF ApplyPart
      <4>4. Amid(d, back, r \cup {p}, s) = None BY <1>2, <2>3, <3>5 DEF Amid, Has
      <4> QED BY <1>2, <3>3, <3>4, <4>2, <4>3, <4>4, HalfwayStep
    <3>6. CASE p.kind = "modification"
      <4>1. p.val \in Values /\ back[s] = p.val BY <1>2, <1>4, <3>6 DEF Here
      <4>2. PICK f : f = Modify(e, o, p.val) OBVIOUS
      <4>3. /\ f \in Fine(S) /\ Alters(e, f, o) /\ Visible(f)[s] = p.val
            /\ d.transaction = 1 => Start(f) = Start(e)
        BY <1>1, <3>2, <4>1, <4>2, ModifyEffect
      <4>4. ApplyPart(e, p) = f BY <1>1, <1>2, <2>6, <3>1, <3>6, <4>2 DEF ApplyPart
      <4>5. Amid(d, back, r \cup {p}, s) = back[s] BY <1>2, <3>6 DEF Amid, Has
      <4> QED BY <1>2, <3>3, <3>4, <4>1, <4>3, <4>4, <4>5, HalfwayStep
    <3> QED BY <1>3, <1>10, <3>5, <3>6
  <2> QED BY <2>5, <2>6
<1> QED BY <1>9, <1>10

\* The parts applied one by one: what each set of them, applied, leads to.
Replay(it, d, parts) ==
    /\ ApplyAll(d, parts) = it[parts]
    /\ it[{}] = d
    /\ \A s \in (SUBSET parts) \ {{}} : \E p \in s : it[s] = ApplyPart(it[s \ {p}], p)

LEMMA ApplyAllSteps ==
    ASSUME NEW S \in SUBSET Objects, NEW d \in Frames(S), NEW parts \in SUBSET Parts(S),
           IsFiniteSet(parts)
    PROVE  \E it : Replay(it, d, parts)
<1> DEFINE C(s) == CHOOSE x \in s : TRUE
           Rec(it) == [s \in SUBSET parts |-> IF s = {} THEN d
                                              ELSE ApplyPart(it[s \ {C(s)}], C(s))]
<1>1. PICK F : F = [p \in parts |-> [e \in Frames(S) |-> ApplyPart(e, p)]] OBVIOUS
<1>2. F \in [parts -> [Frames(S) -> Frames(S)]] BY <1>1, ApplyPartFrame
<1>3. PICK c : c = [s \in (SUBSET parts) \ {{}} |-> C(s)] OBVIOUS
<1>4. \A s \in (SUBSET parts) \ {{}} : C(s) \in s OBVIOUS
<1>5. c \in [(SUBSET parts) \ {{}} -> parts] /\ \A s \in (SUBSET parts) \ {{}} : c[s] \in s
  <2> HIDE DEF C
  <2> QED BY <1>3, <1>4
<1>6. \E f : Folds(f, SUBSET parts, Frames(S), d, F, c)
  <2> HIDE DEF C
  <2> QED BY <1>2, <1>5, FoldRecursion
<1>7. PICK f : Folds(f, SUBSET parts, Frames(S), d, F, c) BY <1>6
<1>8. f = Rec(f)
  <2>1. f \in [SUBSET parts -> Frames(S)] BY <1>7 DEF Folds
  <2>2. ASSUME NEW s \in SUBSET parts
        PROVE  f[s] = IF s = {} THEN d ELSE ApplyPart(f[s \ {C(s)}], C(s))
    <3>1. f[s] = IF s = {} THEN d ELSE F[c[s]][f[s \ {c[s]}]] BY <1>7 DEF Folds
    <3>2. CASE s = {} BY <3>1, <3>2
    <3>3. CASE s # {}
      <4>1. c[s] = C(s) /\ C(s) \in parts BY <1>3, <1>4, <3>3
      <4>2. f[s \ {C(s)}] \in Frames(S) BY <2>1
      <4>3. F[C(s)][f[s \ {C(s)}]] = ApplyPart(f[s \ {C(s)}], C(s))
        <5> HIDE DEF C
        <5> QED BY <1>1, <4>1, <4>2
      <4> QED BY <3>1, <3>3, <4>1, <4>3
    <3> QED BY <3>2, <3>3
  <2> HIDE DEF C
  <2> QED BY <2>1, <2>2
<1>9. PICK iter : iter = CHOOSE it : it = Rec(it) OBVIOUS
<1>10. iter = Rec(iter)
  <2> HIDE DEF Rec
  <2> QED BY <1>8, <1>9
<1>11. ApplyAll(d, parts) = iter[parts]
  BY <1>9, Zenon DEF ApplyAll, FoldSet, MapThenFoldSet
<1>12. iter[{}] = d BY <1>10
<1>13. ASSUME NEW s \in (SUBSET parts) \ {{}}
       PROVE  \E p \in s : iter[s] = ApplyPart(iter[s \ {p}], p)
  <2>1. iter[s] = ApplyPart(iter[s \ {C(s)}], C(s)) BY <1>10
  <2> HIDE DEF C, Rec
  <2> QED BY <1>4, <2>1
<1> HIDE DEF C, Rec
<1>14. Replay(iter, d, parts) BY <1>11, <1>12, <1>13 DEF Replay
<1> QED BY <1>14

LEMMA ApplyAllEffect ==
    ASSUME NEW S \in SUBSET Objects, NEW d \in Fine(S), d.allow,
           NEW parts \in SUBSET Parts(S), NEW back, Fits(d, parts, Visible(d), back),
           Whole(d, parts),
           NEW r \in SUBSET parts, NEW e, Halfway(S, d, back, r, e),
           NEW todo \in SUBSET parts, IsFiniteSet(todo), todo \cap r = {},
           \A p \in todo : IF p.kind = "removal" THEN parts \ Removals(parts) \subseteq r
                           ELSE (r \cup todo) \cap Removals(parts) = {}
    PROVE  Halfway(S, d, back, r \cup todo, ApplyAll(e, todo))
<1>1. e \in Frames(S) BY FineFacts DEF Halfway
<1>2. todo \in SUBSET Parts(S) OBVIOUS
<1>3. PICK iter : Replay(iter, e, todo) BY <1>1, <1>2, ApplyAllSteps
<1> DEFINE X == {s \in SUBSET todo : Halfway(S, d, back, r \cup s, iter[s])}
<1>4. PICK g : g = [s \in SUBSET todo |-> s] OBVIOUS
<1>5. g[{}] \in X
  <2>1. r \cup {} = r OBVIOUS
  <2>2. {} \in X BY <1>3, <2>1 DEF Replay
  <2> HIDE DEF X
  <2> QED BY <1>4, <2>2
<1>6. ASSUME NEW s \in (SUBSET todo) \ {{}} PROVE \E p \in s : g[s \ {p}] \in X => g[s] \in X
  <2>1. PICK p \in s : iter[s] = ApplyPart(iter[s \ {p}], p)
    BY <1>3 DEF Replay
  <2>2. g[s] = s /\ g[s \ {p}] = s \ {p} BY <1>4
  <2>3. ASSUME s \ {p} \in X PROVE s \in X
    <3>1. PICK t : t = s \ {p} OBVIOUS
    <3>2. Halfway(S, d, back, r \cup t, iter[t]) BY <2>3, <3>1
    <3>3. PICK q : q = r \cup t OBVIOUS
    <3>4. q \in SUBSET parts /\ p \in parts \ q BY <3>1, <3>3
    <3>5. IF p.kind = "removal" THEN parts \ Removals(parts) \subseteq q
                                ELSE q \cap Removals(parts) = {}
      <4>1. p \in todo OBVIOUS
      <4>2. q \subseteq r \cup todo /\ r \subseteq q BY <3>1, <3>3
      <4> QED BY <4>1, <4>2
    <3>6. Halfway(S, d, back, q \cup {p}, ApplyPart(iter[t], p))
      <4> HIDE DEF X
      <4> QED BY <3>2, <3>3, <3>4, <3>5, PartStep
    <3>7. q \cup {p} = r \cup s BY <3>1, <3>3
    <3> QED BY <2>1, <3>1, <3>6, <3>7
  <2> HIDE DEF X
  <2> QED BY <2>2, <2>3
<1>7. g[todo] \in X
  <2> HIDE DEF X
  <2> QED BY <1>5, <1>6, FoldTyped
<1>8. Halfway(S, d, back, r \cup todo, iter[todo]) BY <1>4, <1>7
<1> QED BY <1>3, <1>8 DEF Replay

\* Applied, a delta brings back what it is to bring back; what the document
\* held when the transaction opened, and the other objects, stay.
LEMMA ApplyEffect ==
    ASSUME NEW S \in SUBSET Objects, NEW d \in Fine(S), d.allow,
           NEW parts \in SUBSET Parts(S), IsFiniteSet(parts),
           NEW back \in Contents, Fits(d, parts, Visible(d), back), Whole(d, parts)
    PROVE  LET e == Apply(d, parts) IN
           /\ e \in Fine(S) /\ Aside(d, e) /\ Visible(e) = back
           /\ d.transaction = 1 => Start(e) = Start(d)
           /\ \A o \in Objects : e.attr[o].slot = d.attr[o].slot
           /\ \A o \in Objects : ~d.attr[o].on =>
                 /\ ~e.attr[o].forgotten
                 /\ e.attr[o].val = d.attr[o].val
                 /\ o \notin Mentions(parts) => e.attr[o] = d.attr[o]
<1>1. PICK rs : rs = Removals(parts) OBVIOUS
<1>2. PICK ns : ns = parts \ rs OBVIOUS
<1>3. rs \subseteq parts /\ ns \subseteq parts /\ ns \cup rs = parts /\ ns \cap rs = {}
  BY <1>1, <1>2 DEF Removals
<1>4. IsFiniteSet(rs) /\ IsFiniteSet(ns) BY <1>3, FS_Subset
<1>5. Halfway(S, d, back, {}, d)
  <2>1. \A o \in Objects : ~d.attr[o].on => ~d.attr[o].forgotten
    BY FineFacts, FrameFacts DEF AttributeSound
  <2> QED BY <2>1 DEF Halfway, Aside, Amid, Has
<1>6. PICK e : e = ApplyAll(d, ns) OBVIOUS
<1>7. Halfway(S, d, back, ns, e)
  <2>1. \A p \in ns : p.kind # "removal" BY <1>1, <1>2 DEF Removals
  <2>2. ({} \cup ns) \cap Removals(parts) = {} BY <1>1, <1>3
  <2>3. Halfway(S, d, back, {} \cup ns, ApplyAll(d, ns))
    BY <1>3, <1>4, <1>5, <2>1, <2>2, ApplyAllEffect
  <2>4. {} \cup ns = ns OBVIOUS
  <2> QED BY <1>6, <2>3, <2>4
<1>8. PICK f : f = ApplyAll(e, rs) OBVIOUS
<1>9. Halfway(S, d, back, parts, f)
  <2>1. \A p \in rs : p.kind = "removal" BY <1>1 DEF Removals
  <2>2. parts \ Removals(parts) \subseteq ns /\ rs \cap ns = {} BY <1>1, <1>2, <1>3
  <2>3. Halfway(S, d, back, ns \cup rs, ApplyAll(e, rs))
    BY <1>3, <1>4, <1>7, <2>1, <2>2, ApplyAllEffect
  <2> QED BY <1>3, <1>8, <2>3
<1>10. Apply(d, parts) = f BY <1>1, <1>2, <1>6, <1>8 DEF Apply
<1>11. ASSUME NEW s \in Slots PROVE Visible(f)[s] = back[s]
  <2>1. Visible(f)[s] = Amid(d, back, parts, s) BY <1>9 DEF Halfway
  <2>2. Here(d, parts, Visible(d), back, s) BY DEF Fits
  <2>3. CASE \A p \in parts : p.slot # s BY <2>1, <2>2, <2>3 DEF Amid, Has, Here
  <2>4. CASE \E p \in parts : p.slot = s
    <3>1. PICK p \in parts : p.slot = s BY <2>4
    <3>2. p.kind \in {"addition", "modification", "removal"} BY DEF Parts, AttributeDelta
    <3>3. CASE Has(parts, "removal", s) \/ Has(parts, "modification", s) BY <2>1, <3>3 DEF Amid
    <3>4. CASE ~(Has(parts, "removal", s) \/ Has(parts, "modification", s))
      <4>1. p.kind = "addition" /\ Has(parts, "addition", s) BY <3>1, <3>2, <3>4 DEF Has
      <4>2. back[s] = None BY <2>2, <3>1, <3>4, <4>1 DEF Here
      <4> QED BY <2>1, <3>4, <4>1, <4>2 DEF Amid
    <3> QED BY <3>3, <3>4
  <2> QED BY <2>3, <2>4
<1>12. Visible(f) = back
  <2>1. f \in Framework BY <1>9, FineFacts, FrameFacts DEF Halfway
  <2>2. Visible(f) \in Contents BY <2>1, VisibleContents
  <2> QED BY <1>11, <2>2 DEF Contents
<1> QED BY <1>9, <1>10, <1>12 DEF Halfway

-----------------------------------------------------------------------------
(* What a commit makes of the framework, and what its delta brings back.     *)

LEMMA SameAttributes ==
    ASSUME NEW S \in SUBSET Objects, NEW d \in Fine(S), NEW e \in Frames(S),
           e.attr = d.attr, e.fault = d.fault
    PROVE  e \in Fine(S) /\ Visible(e) = Visible(d) /\ Start(e) = Start(d)
<1>1. e \in Fine(S) BY FineFacts DEF Fine, Distinct, Valued
<1>2. ASSUME NEW s \in Slots
      PROVE  /\ (IF Find(e, s) = {} THEN None ELSE e.attr[CHOOSE o \in Find(e, s) : TRUE].val)
               = (IF Find(d, s) = {} THEN None ELSE d.attr[CHOOSE o \in Find(d, s) : TRUE].val)
             /\ (IF Prior(e, s) = {} THEN None ELSE Former(e.attr[CHOOSE o \in Prior(e, s) : TRUE]))
               = (IF Prior(d, s) = {} THEN None ELSE Former(d.attr[CHOOSE o \in Prior(d, s) : TRUE]))
  <2>1. Find(e, s) = Find(d, s) /\ Prior(e, s) = Prior(d, s) BY DEF Find, Prior
  <2> QED BY <2>1
<1>3. Visible(e) = Visible(d) BY <1>2, Zenon DEF Visible
<1>4. Start(e) = Start(d) BY <1>2, Zenon DEF Start
<1> QED BY <1>1, <1>3, <1>4

LEMMA CleanAttributes ==
    ASSUME NEW S \in SUBSET Objects, NEW d \in Frames(S), NEW o \in Objects,
           d.attr[o].trans = 0 \/ d.transaction = 0
    PROVE  /\ d.attr[o].trans = 0 /\ d.attr[o].backup = None /\ ~d.attr[o].forgotten
           /\ ~New(d.attr[o]) /\ Former(d.attr[o]) = d.attr[o].val
<1>1. d.attr[o] \in Attribute /\ AttributeSound(d, o) /\ d.transaction \in 0 .. 1
  BY FrameFacts
<1>2. d.attr[o].trans \in 0 .. 1 BY <1>1 DEF Attribute
<1>3. d.attr[o].trans = 0 BY <1>1, <1>2 DEF AttributeSound
<1> QED BY <1>1, <1>3 DEF AttributeSound, New, Former

LEMMA CleanStart ==
    ASSUME NEW S \in SUBSET Objects, NEW d \in Fine(S), d.transaction = 0
    PROVE  Start(d) = Visible(d)
<1>1. \A o \in Objects : ~d.attr[o].forgotten /\ ~New(d.attr[o])
                         /\ Former(d.attr[o]) = d.attr[o].val
  BY FineFacts, CleanAttributes
<1>2. ASSUME NEW s \in Slots
      PROVE  (IF Prior(d, s) = {} THEN None ELSE Former(d.attr[CHOOSE o \in Prior(d, s) : TRUE]))
           = (IF Find(d, s) = {} THEN None ELSE d.attr[CHOOSE o \in Find(d, s) : TRUE].val)
  <2>1. Prior(d, s) = Find(d, s) BY <1>1 DEF Prior, Find
  <2>2. PICK c : c = CHOOSE o \in Find(d, s) : TRUE OBVIOUS
  <2>3. Find(d, s) # {} => c \in Objects BY <2>2 DEF Find
  <2> QED BY <1>1, <2>1, <2>2, <2>3
<1> QED BY <1>2, Zenon DEF Start, Visible

LEMMA TouchedAll ==
    ASSUME NEW S \in SUBSET Objects, NEW d \in Frames(S), d.transaction = 1
    PROVE  Touched(d) = {o \in Objects : d.attr[o].trans = 1}
<1>1. d.mayMod \in [Labels -> BOOLEAN] /\ Chain(d.mayMod) BY FrameFacts DEF Framework
<1>2. Reached(d) = {l \in Labels : d.mayMod[l]} BY <1>1, ReachedMarked
<1>3. ASSUME NEW o \in Objects, d.attr[o].trans = 1 PROVE o \in Touched(d)
  <2>1. AttributeSound(d, o) BY FrameFacts
  <2>2. d.attr[o].on /\ d.attr[o].slot \in Slots BY <1>3, <2>1 DEF AttributeSound
  <2>3. d.attr[o].slot[1] \in Labels BY <2>2, TreeAssumption
  <2>4. d.attr[o].slot[1] \in Reached(d) BY <1>2, <1>3, <2>1, <2>3 DEF AttributeSound
  <2> QED BY <1>3, <2>1, <2>2, <2>4 DEF AttributeSound, Touched
<1>4. Touched(d) \subseteq {o \in Objects : d.attr[o].trans = 1} BY DEF Touched
<1> QED BY <1>3, <1>4

LEMMA CommitForm ==
    ASSUME NEW S \in SUBSET Objects, NEW d \in Frames(S), d.transaction = 1
    PROVE  LET e == Commit(d).data
               delta == Commit(d).delta
               T == {o \in Objects : d.attr[o].trans = 1} IN
           /\ e.allow = d.allow /\ e.fault = d.fault
           /\ \A o \in Objects : e.attr[o] = IF o \in T THEN Closed(d.attr[o]) ELSE d.attr[o]
           /\ delta.parts = {PartOf(o, d.attr[o]) : o \in T}
           /\ T = {} => delta = NullDelta /\ e.time = d.time
           /\ T # {} => delta.begin = d.begin /\ delta.end = d.time + 1
                        /\ e.time = d.time + 1 /\ delta.back = d.was
<1> DEFINE e == Commit(d).data
           delta == Commit(d).delta
           T == {o \in Objects : d.attr[o].trans = 1}
<1>1. Touched(d) = T BY TouchedAll
<1> HIDE DEF T
<1>2. d \in Framework BY FrameFacts
<1>3. PICK visited : visited = Reached(d) OBVIOUS
<1>4. Commit(d) = Committed(d, T, visited) BY <1>1, <1>3 DEF Commit
<1>5. PICK attr : attr = [o \in Objects |-> IF o \in T THEN Closed(d.attr[o]) ELSE d.attr[o]]
  OBVIOUS
<1>6. PICK time : time = IF T = {} THEN d.time ELSE d.time + 1 OBVIOUS
<1>7. \E att : \E may :
         e = [d EXCEPT !.attr = attr, !.attMod = att, !.mayMod = may, !.time = time,
                       !.was = Nothing, !.begin = 0, !.transaction = 0]
  <2>1. PICK dirty : dirty = {d.attr[o].slot[1] : o \in {t \in T :
                                 d.attr[t].forgotten /\ d.attr[t].backup = None}}
    OBVIOUS
  <2>2. PICK kept : kept = [l \in Labels |-> d.mayMod[l] /\ l \notin visited] OBVIOUS
  <2>3. PICK may : may = [l \in Labels |-> kept[l] \/ \E m \in dirty : l \in Marks(kept, m)]
    OBVIOUS
  <2>4. PICK att : att = [l \in Labels |-> IF l \in visited THEN l \in dirty ELSE d.attMod[l]]
    OBVIOUS
  <2>5. e = [d EXCEPT !.attr = attr, !.attMod = att, !.mayMod = may, !.time = time,
                      !.was = Nothing, !.begin = 0, !.transaction = 0]
    BY <1>4, <1>5, <1>6, <2>1, <2>2, <2>3, <2>4 DEF Committed
  <2> QED BY <2>5
<1>8. PICK att : \E may :
         e = [d EXCEPT !.attr = attr, !.attMod = att, !.mayMod = may, !.time = time,
                       !.was = Nothing, !.begin = 0, !.transaction = 0]
  BY <1>7
<1>8a. PICK may :
         e = [d EXCEPT !.attr = attr, !.attMod = att, !.mayMod = may, !.time = time,
                       !.was = Nothing, !.begin = 0, !.transaction = 0]
  BY <1>8
<1>9. e.allow = d.allow /\ e.fault = d.fault /\ e.attr = attr /\ e.time = time
  BY <1>2, <1>8a DEF Framework
<1>10. delta = IF T = {} THEN NullDelta
               ELSE [NullDelta EXCEPT !.begin = d.begin, !.end = time,
                                      !.parts = {PartOf(o, d.attr[o]) : o \in T}, !.back = d.was]
  BY <1>4, <1>6 DEF Committed
<1>11. T = {} => delta.parts = {PartOf(o, d.attr[o]) : o \in T} BY <1>10 DEF NullDelta
<1>12. T # {} => delta.parts = {PartOf(o, d.attr[o]) : o \in T} /\ delta.begin = d.begin
                 /\ delta.end = time /\ delta.back = d.was
  BY <1>10 DEF NullDelta
<1> HIDE DEF e, delta
<1>13. /\ e.allow = d.allow /\ e.fault = d.fault
       /\ \A o \in Objects : e.attr[o] = IF o \in T THEN Closed(d.attr[o]) ELSE d.attr[o]
       /\ delta.parts = {PartOf(o, d.attr[o]) : o \in T}
       /\ T = {} => delta = NullDelta /\ e.time = d.time
       /\ T # {} => delta.begin = d.begin /\ delta.end = d.time + 1
                    /\ e.time = d.time + 1 /\ delta.back = d.was
  BY <1>5, <1>6, <1>9, <1>10, <1>11, <1>12
<1> QED BY <1>13, Zenon DEF e, delta, T

LEMMA ClosedForm ==
    ASSUME NEW a \in Attribute
    PROVE  /\ Closed(a).slot = a.slot /\ Closed(a).trans = 0 /\ Closed(a).backup = None
           /\ ~Closed(a).forgotten
           /\ a.forgotten => ~Closed(a).on /\ Closed(a).val = Former(a)
           /\ ~a.forgotten => Closed(a).on = a.on /\ Closed(a).val = a.val
<1>1. ASSUME a.forgotten PROVE ~Closed(a).on /\ Closed(a).val = Former(a)
  <2>1. PICK b \in Attribute : b = Detach(a) BY DetachFacts
  <2>2. ~b.on /\ b.val = a.val BY <2>1, DetachFacts
  <2>3. PICK v : v = Former(a) OBVIOUS
  <2>4. Closed(a) = [b EXCEPT !.backup = None, !.val = v]
    BY <1>1, <2>1, <2>2, <2>3 DEF Closed, Attribute, Former
  <2> QED BY <2>2, <2>3, <2>4 DEF Attribute
<1>2. ~a.forgotten => Closed(a).on = a.on /\ Closed(a).val = a.val
  BY DEF Closed, Attribute
<1> QED BY <1>1, <1>2, ClosedFacts

\* A commit: what was seen stays, the delta brings back what the document held
\* when the transaction opened, and refers only to what was forgotten.
LEMMA CommitEffect ==
    ASSUME NEW S \in SUBSET Objects, NEW d \in Fine(S), d.transaction = 1
    PROVE  LET e == Commit(d).data
               delta == Commit(d).delta IN
           /\ e \in Fine(S) /\ e.transaction = 0 /\ e.allow = d.allow /\ delta \in Stored(S)
           /\ Visible(e) = Visible(d)
           /\ \A o \in Objects : e.attr[o].slot = d.attr[o].slot
           /\ \A o \in Objects : ~d.attr[o].on => e.attr[o] = d.attr[o]
           /\ \A o \in Mentions(delta.parts) :
                 o \in Objects /\ d.attr[o].on /\ d.attr[o].forgotten
           /\ \A p \in delta.parts : p.kind # "modification" =>
                 \E o \in Objects : /\ d.attr[o].on /\ d.attr[o].slot = p.slot
                                    /\ d.attr[o].forgotten \/ New(d.attr[o])
           /\ Fits(e, delta.parts, Visible(d), Start(d))
           /\ Whole(e, delta.parts)
           /\ delta.parts = {} => delta = NullDelta /\ e.time = d.time
           /\ delta.parts # {} => delta.begin = d.begin /\ delta.end = e.time
                                  /\ delta.back = d.was
<1> DEFINE e == Commit(d).data
           delta == Commit(d).delta
<1>1. PICK T : T = {o \in Objects : d.attr[o].trans = 1} OBVIOUS
<1>2. /\ e.allow = d.allow /\ e.fault = d.fault
      /\ \A o \in Objects : e.attr[o] = IF o \in T THEN Closed(d.attr[o]) ELSE d.attr[o]
      /\ delta.parts = {PartOf(o, d.attr[o]) : o \in T}
      /\ T = {} => delta = NullDelta /\ e.time = d.time
      /\ T # {} => delta.begin = d.begin /\ delta.end = d.time + 1
                   /\ e.time = d.time + 1 /\ delta.back = d.was
  <2>1. d \in Frames(S) BY FineFacts
  <2> QED BY <1>1, <2>1, CommitForm
<1>3. e \in Frames(S) /\ e.transaction = 0 /\ delta \in Stored(S) BY FineFacts, CommitFacts
<1> HIDE DEF e, delta
<1>4. Distinct(d) /\ Valued(d) /\ d.fault = "none" /\ None \notin Values
  BY FineFacts, TreeAssumption
<1>5. ASSUME NEW o \in Objects
      PROVE  /\ d.attr[o] \in Attribute /\ d.attr[o].forgotten \in BOOLEAN
             /\ d.attr[o].trans \in 0 .. 1
             /\ e.attr[o].slot = d.attr[o].slot /\ ~e.attr[o].forgotten
             /\ d.attr[o].forgotten => /\ o \in T /\ ~e.attr[o].on
                                       /\ e.attr[o].val = Former(d.attr[o])
             /\ ~d.attr[o].forgotten => e.attr[o].on = d.attr[o].on
                                        /\ e.attr[o].val = d.attr[o].val
             /\ o \notin T => e.attr[o] = d.attr[o] /\ ~New(d.attr[o])
                              /\ Former(d.attr[o]) = d.attr[o].val
             /\ o \in T => d.attr[o].on
  <2>1. d.attr[o] \in Attribute /\ AttributeSound(d, o) BY FineFacts, FrameFacts
  <2>2. d.attr[o].trans \in 0 .. 1 /\ d.attr[o].forgotten \in BOOLEAN BY <2>1 DEF Attribute
  <2>3. CASE o \in T
    <3>1. e.attr[o] = Closed(d.attr[o]) BY <1>2, <2>3
    <3>2. d.attr[o].on BY <1>1, <2>1, <2>3 DEF AttributeSound
    <3>3. PICK a \in Attribute : a = d.attr[o] BY <2>1
    <3>4. /\ Closed(a).slot = a.slot /\ ~Closed(a).forgotten
          /\ a.forgotten => ~Closed(a).on /\ Closed(a).val = Former(a)
          /\ ~a.forgotten => Closed(a).on = a.on /\ Closed(a).val = a.val
      BY ClosedForm
    <3> QED BY <2>1, <2>2, <2>3, <3>1, <3>2, <3>3, <3>4
  <2>4. CASE o \notin T
    <3>1. d.attr[o].trans = 0 BY <1>1, <2>2, <2>4
    <3>2. e.attr[o] = d.attr[o] BY <1>2, <2>4
    <3>3. ~d.attr[o].forgotten /\ ~New(d.attr[o]) /\ Former(d.attr[o]) = d.attr[o].val
      BY <3>1, FineFacts, CleanAttributes
    <3> QED BY <2>1, <2>2, <2>4, <3>2, <3>3
  <2> QED BY <2>3, <2>4
<1>6. \A o \in Objects : New(d.attr[o]) => o \in T BY <1>1 DEF New
<1>7. ASSUME NEW p \in delta.parts
      PROVE  \E o \in T : p = PartOf(o, d.attr[o])
  BY <1>2
<1>8. ASSUME NEW o \in T
      PROVE  LET p == PartOf(o, d.attr[o]) IN
             /\ p \in delta.parts /\ p.slot = d.attr[o].slot
             /\ d.attr[o].forgotten => p.kind = "removal" /\ p.obj = o
             /\ New(d.attr[o]) => p.kind = "addition"
             /\ ~d.attr[o].forgotten /\ ~New(d.attr[o]) =>
                   p.kind = "modification" /\ p.val = d.attr[o].backup
                   /\ d.attr[o].backup # None
  <2>1. d.attr[o].trans = 1 BY <1>1
  <2>2. PartOf(o, d.attr[o]) \in delta.parts BY <1>2
  <2> QED BY <2>1, <2>2 DEF PartOf, Part, New
<1>9. T \subseteq Objects BY <1>1
<1>10. \A o \in Objects : ~(d.attr[o].forgotten /\ New(d.attr[o])) BY DEF New
<1>11. Valued(e)
  <2> SUFFICES ASSUME NEW o \in Objects, d.attr[o].slot \in Slots PROVE e.attr[o].val \in Values
    BY <1>5 DEF Valued
  <2>1. d.attr[o].val \in Values BY <1>4 DEF Valued
  <2>2. Former(d.attr[o]) \in Values BY <1>5, <2>1 DEF Former, Attribute
  <2> QED BY <1>5, <2>1, <2>2
<1>12. Distinct(e)
  <2> SUFFICES ASSUME NEW o \in Objects, NEW p \in Objects, o # p, e.attr[o].on, e.attr[p].on,
                      e.attr[o].slot = e.attr[p].slot
               PROVE  FALSE
    BY DEF Distinct
  <2>1. d.attr[o].on /\ d.attr[p].on /\ ~d.attr[o].forgotten /\ ~d.attr[p].forgotten
        /\ d.attr[o].slot = d.attr[p].slot
    BY <1>5
  <2> QED BY <1>4, <2>1 DEF Distinct
<1>13. e \in Fine(S) BY <1>2, <1>3, <1>4, <1>11, <1>12 DEF Fine
<1>14. Visible(e) = Visible(d)
  <2>1. ASSUME NEW s \in Slots
        PROVE  (IF Find(e, s) = {} THEN None ELSE e.attr[CHOOSE o \in Find(e, s) : TRUE].val)
             = (IF Find(d, s) = {} THEN None ELSE d.attr[CHOOSE o \in Find(d, s) : TRUE].val)
    <3>1. Find(e, s) = Find(d, s) BY <1>5 DEF Find
    <3>2. PICK c : c = CHOOSE o \in Find(d, s) : TRUE OBVIOUS
    <3>3. Find(d, s) # {} => c \in Objects /\ ~d.attr[c].forgotten BY <3>2 DEF Find
    <3> QED BY <1>5, <3>1, <3>2, <3>3
  <2> QED BY <2>1, Zenon DEF Visible
<1>15. \A o \in Objects : ~d.attr[o].on => e.attr[o] = d.attr[o] BY <1>5
<1>16. ASSUME NEW p \in delta.parts, p.kind = "removal"
       PROVE  /\ p.obj \in T /\ d.attr[p.obj].forgotten /\ d.attr[p.obj].slot = p.slot
  <2>1. PICK o \in T : p = PartOf(o, d.attr[o]) BY <1>7
  <2> QED BY <1>8, <1>16, <2>1
<1>17. \A o \in Mentions(delta.parts) : o \in Objects /\ d.attr[o].on /\ d.attr[o].forgotten
  BY <1>5, <1>9, <1>16 DEF Mentions, Removals
<1>18. Whole(e, delta.parts)
  <2> SUFFICES ASSUME NEW p \in delta.parts, p.kind = "removal"
               PROVE  /\ ~e.attr[p.obj].on /\ e.attr[p.obj].slot = p.slot
                      /\ e.attr[p.obj].val \in Values
    BY DEF Whole
  <2>1. PICK o \in T : o = p.obj BY <1>16
  <2>2. d.attr[o].forgotten /\ d.attr[o].slot = p.slot /\ o \in Objects BY <1>9, <1>16, <2>1
  <2>3. p.slot \in Slots BY <1>3 DEF Stored, Parts, AttributeDelta
  <2>4. e.attr[o].val \in Values BY <1>5, <1>11, <2>2, <2>3 DEF Valued
  <2> QED BY <1>5, <2>1, <2>2, <2>4
<1>19. ASSUME NEW p \in delta.parts, p.kind # "modification"
       PROVE  \E o \in Objects : /\ d.attr[o].on /\ d.attr[o].slot = p.slot
                                 /\ d.attr[o].forgotten \/ New(d.attr[o])
  <2>1. PICK o \in T : p = PartOf(o, d.attr[o]) BY <1>7
  <2>2. o \in Objects /\ d.attr[o].on BY <1>5, <1>9
  <2>3. d.attr[o].forgotten \/ New(d.attr[o]) BY <1>8, <1>19, <2>1
  <2>4. d.attr[o].slot = p.slot BY <1>8, <2>1
  <2> QED BY <2>2, <2>3, <2>4
<1>20. Uniform(delta.parts)
  <2> SUFFICES ASSUME NEW p \in delta.parts, NEW q \in delta.parts, p.slot = q.slot, p.kind = q.kind,
                      p # q
               PROVE  FALSE
    BY DEF Uniform
  <2>1. PICK o \in T : p = PartOf(o, d.attr[o]) BY <1>7
  <2>2. PICK u \in T : q = PartOf(u, d.attr[u]) BY <1>7
  <2>3. o # u /\ o \in Objects /\ u \in Objects BY <1>9, <2>1, <2>2
  <2>4. d.attr[o].slot = d.attr[u].slot /\ d.attr[o].on /\ d.attr[u].on
    BY <1>5, <1>8, <2>1, <2>2, <2>3
  <2>5. \/ d.attr[o].forgotten /\ New(d.attr[u])
        \/ d.attr[u].forgotten /\ New(d.attr[o])
    BY <1>4, <2>3, <2>4 DEF Distinct
  <2> QED BY <1>8, <2>1, <2>2, <2>5
<1>21. ASSUME NEW s \in Slots PROVE Here(e, delta.parts, Visible(d), Start(d), s)
  <2>1. ASSUME \A p \in delta.parts : p.slot # s PROVE Start(d)[s] = Visible(d)[s]
    <3>1. \A o \in Objects : d.attr[o].slot = s => o \notin T BY <1>8, <2>1
    <3>2. Prior(d, s) = Find(d, s) BY <1>5, <3>1 DEF Prior, Find
    <3>3. CASE Find(d, s) = {} BY <3>2, <3>3, Seen, Held0
    <3>4. CASE Find(d, s) # {}
      <4>1. PICK o : o \in Find(d, s) BY <3>4
      <4>2. o \in Objects /\ d.attr[o].slot = s BY <4>1 DEF Find
      <4>3. Visible(d)[s] = d.attr[o].val BY <4>1, Seen
      <4>4. Start(d)[s] = Former(d.attr[o]) BY <3>2, <4>1, Held0
      <4> QED BY <1>5, <3>1, <4>2, <4>3, <4>4
    <3> QED BY <3>3, <3>4
  <2>2. ASSUME NEW p \in delta.parts, p.slot = s
        PROVE  /\ p.kind = "addition" =>
                     Has(delta.parts, "removal", s) \/ Start(d)[s] = None
               /\ p.kind = "modification" => /\ Visible(d)[s] # None
                                             /\ p.val \in Values
                                             /\ Start(d)[s] = p.val
                                             /\ \A q \in delta.parts : q.slot = s => q = p
               /\ p.kind = "removal" =>
                     /\ Start(d)[s] = e.attr[p.obj].val
                     /\ Visible(d)[s] = None \/ Has(delta.parts, "addition", s)
    <3>1. PICK o \in T : p = PartOf(o, d.attr[o]) BY <1>7
    <3>2. o \in Objects /\ d.attr[o].slot = s /\ d.attr[o].on BY <1>5, <1>8, <1>9, <2>2, <3>1
    <3>3. \A q \in Objects : q # o /\ d.attr[q].on /\ d.attr[q].slot = s =>
             \/ d.attr[o].forgotten /\ New(d.attr[q])
             \/ d.attr[q].forgotten /\ New(d.attr[o])
      BY <1>4, <3>2 DEF Distinct
    <3>4. ASSUME p.kind = "addition"
          PROVE  Has(delta.parts, "removal", s) \/ Start(d)[s] = None
      <4>1. New(d.attr[o]) /\ ~d.attr[o].forgotten BY <1>8, <1>10, <3>1, <3>2, <3>4
      <4>2. CASE Prior(d, s) = {} BY <4>2, Held0
      <4>3. CASE Prior(d, s) # {}
        <5>1. PICK q : q \in Prior(d, s) BY <4>3
        <5>2. q \in Objects /\ d.attr[q].on /\ d.attr[q].slot = s /\ q # o
          BY <4>1, <5>1 DEF Prior
        <5>3. d.attr[q].forgotten BY <3>3, <4>1, <5>2
        <5>4. q \in T BY <1>5, <5>2, <5>3
        <5>5. PartOf(q, d.attr[q]) \in delta.parts /\ PartOf(q, d.attr[q]).kind = "removal"
              /\ PartOf(q, d.attr[q]).slot = s
          BY <1>8, <5>2, <5>3, <5>4
        <5> QED BY <5>5 DEF Has
      <4> QED BY <4>2, <4>3
    <3>5. ASSUME p.kind = "modification"
          PROVE  /\ Visible(d)[s] # None
                 /\ p.val \in Values
                 /\ Start(d)[s] = p.val
                 /\ \A q \in delta.parts : q.slot = s => q = p
      <4>1. ~d.attr[o].forgotten /\ ~New(d.attr[o]) /\ p.val = d.attr[o].backup
            /\ d.attr[o].backup # None
        BY <1>5, <1>8, <3>1, <3>2, <3>5
      <4>2. o \in Find(d, s) /\ o \in Prior(d, s) BY <3>2, <4>1 DEF Find, Prior
      <4>3. Visible(d)[s] \in Values BY <4>2, Seen
      <4>4. Start(d)[s] = p.val /\ Start(d)[s] \in Values BY <4>1, <4>2, Held0 DEF Former
      <4>5. ASSUME NEW q \in delta.parts, q.slot = s PROVE q = p
        <5>1. PICK u \in T : q = PartOf(u, d.attr[u]) BY <1>7
        <5>2. u \in Objects /\ d.attr[u].slot = s /\ d.attr[u].on BY <1>5, <1>8, <1>9, <4>5, <5>1
        <5>3. u = o BY <3>3, <4>1, <5>2
        <5> QED BY <3>1, <5>1, <5>3
      <4> QED BY <1>4, <4>3, <4>4, <4>5
    <3>6. ASSUME p.kind = "removal"
          PROVE  /\ Start(d)[s] = e.attr[p.obj].val
                 /\ Visible(d)[s] = None \/ Has(delta.parts, "addition", s)
      <4>1. d.attr[o].forgotten /\ ~New(d.attr[o]) /\ p.obj = o BY <1>5, <1>8, <1>10, <3>1, <3>2, <3>6
      <4>2. o \in Prior(d, s) BY <3>2, <4>1 DEF Prior
      <4>3. Start(d)[s] = Former(d.attr[o]) BY <4>2, Held0
      <4>4. e.attr[o].val = Former(d.attr[o]) BY <1>5, <3>2, <4>1
      <4>5. ASSUME Visible(d)[s] # None PROVE Has(delta.parts, "addition", s)
        <5>1. PICK q : q \in Find(d, s) BY <4>5, Seen
        <5>2. q \in Objects /\ d.attr[q].on /\ d.attr[q].slot = s /\ ~d.attr[q].forgotten
          BY <5>1 DEF Find
        <5>3. New(d.attr[q]) BY <3>3, <4>1, <5>2
        <5>4. q \in T BY <1>6, <5>2, <5>3
        <5>5. PartOf(q, d.attr[q]) \in delta.parts /\ PartOf(q, d.attr[q]).kind = "addition"
              /\ PartOf(q, d.attr[q]).slot = s
          BY <1>8, <5>2, <5>3, <5>4
        <5> QED BY <5>5 DEF Has
      <4> QED BY <4>1, <4>3, <4>4, <4>5
    <3> QED BY <3>4, <3>5, <3>6
  <2> QED BY <2>1, <2>2 DEF Here
<1>22. Fits(e, delta.parts, Visible(d), Start(d)) BY <1>20, <1>21 DEF Fits
<1>23. delta.parts = {} <=> T = {} BY <1>2
<1>24. \A o \in Objects : e.attr[o].slot = d.attr[o].slot BY <1>5
<1>25. delta.parts = {} => delta = NullDelta /\ e.time = d.time BY <1>2, <1>23
<1>26. delta.parts # {} => delta.begin = d.begin /\ delta.end = e.time /\ delta.back = d.was
  BY <1>2, <1>23
<1>27. /\ e \in Fine(S) /\ e.transaction = 0 /\ e.allow = d.allow /\ delta \in Stored(S)
       /\ Visible(e) = Visible(d)
       /\ \A o \in Objects : e.attr[o].slot = d.attr[o].slot
       /\ \A o \in Objects : ~d.attr[o].on => e.attr[o] = d.attr[o]
       /\ \A o \in Mentions(delta.parts) :
             o \in Objects /\ d.attr[o].on /\ d.attr[o].forgotten
       /\ \A p \in delta.parts : p.kind # "modification" =>
             \E o \in Objects : /\ d.attr[o].on /\ d.attr[o].slot = p.slot
                                /\ d.attr[o].forgotten \/ New(d.attr[o])
       /\ Fits(e, delta.parts, Visible(d), Start(d))
       /\ Whole(e, delta.parts)
       /\ delta.parts = {} => delta = NullDelta /\ e.time = d.time
       /\ delta.parts # {} => delta.begin = d.begin /\ delta.end = e.time
                              /\ delta.back = d.was
  BY <1>2, <1>3, <1>13, <1>14, <1>15, <1>17, <1>18, <1>19, <1>22, <1>24, <1>25, <1>26
<1> QED BY <1>27, Zenon DEF e, delta

-----------------------------------------------------------------------------
(* Opening, undoing and aborting.                                            *)

LEMMA StartContents ==
    ASSUME NEW S \in SUBSET Objects, NEW d \in Fine(S)
    PROVE  Start(d) \in Contents
<1>1. \A s \in Slots : (IF Prior(d, s) = {} THEN None
                        ELSE Former(d.attr[CHOOSE o \in Prior(d, s) : TRUE])) \in Values \cup {None}
  <2> TAKE s \in Slots
  <2>1. PICK c : c = CHOOSE o \in Prior(d, s) : TRUE OBVIOUS
  <2>2. Prior(d, s) # {} => c \in Objects BY <2>1 DEF Prior
  <2>3. c \in Objects => Former(d.attr[c]) \in Values \cup {None}
    BY FineFacts, FrameFacts DEF Former, Attribute
  <2> QED BY <2>1, <2>2, <2>3
<1> QED BY <1>1 DEF Start, Contents

LEMMA SameContents ==
    ASSUME NEW c \in Contents, NEW b \in Contents, \A s \in Slots : c[s] = b[s]
    PROVE  c = b
BY DEF Contents

\* What a delta refers to is what matters of the framework.
LEMMA FitsOver ==
    ASSUME NEW d, NEW e, NEW parts, NEW c, NEW back, Fits(d, parts, c, back), Whole(d, parts),
           \A o \in Mentions(parts) : e.attr[o] = d.attr[o]
    PROVE  Fits(e, parts, c, back) /\ Whole(e, parts)
<1>1. \A p \in parts : p.kind = "removal" => e.attr[p.obj] = d.attr[p.obj]
  BY DEF Mentions, Removals
<1>2. Whole(e, parts) BY <1>1 DEF Whole
<1>3. ASSUME NEW s \in Slots PROVE Here(e, parts, c, back, s)
  <2>1. Here(d, parts, c, back, s) BY DEF Fits
  <2> QED BY <1>1, <2>1 DEF Here
<1> QED BY <1>2, <1>3 DEF Fits

LEMMA OpenEffect ==
    ASSUME NEW S \in SUBSET Objects, NEW d \in Fine(S)
    PROVE  LET e == OpenTransaction(d) IN
           /\ e \in Fine(S) /\ e.attr = d.attr /\ e.transaction = 1
           /\ e.allow = d.allow /\ e.time = d.time /\ e.begin = d.time /\ e.was = Visible(d)
           /\ Visible(e) = Visible(d) /\ Start(e) = Start(d)
<1>1. PICK e : e = OpenTransaction(d) OBVIOUS
<1>2. /\ e.attr = d.attr /\ e.transaction = 1 /\ e.fault = d.fault
      /\ e.allow = d.allow /\ e.time = d.time /\ e.begin = d.time /\ e.was = Visible(d)
  BY <1>1, FineFacts, FrameFacts DEF OpenTransaction, Framework
<1>3. e \in Frames(S) BY <1>1, FineFacts, OpenFrame
<1>4. e \in Fine(S) /\ Visible(e) = Visible(d) /\ Start(e) = Start(d)
  BY <1>2, <1>3, SameAttributes
<1> QED BY <1>1, <1>2, <1>4

LEMMA TimeEffect ==
    ASSUME NEW S \in SUBSET Objects, NEW d \in Fine(S), NEW time \in Nat
    PROVE  LET e == [d EXCEPT !.time = time] IN
           /\ e \in Fine(S) /\ e.attr = d.attr /\ e.transaction = d.transaction
           /\ e.allow = d.allow /\ e.time = time /\ e.begin = d.begin /\ e.was = d.was
           /\ Visible(e) = Visible(d) /\ Start(e) = Start(d)
<1>1. PICK e : e = [d EXCEPT !.time = time] OBVIOUS
<1>2. /\ e.attr = d.attr /\ e.transaction = d.transaction /\ e.fault = d.fault
      /\ e.allow = d.allow /\ e.time = time /\ e.begin = d.begin /\ e.was = d.was
  BY <1>1, FineFacts, FrameFacts DEF Framework
<1>3. e \in Frames(S) BY <1>1, FineFacts, TimeFrame
<1>4. e \in Fine(S) /\ Visible(e) = Visible(d) /\ Start(e) = Start(d)
  BY <1>2, <1>3, SameAttributes
<1> QED BY <1>1, <1>2, <1>4

\* The delta of an undo takes back what it did, and refers to what it removed.
LEMMA UndoEffect ==
    ASSUME NEW S \in SUBSET Objects, NEW d \in Fine(S), d.transaction = 0, d.allow,
           NEW delta \in Stored(S), Fits(d, delta.parts, Visible(d), delta.back),
           Whole(d, delta.parts)
    PROVE  LET e == Undo(d, delta).data
               x == Undo(d, delta).delta IN
           /\ e \in Fine(S) /\ e.transaction = 0 /\ e.allow = d.allow /\ x \in Stored(S)
           /\ e.time = delta.begin /\ Visible(e) = delta.back
           /\ x.begin = delta.end /\ x.end = delta.begin /\ x.back = Visible(d)
           /\ Fits(e, x.parts, delta.back, Visible(d)) /\ Whole(e, x.parts)
           /\ \A o \in Objects : e.attr[o].slot = d.attr[o].slot
           /\ \A o \in Objects : ~d.attr[o].on /\ o \notin Mentions(delta.parts) =>
                                    e.attr[o] = d.attr[o]
           /\ \A o \in Mentions(x.parts) : o \in Objects /\ d.attr[o].on
<1>1. /\ delta \in Delta /\ IsFiniteSet(delta.parts) /\ delta.parts \in SUBSET Parts(S)
      /\ delta.back \in Contents /\ delta.begin \in Nat /\ delta.end \in Nat
  BY DEF Stored, Delta
<1>2. PICK b : b = OpenTransaction(d) OBVIOUS
<1>3. /\ b \in Fine(S) /\ b.attr = d.attr /\ b.transaction = 1 /\ b.allow = d.allow
      /\ Visible(b) = Visible(d) /\ Start(b) = Visible(d)
  BY <1>2, OpenEffect, CleanStart
<1>4. Fits(b, delta.parts, Visible(b), delta.back) /\ Whole(b, delta.parts)
  BY <1>3, FitsOver
<1>4a. b.allow BY <1>3
<1>4b. PICK parts \in SUBSET Parts(S) : parts = delta.parts BY <1>1
<1>4c. PICK back \in Contents : back = delta.back BY <1>1
<1>4d. IsFiniteSet(parts) /\ Fits(b, parts, Visible(b), back) /\ Whole(b, parts)
  BY <1>1, <1>4, <1>4b, <1>4c
<1>5. PICK a : a = Apply(b, parts) OBVIOUS
<1>6. /\ a \in Fine(S) /\ Aside(b, a) /\ Visible(a) = back
      /\ b.transaction = 1 => Start(a) = Start(b)
      /\ \A o \in Objects : a.attr[o].slot = b.attr[o].slot
      /\ \A o \in Objects : ~b.attr[o].on =>
            /\ ~a.attr[o].forgotten
            /\ a.attr[o].val = b.attr[o].val
            /\ o \notin Mentions(parts) => a.attr[o] = b.attr[o]
  BY <1>3, <1>4a, <1>4d, <1>5, ApplyEffect
<1>7. a.transaction = 1 /\ a.allow = d.allow /\ Start(a) = Visible(d)
  BY <1>3, <1>6 DEF Aside
<1>7a. a \in Fine(S) BY <1>6
<1>8. PICK f : f = Commit(a).data OBVIOUS
<1>9. PICK y : y = Commit(a).delta OBVIOUS
<1>10. /\ f \in Fine(S) /\ f.transaction = 0 /\ f.allow = a.allow /\ y \in Stored(S)
       /\ Visible(f) = Visible(a)
       /\ \A o \in Objects : f.attr[o].slot = a.attr[o].slot
       /\ \A o \in Objects : ~a.attr[o].on => f.attr[o] = a.attr[o]
       /\ \A o \in Mentions(y.parts) : o \in Objects /\ a.attr[o].on /\ a.attr[o].forgotten
       /\ Fits(f, y.parts, Visible(a), Start(a))
       /\ Whole(f, y.parts)
  BY <1>7, <1>7a, <1>8, <1>9, CommitEffect
<1>10a. PICK time \in Nat : time = delta.begin BY <1>1
<1>11. PICK e : e = [f EXCEPT !.time = time] OBVIOUS
<1>12. /\ e \in Fine(S) /\ e.attr = f.attr /\ e.transaction = 0
       /\ e.allow = f.allow /\ e.time = time /\ Visible(e) = Visible(f)
  BY <1>10, <1>11, TimeEffect
<1>12a. e.allow = d.allow /\ e.time = delta.begin /\ Visible(e) = delta.back
  BY <1>4c, <1>6, <1>7, <1>10, <1>10a, <1>12
<1>13. PICK x : x = [y EXCEPT !.begin = delta.end, !.end = delta.begin, !.back = Visible(d)]
  OBVIOUS
<1>14. /\ x.parts = y.parts /\ x.begin = delta.end /\ x.end = delta.begin /\ x.back = Visible(d)
  BY <1>10, <1>13 DEF Stored, Delta
<1>15. x \in Stored(S)
  <2>1. d \in Frames(S) BY FineFacts
  <2>2. Undo(d, delta).delta \in Stored(S) BY <2>1, UndoFacts
  <2> QED BY <1>2, <1>4b, <1>5, <1>9, <1>13, <2>2 DEF Undo, Undone
<1>16. Undo(d, delta) = [data |-> e, delta |-> x]
  BY <1>2, <1>4b, <1>5, <1>8, <1>9, <1>10a, <1>11, <1>13 DEF Undo, Undone
<1>17. Fits(e, x.parts, delta.back, Visible(d)) /\ Whole(e, x.parts)
  BY <1>4c, <1>6, <1>7, <1>10, <1>12, <1>14, FitsOver
<1>18. \A o \in Objects : e.attr[o].slot = d.attr[o].slot BY <1>3, <1>6, <1>10, <1>12
<1>19. \A o \in Objects : ~d.attr[o].on /\ o \notin Mentions(delta.parts) => e.attr[o] = d.attr[o]
  BY <1>3, <1>4b, <1>6, <1>10, <1>12
<1>20. \A o \in Mentions(x.parts) : o \in Objects /\ d.attr[o].on
  BY <1>3, <1>6, <1>10, <1>14
<1>21. Undo(d, delta).data = e /\ Undo(d, delta).delta = x BY <1>16
<1> QED BY <1>12, <1>12a, <1>14, <1>15, <1>17, <1>18, <1>19, <1>20, <1>21

LEMMA AbortEffect ==
    ASSUME NEW S \in SUBSET Objects, NEW d \in Fine(S), d.transaction = 1, d.allow,
           d.begin = d.time
    PROVE  LET e == Abort(d) IN
           /\ e \in Fine(S) /\ e.transaction = 0 /\ e.allow = d.allow
           /\ e.time = d.time /\ Visible(e) = Start(d)
           /\ \A o \in Objects : e.attr[o].slot = d.attr[o].slot
           /\ \A o \in Objects : ~d.attr[o].on => e.attr[o] = d.attr[o]
<1>1. PICK f : f = Commit(d).data OBVIOUS
<1>2. PICK y : y = Commit(d).delta OBVIOUS
<1>3. /\ f \in Fine(S) /\ f.transaction = 0 /\ f.allow = d.allow /\ y \in Stored(S)
      /\ Visible(f) = Visible(d)
      /\ \A o \in Objects : f.attr[o].slot = d.attr[o].slot
      /\ \A o \in Objects : ~d.attr[o].on => f.attr[o] = d.attr[o]
      /\ \A o \in Mentions(y.parts) : o \in Objects /\ d.attr[o].on /\ d.attr[o].forgotten
      /\ Fits(f, y.parts, Visible(d), Start(d))
      /\ Whole(f, y.parts)
      /\ y.parts = {} => y = NullDelta /\ f.time = d.time
      /\ y.parts # {} => y.begin = d.begin /\ y.end = f.time /\ y.back = d.was
  BY <1>1, <1>2, CommitEffect
<1>4. Start(d) \in Contents /\ Visible(d) \in Contents
  BY StartContents, FineFacts, FrameFacts, VisibleContents
<1>5. Abort(d) = IF y.end # f.time THEN f ELSE [Apply(f, y.parts) EXCEPT !.time = y.begin]
  BY <1>1, <1>2 DEF Abort, Aborted, IsApplicable
<1>6. CASE y.end # f.time
  <2>1. y.parts = {} BY <1>3, <1>6
  <2>2. \A s \in Slots : Start(d)[s] = Visible(d)[s] BY <1>3, <2>1 DEF Fits, Here
  <2>3. Start(d) = Visible(d) BY <1>4, <2>2, SameContents
  <2> QED BY <1>3, <1>5, <1>6, <2>1, <2>3
<1>7. CASE y.end = f.time
  <2>1. PICK parts \in SUBSET Parts(S) : parts = y.parts BY <1>3 DEF Stored
  <2>2. PICK back \in Contents : back = Start(d) BY <1>4
  <2>3. IsFiniteSet(parts) BY <1>3, <2>1 DEF Stored
  <2>4. f.allow /\ Fits(f, parts, Visible(f), back) /\ Whole(f, parts)
    BY <1>3, <2>1, <2>2
  <2>5. PICK a : a = Apply(f, parts) OBVIOUS
  <2>6. /\ a \in Fine(S) /\ Aside(f, a) /\ Visible(a) = back
        /\ \A o \in Objects : a.attr[o].slot = f.attr[o].slot
        /\ \A o \in Objects : ~f.attr[o].on =>
              /\ ~a.attr[o].forgotten
              /\ a.attr[o].val = f.attr[o].val
              /\ o \notin Mentions(parts) => a.attr[o] = f.attr[o]
    BY <1>3, <2>3, <2>4, <2>5, ApplyEffect
  <2>7. y.parts # {} => y.begin = d.time BY <1>3
  <2>8. y.parts = {} => y.begin = d.time BY <1>3, <1>7 DEF NullDelta
  <2>9. PICK time \in Nat : time = y.begin BY <1>3 DEF Stored, Delta
  <2>10. PICK e : e = [a EXCEPT !.time = time] OBVIOUS
  <2>11. /\ e \in Fine(S) /\ e.attr = a.attr /\ e.transaction = a.transaction
         /\ e.allow = a.allow /\ e.time = time /\ Visible(e) = Visible(a)
    BY <2>6, <2>10, TimeEffect
  <2>12. Abort(d) = e BY <1>5, <1>7, <2>1, <2>5, <2>9, <2>10
  <2>13. time = d.time BY <2>7, <2>8, <2>9
  <2>14. \A o \in Objects : ~d.attr[o].on => a.attr[o] = d.attr[o]
    <3> SUFFICES ASSUME NEW o \in Objects, ~d.attr[o].on PROVE a.attr[o] = d.attr[o]
      OBVIOUS
    <3>1. o \notin Mentions(parts) BY <1>3, <2>1
    <3>2. f.attr[o] = d.attr[o] BY <1>3
    <3> QED BY <2>6, <3>1, <3>2
  <2>15. e.transaction = 0 /\ e.allow = d.allow BY <1>3, <2>6, <2>11 DEF Aside
  <2>16. \A o \in Objects : e.attr[o].slot = d.attr[o].slot BY <1>3, <2>6, <2>11
  <2> QED BY <2>2, <2>6, <2>11, <2>12, <2>13, <2>14, <2>15, <2>16
<1> QED BY <1>6, <1>7

-----------------------------------------------------------------------------
(* Stacks of deltas.                                                         *)

\* The delta takes what the document holds, at its time, to its own back.
Leads(d, x, c, t) == x.end = t /\ Fits(d, x.parts, c, x.back) /\ Whole(d, x.parts)

\* The first delta applies first, or the last one.
Down(d, f, c, t) ==
    /\ Len(f) # 0 => Leads(d, f[1], c, t)
    /\ \A i \in 1 .. Len(f) : i + 1 =< Len(f) => Leads(d, f[i + 1], f[i].back, f[i].begin)
Up(d, f, c, t) ==
    /\ Len(f) # 0 => Leads(d, f[Len(f)], c, t)
    /\ \A i \in 1 .. Len(f) : i + 1 =< Len(f) => Leads(d, f[i], f[i + 1].back, f[i + 1].begin)

\* The objects that deltas will attach again, each in one place.
Named(f) == UNION {Mentions(f[i].parts) : i \in 1 .. Len(f)}
Apart(f) == \A i, j \in 1 .. Len(f) :
                i # j => Mentions(f[i].parts) \cap Mentions(f[j].parts) = {}

Twin(x, y) == x.parts = y.parts /\ x.back = y.back /\ x.begin = y.begin /\ x.end = y.end

\* But for marks, the deltas of g are the deltas of f after the first k.
Slice(g, f, k) ==
    /\ Len(g) \in Nat /\ Len(f) \in Nat /\ k \in Nat /\ Len(g) + k =< Len(f)
    /\ \A i \in 1 .. Len(g) : Twin(g[i], f[i + k])

\* The deltas of g are those of f and x, in place e.
Grown(g, f, x, e) ==
    /\ Len(f) \in Nat /\ Len(g) = Len(f) + 1 /\ Twin(g[e], x)
    /\ \/ e = 1 /\ Slice(f, g, 1)
       \/ e = Len(g) /\ Slice(f, g, 0)

LEMMA SliceDelta ==
    ASSUME NEW g, NEW f, NEW k, Slice(g, f, k), NEW i \in 1 .. Len(g)
    PROVE  i + k \in 1 .. Len(f) /\ Twin(g[i], f[i + k])
BY DEF Slice

LEMMA LeadsTwin ==
    ASSUME NEW d, NEW x, NEW y, Twin(x, y), NEW c, NEW t, Leads(d, y, c, t)
    PROVE  Leads(d, x, c, t)
BY DEF Leads, Twin

LEMMA NamedSlice ==
    ASSUME NEW g, NEW f, NEW k, Slice(g, f, k)
    PROVE  /\ Named(g) \subseteq Named(f)
           /\ Apart(f) => Apart(g)
<1>1. \A i \in 1 .. Len(g) : i + k \in 1 .. Len(f) /\ g[i].parts = f[i + k].parts
  BY SliceDelta DEF Twin
<1>2. Named(g) \subseteq Named(f) BY <1>1 DEF Named
<1>3. ASSUME Apart(f), NEW i \in 1 .. Len(g), NEW j \in 1 .. Len(g), i # j
      PROVE  Mentions(g[i].parts) \cap Mentions(g[j].parts) = {}
  <2>1. i + k # j + k BY <1>3 DEF Slice
  <2> QED BY <1>1, <1>3, <2>1 DEF Apart
<1> QED BY <1>2, <1>3 DEF Apart

LEMMA NamedGrown ==
    ASSUME NEW g, NEW f, NEW x, NEW e, Grown(g, f, x, e)
    PROVE  /\ Named(g) \subseteq Named(f) \cup Mentions(x.parts)
           /\ Apart(f) /\ Mentions(x.parts) \cap Named(f) = {} => Apart(g)
<1>1. PICK k : /\ k \in {0, 1} /\ Slice(f, g, k) /\ Len(f) \in Nat /\ Len(g) = Len(f) + 1
               /\ e = IF k = 1 THEN 1 ELSE Len(g)
  BY DEF Grown
<1>2. \A i \in 1 .. Len(g) : i # e => /\ i - k \in 1 .. Len(f)
                                      /\ g[i].parts = f[i - k].parts
  <2> SUFFICES ASSUME NEW i \in 1 .. Len(g), i # e
               PROVE  i - k \in 1 .. Len(f) /\ g[i].parts = f[i - k].parts
    OBVIOUS
  <2>1. i - k \in 1 .. Len(f) BY <1>1
  <2>2. Twin(f[i - k], g[(i - k) + k]) BY <1>1, <2>1, SliceDelta
  <2>3. (i - k) + k = i BY <1>1
  <2> QED BY <2>1, <2>2, <2>3 DEF Twin
<1>3. g[e].parts = x.parts BY DEF Grown, Twin
<1>4. Named(g) \subseteq Named(f) \cup Mentions(x.parts) BY <1>2, <1>3 DEF Named
<1>5. ASSUME Apart(f), Mentions(x.parts) \cap Named(f) = {},
             NEW i \in 1 .. Len(g), NEW j \in 1 .. Len(g), i # j
      PROVE  Mentions(g[i].parts) \cap Mentions(g[j].parts) = {}
  <2>1. CASE i = e /\ j # e
    <3>1. Mentions(g[j].parts) \subseteq Named(f) BY <1>2, <2>1 DEF Named
    <3> QED BY <1>3, <1>5, <2>1, <3>1
  <2>2. CASE i # e /\ j = e
    <3>1. Mentions(g[i].parts) \subseteq Named(f) BY <1>2, <2>2 DEF Named
    <3> QED BY <1>3, <1>5, <2>2, <3>1
  <2>3. CASE i # e /\ j # e
    <3>1. i - k # j - k BY <1>1, <1>5
    <3> QED BY <1>2, <1>5, <2>3, <3>1 DEF Apart
  <2> QED BY <1>5, <2>1, <2>2, <2>3
<1> QED BY <1>4, <1>5 DEF Apart

LEMMA DownPrefix ==
    ASSUME NEW d, NEW f, NEW g, Slice(g, f, 0), NEW c, NEW t, Down(d, f, c, t)
    PROVE  Down(d, g, c, t)
<1>1. \A i \in 1 .. Len(g) : i \in 1 .. Len(f) /\ Twin(g[i], f[i])
  <2> SUFFICES ASSUME NEW i \in 1 .. Len(g) PROVE i \in 1 .. Len(f) /\ Twin(g[i], f[i])
    OBVIOUS
  <2>1. i + 0 = i BY DEF Slice
  <2> QED BY <2>1, SliceDelta
<1>2. Len(g) \in Nat /\ Len(f) \in Nat /\ Len(g) =< Len(f) BY DEF Slice
<1>3. Len(g) # 0 => Leads(d, g[1], c, t)
  <2>1. Len(g) # 0 => 1 \in 1 .. Len(g) /\ Len(f) # 0 BY <1>2
  <2> QED BY <1>1, <2>1, LeadsTwin DEF Down
<1>4. ASSUME NEW i \in 1 .. Len(g), i + 1 =< Len(g)
      PROVE  Leads(d, g[i + 1], g[i].back, g[i].begin)
  <2>1. i + 1 \in 1 .. Len(g) /\ i + 1 =< Len(f) BY <1>2, <1>4
  <2>2. Leads(d, f[i + 1], f[i].back, f[i].begin) BY <1>1, <2>1 DEF Down
  <2>3. Leads(d, g[i + 1], f[i].back, f[i].begin) BY <1>1, <2>1, <2>2, LeadsTwin
  <2> QED BY <1>1, <2>3 DEF Twin
<1> QED BY <1>3, <1>4 DEF Down

\* Without the delta that applies first.
LEMMA DownTail ==
    ASSUME NEW d, NEW f, NEW g, Slice(g, f, 1), Len(g) + 1 = Len(f), NEW c, NEW t,
           Down(d, f, c, t)
    PROVE  Leads(d, f[1], c, t) /\ Down(d, g, f[1].back, f[1].begin)
<1>1. \A i \in 1 .. Len(g) : i + 1 \in 1 .. Len(f) /\ Twin(g[i], f[i + 1]) BY SliceDelta
<1>2. Len(g) \in Nat /\ Len(f) \in Nat BY DEF Slice
<1>3. Leads(d, f[1], c, t)
  <2>1. Len(f) # 0 BY <1>2
  <2> QED BY <2>1 DEF Down
<1>4. Len(g) # 0 => Leads(d, g[1], f[1].back, f[1].begin)
  <2>1. Len(g) # 0 => 1 \in 1 .. Len(g) /\ 1 \in 1 .. Len(f) /\ 1 + 1 =< Len(f) BY <1>2
  <2>2. Len(g) # 0 => Leads(d, f[1 + 1], f[1].back, f[1].begin) BY <2>1 DEF Down
  <2> QED BY <1>1, <2>1, <2>2, LeadsTwin
<1>5. ASSUME NEW i \in 1 .. Len(g), i + 1 =< Len(g)
      PROVE  Leads(d, g[i + 1], g[i].back, g[i].begin)
  <2>1. i + 1 \in 1 .. Len(g) /\ i + 1 \in 1 .. Len(f) /\ (i + 1) + 1 =< Len(f) BY <1>2, <1>5
  <2>2. Leads(d, f[(i + 1) + 1], f[i + 1].back, f[i + 1].begin) BY <2>1 DEF Down
  <2>3. Leads(d, g[i + 1], f[i + 1].back, f[i + 1].begin) BY <1>1, <2>1, <2>2, LeadsTwin
  <2> QED BY <1>1, <2>3 DEF Twin
<1> QED BY <1>3, <1>4, <1>5 DEF Down

LEMMA DownGrown ==
    ASSUME NEW d, NEW f, NEW g, NEW x, Grown(g, f, x, 1), Slice(f, g, 1), NEW c, NEW t,
           Leads(d, x, c, t), Down(d, f, x.back, x.begin)
    PROVE  Down(d, g, c, t)
<1>1. \A i \in 1 .. Len(f) : i + 1 \in 1 .. Len(g) /\ Twin(f[i], g[i + 1]) BY SliceDelta
<1>2. Len(f) \in Nat /\ Len(g) = Len(f) + 1 /\ Twin(g[1], x) BY DEF Grown
<1>3. Leads(d, g[1], c, t) BY <1>2, LeadsTwin
<1>4. ASSUME NEW i \in 1 .. Len(g), i + 1 =< Len(g)
      PROVE  Leads(d, g[i + 1], g[i].back, g[i].begin)
  <2>1. i \in 1 .. Len(f) BY <1>2, <1>4
  <2>2. Twin(g[i + 1], f[i]) BY <1>1, <2>1 DEF Twin
  <2>3. CASE i = 1
    <3>1. Leads(d, f[i], x.back, x.begin) BY <1>2, <2>1, <2>3 DEF Down
    <3>2. Leads(d, g[i + 1], x.back, x.begin) BY <2>2, <3>1, LeadsTwin
    <3> QED BY <1>2, <2>3, <3>2 DEF Twin
  <2>4. CASE i # 1
    <3>1. PICK j \in 1 .. Len(f) : j = i - 1 BY <1>2, <2>1, <2>4
    <3>2. j + 1 = i /\ j + 1 =< Len(f) BY <2>1, <3>1
    <3>3. Leads(d, f[i], f[j].back, f[j].begin) BY <3>2 DEF Down
    <3>4. Leads(d, g[i + 1], f[j].back, f[j].begin) BY <2>2, <3>3, LeadsTwin
    <3>5. Twin(f[j], g[i]) BY <1>1, <3>2
    <3> QED BY <3>4, <3>5 DEF Twin
  <2> QED BY <2>3, <2>4
<1> QED BY <1>3, <1>4 DEF Down

\* Without some of the deltas that apply last.
LEMMA UpSuffix ==
    ASSUME NEW d, NEW f, NEW g, NEW k, Slice(g, f, k), Len(g) + k = Len(f), NEW c, NEW t,
           Up(d, f, c, t)
    PROVE  Up(d, g, c, t)
<1>1. \A i \in 1 .. Len(g) : i + k \in 1 .. Len(f) /\ Twin(g[i], f[i + k]) BY SliceDelta
<1>2. Len(g) \in Nat /\ Len(f) \in Nat /\ k \in Nat BY DEF Slice
<1>3. Len(g) # 0 => Leads(d, g[Len(g)], c, t)
  <2>1. Len(g) # 0 => Len(g) \in 1 .. Len(g) /\ Len(f) # 0 BY <1>2
  <2> QED BY <1>1, <2>1, LeadsTwin DEF Up
<1>4. ASSUME NEW i \in 1 .. Len(g), i + 1 =< Len(g)
      PROVE  Leads(d, g[i], g[i + 1].back, g[i + 1].begin)
  <2>1. i + 1 \in 1 .. Len(g) /\ i + k \in 1 .. Len(f) /\ (i + k) + 1 =< Len(f)
        /\ (i + 1) + k = (i + k) + 1
    BY <1>2, <1>4
  <2>2. Leads(d, f[i + k], f[(i + k) + 1].back, f[(i + k) + 1].begin) BY <2>1 DEF Up
  <2>3. Leads(d, g[i], f[(i + k) + 1].back, f[(i + k) + 1].begin) BY <1>1, <2>2, LeadsTwin
  <2>4. Twin(g[i + 1], f[(i + k) + 1]) BY <1>1, <2>1
  <2> QED BY <2>3, <2>4 DEF Twin
<1> QED BY <1>3, <1>4 DEF Up

\* Without the deltas that apply first, but for those of g.
LEMMA UpPrefix ==
    ASSUME NEW d, NEW f, NEW g, Slice(g, f, 0), NEW n, n = Len(g) + 1, n =< Len(f),
           NEW c, NEW t, Up(d, f, c, t)
    PROVE  Up(d, g, f[n].back, f[n].begin)
<1>1. \A i \in 1 .. Len(g) : i \in 1 .. Len(f) /\ Twin(g[i], f[i])
  <2> SUFFICES ASSUME NEW i \in 1 .. Len(g) PROVE i \in 1 .. Len(f) /\ Twin(g[i], f[i])
    OBVIOUS
  <2>1. i + 0 = i BY DEF Slice
  <2> QED BY <2>1, SliceDelta
<1>2. Len(g) \in Nat /\ Len(f) \in Nat BY DEF Slice
<1>3. \A i \in 1 .. Len(g) : i + 1 =< Len(f) /\ Leads(d, f[i], f[i + 1].back, f[i + 1].begin)
  BY <1>1, <1>2 DEF Up
<1>4. \A i \in 1 .. Len(g) : Leads(d, g[i], f[i + 1].back, f[i + 1].begin)
  BY <1>1, <1>3, LeadsTwin
<1>5. Len(g) # 0 => Len(g) \in 1 .. Len(g) BY <1>2
<1>6. ASSUME NEW i \in 1 .. Len(g), i + 1 =< Len(g)
      PROVE  Leads(d, g[i], g[i + 1].back, g[i + 1].begin)
  <2>1. i + 1 \in 1 .. Len(g) BY <1>2, <1>6
  <2> QED BY <1>1, <1>4, <2>1 DEF Twin
<1> QED BY <1>4, <1>5, <1>6 DEF Up

LEMMA UpGrown ==
    ASSUME NEW d, NEW f, NEW g, NEW x, Len(g) = Len(f) + 1, Twin(g[Len(g)], x),
           Slice(f, g, 0), NEW c, NEW t,
           Leads(d, x, c, t), Up(d, f, x.back, x.begin)
    PROVE  Up(d, g, c, t)
<1>1. \A i \in 1 .. Len(f) : i \in 1 .. Len(g) /\ Twin(f[i], g[i])
  <2> SUFFICES ASSUME NEW i \in 1 .. Len(f) PROVE i \in 1 .. Len(g) /\ Twin(f[i], g[i])
    OBVIOUS
  <2>1. i + 0 = i BY DEF Slice
  <2> QED BY <2>1, SliceDelta
<1>2. Len(f) \in Nat /\ Len(g) \in Nat BY DEF Slice
<1>3. Leads(d, g[Len(g)], c, t) BY LeadsTwin
<1>4. ASSUME NEW i \in 1 .. Len(g), i + 1 =< Len(g)
      PROVE  Leads(d, g[i], g[i + 1].back, g[i + 1].begin)
  <2>1. i \in 1 .. Len(f) BY <1>2, <1>4
  <2>2. Twin(g[i], f[i]) BY <1>1, <2>1 DEF Twin
  <2>3. CASE i = Len(f)
    <3>1. Leads(d, f[i], x.back, x.begin) BY <1>2, <2>1, <2>3 DEF Up
    <3>2. Leads(d, g[i], x.back, x.begin) BY <2>2, <3>1, LeadsTwin
    <3> QED BY <2>3, <3>2 DEF Twin
  <2>4. CASE i # Len(f)
    <3>1. i + 1 \in 1 .. Len(f) /\ i + 1 =< Len(f) BY <1>2, <2>1, <2>4
    <3>2. Leads(d, f[i], f[i + 1].back, f[i + 1].begin) BY <2>1, <3>1 DEF Up
    <3>3. Leads(d, g[i], f[i + 1].back, f[i + 1].begin) BY <2>2, <3>2, LeadsTwin
    <3>4. Twin(f[i + 1], g[i + 1]) BY <1>1, <3>1
    <3> QED BY <3>3, <3>4 DEF Twin
  <2> QED BY <2>3, <2>4
<1> QED BY <1>3, <1>4 DEF Up

-----------------------------------------------------------------------------
(* One delta for two.                                                        *)

\* Of the slots of the newer parts, those that the older ones would not add
\* to were only modified.
Blends(older, newer) ==
    \A p \in older, q \in newer :
        p.kind # "addition" /\ p.slot = q.slot => q.kind = "modification"

Blended(older, newer) == older \cup {p \in newer : \A q \in older : q.slot # p.slot}

LEMMA BlendedHere ==
    ASSUME NEW d, NEW S, NEW A \in SUBSET Parts(S), NEW B \in SUBSET Parts(S), Blends(A, B),
           NEW c, NEW b, NEW a, NEW s \in Slots,
           Here(d, A, b, a, s), Here(d, B, c, b, s)
    PROVE  Here(d, Blended(A, B), c, a, s)
<1>1. None \notin Values BY TreeAssumption
<1>2. PICK P : P = Blended(A, B) OBVIOUS
<1>3. CASE \A p \in A : p.slot # s
  <2>1. a[s] = b[s] BY <1>3 DEF Here
  <2>2. \A p : p.slot = s => (p \in P <=> p \in B) BY <1>2, <1>3 DEF Blended
  <2>3. \A kind : Has(P, kind, s) <=> Has(B, kind, s) BY <2>2 DEF Has
  <2>4. (\A p \in P : p.slot # s) => (\A p \in B : p.slot # s) BY <2>2
  <2> QED BY <1>2, <2>1, <2>2, <2>3, <2>4 DEF Here
<1>4. CASE \E p \in A : p.slot = s
  <2>1. \A p : p.slot = s => (p \in P <=> p \in A) BY <1>2, <1>4 DEF Blended
  <2>2. \A kind : Has(P, kind, s) <=> Has(A, kind, s) BY <2>1 DEF Has
  <2>3. \E p \in P : p.slot = s BY <1>4, <2>1
  <2>4. ASSUME NEW p \in P, p.slot = s
        PROVE  /\ p.kind = "addition" => Has(P, "removal", s) \/ a[s] = None
               /\ p.kind = "modification" => /\ c[s] # None
                                             /\ p.val \in Values
                                             /\ a[s] = p.val
                                             /\ \A q \in P : q.slot = s => q = p
               /\ p.kind = "removal" => /\ a[s] = d.attr[p.obj].val
                                        /\ c[s] = None \/ Has(P, "addition", s)
    <3>1. p \in A BY <2>1, <2>4
    <3>2. p.kind \in {"addition", "modification", "removal"} BY <3>1 DEF Parts, AttributeDelta
    <3>3. CASE p.kind = "addition" BY <2>2, <2>4, <3>1, <3>3 DEF Here
    <3>4. CASE p.kind # "addition"
      <4>1. \A q \in B : q.slot = s => q.kind = "modification" BY <2>4, <3>1, <3>4 DEF Blends
      <4>2. \A q \in B : q.slot = s => c[s] # None /\ b[s] # None BY <1>1, <4>1 DEF Here
      <4>3. (\A q \in B : q.slot # s) => b[s] = c[s] BY DEF Here
      <4>4. CASE p.kind = "modification"
        <5>1. /\ b[s] # None /\ p.val \in Values /\ a[s] = p.val
              /\ \A q \in A : q.slot = s => q = p
          BY <2>4, <3>1, <4>4 DEF Here
        <5>2. c[s] # None BY <4>2, <4>3, <5>1
        <5> QED BY <2>1, <4>4, <5>1, <5>2
      <4>5. CASE p.kind = "removal"
        <5>1. a[s] = d.attr[p.obj].val /\ (b[s] = None \/ Has(A, "addition", s))
          BY <2>4, <3>1, <4>5 DEF Here
        <5>2. c[s] = None \/ Has(A, "addition", s) BY <4>2, <4>3, <5>1
        <5> QED BY <2>2, <4>5, <5>1, <5>2
      <4> QED BY <3>2, <3>4, <4>4, <4>5
    <3> QED BY <3>3, <3>4
  <2> QED BY <1>2, <2>3, <2>4 DEF Here
<1> QED BY <1>3, <1>4

LEMMA BlendedFits ==
    ASSUME NEW d, NEW S, NEW A \in SUBSET Parts(S), NEW B \in SUBSET Parts(S), Blends(A, B),
           NEW c, NEW b, NEW a, Fits(d, A, b, a), Fits(d, B, c, b),
           Whole(d, A), Whole(d, B)
    PROVE  Fits(d, Blended(A, B), c, a) /\ Whole(d, Blended(A, B))
<1>1. \A s \in Slots : Here(d, A, b, a, s) /\ Here(d, B, c, b, s) BY DEF Fits
<1>2. \A s \in Slots : Here(d, Blended(A, B), c, a, s) BY <1>1, BlendedHere
<1>3. Uniform(A) /\ Uniform(B) BY DEF Fits
<1>4. Uniform(Blended(A, B)) BY <1>3 DEF Uniform, Blended
<1>5. Whole(d, Blended(A, B)) BY DEF Whole, Blended
<1> QED BY <1>2, <1>4, <1>5 DEF Fits

\* A delta on its way from what a commit left to a compound delta or the undos;
\* an empty one changes nothing.
Flies(d, x, c, t, b, u) ==
    IF x.parts = {} THEN c = b /\ t = u ELSE Leads(d, x, c, t) /\ x.back = b /\ x.begin = u

LEMMA AppendedFacts ==
    ASSUME NEW S \in SUBSET Objects, NEW a \in Stored(S), NEW x \in Stored(S)
    PROVE  LET m == AppendDelta(a, x) IN
           /\ m \in Stored(S) /\ m.back = a.back /\ m.begin = a.begin
           /\ x.parts = {} => m = a
           /\ x.parts # {} => m.parts = Blended(a.parts, x.parts) /\ m.end = x.end
           /\ m.parts \subseteq a.parts \cup x.parts
           /\ m.parts = {} => a.parts = {} /\ x.parts = {}
           /\ Mentions(m.parts) \subseteq Mentions(a.parts) \cup Mentions(x.parts)
<1>1. PICK m : m = AppendDelta(a, x) OBVIOUS
<1>2. m \in Stored(S) BY <1>1, AppendDeltaStored
<1>3. a \in Delta BY DEF Stored
<1>4. PICK more : more = {p \in x.parts : \A q \in a.parts : q.slot # p.slot} OBVIOUS
<1>5. x.parts = {} => m = a BY <1>1 DEF AppendDelta
<1>6. x.parts # {} => m = [a EXCEPT !.end = x.end, !.parts = a.parts \cup more]
  BY <1>1, <1>3, <1>4 DEF AppendDelta, Delta
<1>7. x.parts # {} => m.parts = a.parts \cup more /\ m.end = x.end
                      /\ m.back = a.back /\ m.begin = a.begin
  BY <1>3, <1>6 DEF Delta
<1>8. x.parts # {} => m.parts = Blended(a.parts, x.parts) BY <1>4, <1>7 DEF Blended
<1>9. m.parts \subseteq a.parts \cup x.parts BY <1>4, <1>5, <1>7
<1>10. m.parts = {} => a.parts = {} /\ x.parts = {} BY <1>4, <1>5, <1>7
<1>11. Mentions(m.parts) \subseteq Mentions(a.parts) \cup Mentions(x.parts)
  BY <1>9 DEF Mentions, Removals
<1> QED BY <1>1, <1>2, <1>5, <1>7, <1>8, <1>9, <1>10, <1>11

LEMMA AppendedLeads ==
    ASSUME NEW S \in SUBSET Objects, NEW a \in Stored(S), NEW x \in Stored(S), NEW d,
           NEW c, NEW t, NEW b, NEW u, Leads(d, a, b, u), Flies(d, x, c, t, b, u),
           Blends(a.parts, x.parts)
    PROVE  Leads(d, AppendDelta(a, x), c, t)
<1>1. PICK m : m = AppendDelta(a, x) OBVIOUS
<1>2. CASE x.parts = {} BY <1>2, AppendedFacts DEF Flies
<1>3. CASE x.parts # {}
  <2>1. m.parts = Blended(a.parts, x.parts) /\ m.end = x.end /\ m.back = a.back
    BY <1>1, <1>3, AppendedFacts
  <2>2. Leads(d, x, c, t) /\ x.back = b BY <1>3 DEF Flies
  <2>3. a.parts \in SUBSET Parts(S) /\ x.parts \in SUBSET Parts(S) BY DEF Stored
  <2>4. Fits(d, a.parts, b, a.back) /\ Fits(d, x.parts, c, b)
        /\ Whole(d, a.parts) /\ Whole(d, x.parts) /\ x.end = t
    BY <2>2 DEF Leads
  <2>5. Fits(d, Blended(a.parts, x.parts), c, a.back) /\ Whole(d, Blended(a.parts, x.parts))
    BY <2>3, <2>4, BlendedFits
  <2> QED BY <1>1, <2>1, <2>4, <2>5 DEF Leads
<1> QED BY <1>2, <1>3

-----------------------------------------------------------------------------
(* All that a document stores.                                               *)

\* What the last of the compound deltas leads to.
Foot(f, c) == IF Len(f) = 0 THEN c ELSE f[Len(f)].back
FootTime(f, t) == IF Len(f) = 0 THEN t ELSE f[Len(f)].begin

Layered(f) ==
    /\ \A i \in 1 .. Len(f) : f[i].parts = {} => f[i].begin = f[i].end
    /\ \A i, j \in 1 .. Len(f) : i < j => Blends(f[j].parts, f[i].parts)

\* From what the document holds the compound deltas lead out of the open
\* commands, and from there the redos and the undos lead on; each refers to
\* objects of its own.
Stacks(d, f, us, rs, c, t) ==
    /\ Down(d, f, c, t)
    /\ Down(d, rs, Foot(f, c), FootTime(f, t))
    /\ Up(d, us, Foot(f, c), FootTime(f, t))
    /\ Apart(f) /\ Apart(us) /\ Apart(rs)
    /\ Named(f) \cap Named(us) = {} /\ Named(f) \cap Named(rs) = {}
    /\ Named(us) \cap Named(rs) = {}
    /\ Layered(f)

Everything(f, us, rs) == Named(f) \cup Named(us) \cup Named(rs)

LEMMA LeadsOver ==
    ASSUME NEW d, NEW e, NEW x, NEW c, NEW t, Leads(d, x, c, t),
           \A o \in Mentions(x.parts) : e.attr[o] = d.attr[o]
    PROVE  Leads(e, x, c, t)
<1>1. Fits(d, x.parts, c, x.back) /\ Whole(d, x.parts) BY DEF Leads
<1>2. Fits(e, x.parts, c, x.back) /\ Whole(e, x.parts) BY <1>1, FitsOver
<1> QED BY <1>2 DEF Leads

LEMMA DownOver ==
    ASSUME NEW d, NEW e, NEW f, Len(f) \in Nat, NEW c, NEW t,
           \A o \in Named(f) : e.attr[o] = d.attr[o]
    PROVE  /\ Down(d, f, c, t) => Down(e, f, c, t)
           /\ Up(d, f, c, t) => Up(e, f, c, t)
<1>1. \A i \in 1 .. Len(f) : \A o \in Mentions(f[i].parts) : e.attr[o] = d.attr[o]
  BY DEF Named
<1>2. \A i \in 1 .. Len(f) : \A b, u : Leads(d, f[i], b, u) => Leads(e, f[i], b, u)
  BY <1>1, LeadsOver
<1>3. Len(f) # 0 => 1 \in 1 .. Len(f) /\ Len(f) \in 1 .. Len(f) OBVIOUS
<1>4. \A i \in 1 .. Len(f) : i + 1 =< Len(f) => i + 1 \in 1 .. Len(f) OBVIOUS
<1>5. Down(d, f, c, t) => Down(e, f, c, t) BY <1>2, <1>3, <1>4 DEF Down
<1>6. Up(d, f, c, t) => Up(e, f, c, t) BY <1>2, <1>3, <1>4 DEF Up
<1> QED BY <1>5, <1>6

LEMMA StacksOver ==
    ASSUME NEW d, NEW e, NEW f, Len(f) \in Nat, NEW us, Len(us) \in Nat, NEW rs, Len(rs) \in Nat,
           NEW c, NEW t, Stacks(d, f, us, rs, c, t),
           \A o \in Everything(f, us, rs) : e.attr[o] = d.attr[o]
    PROVE  Stacks(e, f, us, rs, c, t)
<1>1. /\ \A o \in Named(f) : e.attr[o] = d.attr[o]
      /\ \A o \in Named(us) : e.attr[o] = d.attr[o]
      /\ \A o \in Named(rs) : e.attr[o] = d.attr[o]
  BY DEF Everything
<1>2. Down(e, f, c, t) /\ Down(e, rs, Foot(f, c), FootTime(f, t))
      /\ Up(e, us, Foot(f, c), FootTime(f, t))
  BY <1>1, DownOver DEF Stacks
<1> QED BY <1>2 DEF Stacks

LEMMA TailSlice ==
    ASSUME NEW X, NEW f \in Seq(X), f # << >>
    PROVE  Slice(Tail(f), f, 1) /\ Len(Tail(f)) + 1 = Len(f) /\ 1 \in 1 .. Len(f)
<1>1. Len(f) \in Nat \ {0} /\ Len(Tail(f)) = Len(f) - 1 BY EmptySeq, HeadTailProperties
<1>2. \A i \in 1 .. Len(Tail(f)) : Tail(f)[i] = f[i + 1] BY HeadTailProperties
<1> QED BY <1>1, <1>2 DEF Slice, Twin

LEMMA FrontSlice ==
    ASSUME NEW X, NEW f \in Seq(X), f # << >>
    PROVE  Slice(Front(f), f, 0) /\ Len(Front(f)) + 1 = Len(f) /\ Last(f) = f[Len(f)]
<1>1. Len(f) \in Nat \ {0} BY EmptySeq
<1>2. Len(f) - 1 \in Int /\ 1 \in Int BY <1>1
<1>3. \A i \in 1 .. Len(f) - 1 : f[i] \in X BY <1>1, ElementOfSeq
<1>4. PICK g : g = SubSeq(f, 1, Len(f) - 1) OBVIOUS
<1>5. /\ Len(g) = IF 1 <= Len(f) - 1 THEN Len(f) - 1 - 1 + 1 ELSE 0
      /\ \A i \in 1 .. Len(f) - 1 - 1 + 1 : g[i] = f[1 + i - 1]
  BY <1>2, <1>3, <1>4, SubSeqProperties
<1>5a. PICK n \in Nat : n = Len(f) - 1 BY <1>1
<1>5b. Len(g) = n
  <2>1. CASE n = 0 BY <1>1, <1>5, <1>5a, <2>1
  <2>2. CASE n # 0 BY <1>1, <1>5, <1>5a, <2>2
  <2> QED BY <2>1, <2>2
<1>6. Len(g) + 1 = Len(f) BY <1>1, <1>5a, <1>5b
<1>7. \A i \in 1 .. Len(g) : g[i] = f[i + 0] BY <1>1, <1>5, <1>6
<1>8. Slice(g, f, 0) BY <1>1, <1>6, <1>7 DEF Slice, Twin
<1> QED BY <1>4, <1>6, <1>8 DEF Front, Last

LEMMA AppendGrown ==
    ASSUME NEW X, NEW f \in Seq(X), NEW x \in X
    PROVE  LET g == Append(f, x) IN
           Len(g) = Len(f) + 1 /\ Slice(f, g, 0) /\ Twin(g[Len(g)], x) /\ Grown(g, f, x, Len(g))
<1>1. PICK g : g = Append(f, x) OBVIOUS
<1>2. Len(f) \in Nat BY LenProperties
<1>3. /\ Len(g) = Len(f) + 1
      /\ \A i \in 1 .. Len(f) : g[i] = f[i]
      /\ g[Len(f) + 1] = x
  BY <1>1, AppendProperties
<1>4. \A i \in 1 .. Len(f) : f[i] = g[i + 0] BY <1>2, <1>3
<1>5. Slice(f, g, 0) BY <1>2, <1>3, <1>4 DEF Slice, Twin
<1> QED BY <1>1, <1>2, <1>3, <1>5 DEF Grown, Twin

LEMMA PushGrown ==
    ASSUME NEW X, NEW f \in Seq(X), NEW x \in X
    PROVE  LET g == <<x>> \o f IN
           g \in Seq(X) /\ Len(g) = Len(f) + 1 /\ Slice(f, g, 1) /\ Twin(g[1], x) /\ Grown(g, f, x, 1)
           /\ g[1] = x
<1>1. PICK g : g = <<x>> \o f OBVIOUS
<1>2. Len(f) \in Nat BY LenProperties
<1>3. <<x>> \in Seq(X) /\ Len(<<x>>) = 1 /\ <<x>>[1] = x OBVIOUS
<1>4. /\ g \in Seq(X) /\ Len(g) = 1 + Len(f)
      /\ \A i \in 1 .. 1 + Len(f) : g[i] = IF i <= 1 THEN <<x>>[i] ELSE f[i - 1]
  BY <1>1, <1>3, ConcatProperties
<1>5. g[1] = x BY <1>2, <1>3, <1>4
<1>6. \A i \in 1 .. Len(f) : f[i] = g[i + 1] BY <1>2, <1>4
<1>7. Slice(f, g, 1) BY <1>2, <1>4, <1>6 DEF Slice, Twin
<1> QED BY <1>1, <1>2, <1>4, <1>5, <1>7 DEF Grown, Twin

LEMMA LenZero ==
    ASSUME NEW X, NEW f \in Seq(X)
    PROVE  Len(f) \in Nat /\ (f = << >> <=> Len(f) = 0)
BY EmptySeq, LenProperties

LEMMA EmptyStacks ==
    ASSUME NEW d, NEW c, NEW t
    PROVE  /\ Down(d, << >>, c, t) /\ Up(d, << >>, c, t) /\ Apart(<< >>)
           /\ Named(<< >>) = {} /\ Layered(<< >>)
           /\ Foot(<< >>, c) = c /\ FootTime(<< >>, t) = t
<1>1. Len(<< >>) = 0 BY EmptySeq
<1>2. 1 .. Len(<< >>) = {} BY <1>1
<1> QED BY <1>1, <1>2 DEF Down, Up, Apart, Named, Layered, Foot, FootTime

\* A delta that can be merged into any of the compound deltas, as it refers to
\* objects of its own.
Joins(x, f, us, rs) == /\ Mentions(x.parts) \cap Everything(f, us, rs) = {}
                       /\ \A j \in 1 .. Len(f) : Blends(f[j].parts, x.parts)

\* The first delta replaced.
Headed(g, f, m) == /\ Len(g) = Len(f)
                   /\ \A j \in 1 .. Len(f) : g[j] = IF j = 1 THEN m ELSE f[j]

LEMMA SwappedHead ==
    ASSUME NEW X, NEW f \in Seq(X), f # << >>, NEW m \in X
    PROVE  LET g == [f EXCEPT ![1] = m] IN
           g \in Seq(X) /\ g # << >> /\ Headed(g, f, m)
<1>1. 1 \in 1 .. Len(f) BY EmptySeq
<1>2. PICK g : g = [f EXCEPT ![1] = m] OBVIOUS
<1>3. g \in Seq(X) /\ Len(g) = Len(f) BY <1>1, <1>2, ExceptSeq
<1>4. \A j \in 1 .. Len(f) : g[j] = IF j = 1 THEN m ELSE f[j] BY <1>1, <1>2, ExceptSeq
<1>5. g # << >> BY <1>1, <1>3, EmptySeq
<1> QED BY <1>2, <1>3, <1>4, <1>5 DEF Headed

\* The innermost compound delta taken off.
LEMMA Popped ==
    ASSUME NEW S \in SUBSET Objects, NEW d, NEW f \in Seq(Stored(S)), f # << >>, NEW us, NEW rs,
           NEW c \in Contents, NEW t, Stacks(d, f, us, rs, c, t)
    PROVE  LET x == f[1]
               g == Tail(f) IN
           /\ x \in Stored(S) /\ g \in Seq(Stored(S)) /\ Len(g) + 1 = Len(f)
           /\ Stacks(d, g, us, rs, x.back, x.begin)
           /\ Leads(d, x, c, t) /\ Flies(d, x, c, t, x.back, x.begin)
           /\ Joins(x, g, us, rs)
           /\ Everything(g, us, rs) \subseteq Everything(f, us, rs)
           /\ \A j \in 1 .. Len(g) : j + 1 \in 1 .. Len(f) /\ g[j].parts = f[j + 1].parts
<1>1. PICK g : g = Tail(f) OBVIOUS
<1>2. PICK x \in Stored(S) : x = f[1] BY FirstOf
<1>3. g \in Seq(Stored(S)) /\ Slice(g, f, 1) /\ Len(g) + 1 = Len(f) /\ 1 \in 1 .. Len(f)
  BY <1>1, TailSlice, FirstOf
<1>4. Len(g) \in Nat /\ Len(f) \in Nat BY <1>3 DEF Slice
<1>5. Leads(d, x, c, t) /\ Down(d, g, x.back, x.begin)
  BY <1>2, <1>3, DownTail DEF Stacks
<1>6. Foot(g, x.back) = Foot(f, c) /\ FootTime(g, x.begin) = FootTime(f, t)
  <2>1. CASE Len(g) = 0
    <3>1. Len(f) = 1 /\ Len(f) # 0 BY <1>3, <2>1
    <3> QED BY <1>2, <2>1, <3>1 DEF Foot, FootTime
  <2>2. CASE Len(g) # 0
    <3>1. Len(g) \in 1 .. Len(g) /\ Len(f) # 0 BY <1>3, <1>4, <2>2
    <3>2. Twin(g[Len(g)], f[Len(g) + 1]) BY <1>3, <3>1, SliceDelta
    <3> QED BY <1>3, <2>2, <3>1, <3>2 DEF Foot, FootTime, Twin
  <2> QED BY <2>1, <2>2
<1>7. Named(g) \subseteq Named(f) /\ Apart(g) BY <1>3, NamedSlice DEF Stacks
<1>8. \A i \in 1 .. Len(g) : i + 1 \in 1 .. Len(f) /\ Twin(g[i], f[i + 1]) BY <1>3, SliceDelta
<1>9. Layered(g)
  <2>1. \A i, j \in 1 .. Len(g) : i < j => i + 1 < j + 1 BY <1>4
  <2>2. Layered(f) BY DEF Stacks
  <2> QED BY <1>8, <2>1, <2>2 DEF Layered, Twin
<1>10. Stacks(d, g, us, rs, x.back, x.begin) BY <1>5, <1>6, <1>7, <1>9 DEF Stacks
<1>11. Mentions(x.parts) \subseteq Named(f) BY <1>2, <1>3 DEF Named
<1>12. Mentions(x.parts) \cap Named(g) = {}
  <2>1. \A i \in 1 .. Len(g) : 1 # i + 1 BY <1>4
  <2>2. \A i \in 1 .. Len(g) : Mentions(x.parts) \cap Mentions(g[i].parts) = {}
    BY <1>2, <1>3, <1>8, <2>1 DEF Stacks, Apart, Twin
  <2> QED BY <2>2 DEF Named
<1>13. Mentions(x.parts) \cap Everything(g, us, rs) = {}
  BY <1>11, <1>12 DEF Stacks, Everything
<1>14. ASSUME NEW j \in 1 .. Len(g) PROVE Blends(g[j].parts, x.parts)
  <2>1. 1 < j + 1 BY <1>4
  <2> QED BY <1>2, <1>3, <1>8, <2>1 DEF Stacks, Layered, Twin
<1>15. Flies(d, x, c, t, x.back, x.begin)
  <2>1. ASSUME x.parts = {} PROVE c = x.back /\ t = x.begin
    <3>1. \A s \in Slots : x.back[s] = c[s] BY <1>5, <2>1 DEF Leads, Fits, Here
    <3>2. x.back \in Contents BY DEF Stored, Delta
    <3>3. x.back = c BY <3>1, <3>2, SameContents
    <3>4. x.begin = x.end BY <1>2, <1>3, <2>1 DEF Stacks, Layered
    <3> QED BY <1>5, <3>3, <3>4 DEF Leads
  <2> QED BY <1>5, <2>1 DEF Flies
<1>16. Everything(g, us, rs) \subseteq Everything(f, us, rs) BY <1>7 DEF Everything
<1> QED BY <1>1, <1>2, <1>3, <1>5, <1>8, <1>10, <1>13, <1>14, <1>15, <1>16 DEF Joins, Twin

\* A delta merged into the innermost compound delta.
LEMMA Merged ==
    ASSUME NEW S \in SUBSET Objects, NEW d, NEW f \in Seq(Stored(S)), f # << >>, NEW us, NEW rs,
           NEW b, NEW u, Stacks(d, f, us, rs, b, u), NEW x \in Stored(S),
           NEW c, NEW t, Flies(d, x, c, t, b, u), Joins(x, f, us, rs),
           NEW g, Headed(g, f, AppendDelta(f[1], x))
    PROVE  /\ Stacks(d, g, us, rs, c, t)
           /\ Everything(g, us, rs) \subseteq Everything(f, us, rs) \cup Mentions(x.parts)
<1>1. PICK a \in Stored(S) : a = f[1] BY FirstOf
<1>2. PICK m \in Stored(S) : m = AppendDelta(a, x) BY AppendedFacts
<1>3. /\ m.back = a.back /\ m.begin = a.begin
      /\ x.parts = {} => m = a
      /\ m.parts \subseteq a.parts \cup x.parts
      /\ m.parts = {} => a.parts = {} /\ x.parts = {}
      /\ Mentions(m.parts) \subseteq Mentions(a.parts) \cup Mentions(x.parts)
  BY <1>2, AppendedFacts
<1>4. Len(f) \in Nat \ {0} /\ 1 \in 1 .. Len(f) BY EmptySeq
<1>6. Len(g) = Len(f) /\ \A j \in 1 .. Len(f) : g[j] = IF j = 1 THEN m ELSE f[j]
  BY <1>1, <1>2 DEF Headed
<1>7. /\ \A j \in 1 .. Len(f) : g[j].back = f[j].back /\ g[j].begin = f[j].begin
      /\ \A j \in 1 .. Len(f) : j # 1 => g[j] = f[j]
      /\ g[1] = m
  BY <1>1, <1>3, <1>4, <1>6
<1>8. Down(d, g, c, t)
  <2>1. Leads(d, a, b, u) BY <1>1, <1>4 DEF Stacks, Down
  <2>2. Blends(a.parts, x.parts) BY <1>1, <1>4 DEF Joins
  <2>3. Leads(d, m, c, t) BY <1>2, <2>1, <2>2, AppendedLeads
  <2>4. ASSUME NEW i \in 1 .. Len(f), i + 1 =< Len(f)
        PROVE  Leads(d, g[i + 1], g[i].back, g[i].begin)
    <3>1. Leads(d, f[i + 1], f[i].back, f[i].begin) BY <2>4 DEF Stacks, Down
    <3>2. i + 1 \in 1 .. Len(f) /\ i + 1 # 1 BY <1>4, <2>4
    <3> QED BY <1>7, <3>1, <3>2
  <2> QED BY <1>6, <1>7, <2>3, <2>4 DEF Down
<1>9. Foot(g, c) = Foot(f, b) /\ FootTime(g, t) = FootTime(f, u)
  <2>1. Len(f) \in 1 .. Len(f) /\ Len(f) # 0 BY <1>4
  <2> QED BY <1>6, <1>7, <2>1 DEF Foot, FootTime
<1>10. \A j \in 1 .. Len(f) : /\ Mentions(g[j].parts) \subseteq Mentions(f[j].parts) \cup Mentions(x.parts)
                              /\ j # 1 => g[j].parts = f[j].parts
  BY <1>1, <1>3, <1>7
<1>11. Named(g) \subseteq Named(f) \cup Mentions(x.parts) BY <1>6, <1>10 DEF Named
<1>12. Apart(g)
  <2>1. \A j \in 1 .. Len(f) : Mentions(f[j].parts) \cap Mentions(x.parts) = {}
    BY DEF Joins, Everything, Named
  <2>2. ASSUME NEW i \in 1 .. Len(f), NEW j \in 1 .. Len(f), i # j
        PROVE  Mentions(g[i].parts) \cap Mentions(g[j].parts) = {}
    <3>1. Mentions(f[i].parts) \cap Mentions(f[j].parts) = {} BY <2>2 DEF Stacks, Apart
    <3>2. CASE i = 1
      <4>1. g[j].parts = f[j].parts BY <1>10, <2>2, <3>2
      <4> QED BY <1>10, <2>1, <3>1, <4>1
    <3>3. CASE i # 1
      <4>1. g[i].parts = f[i].parts BY <1>10, <3>3
      <4> QED BY <1>10, <2>1, <3>1, <4>1
    <3> QED BY <3>2, <3>3
  <2> QED BY <1>6, <2>2 DEF Apart
<1>13. Layered(g)
  <2>1. ASSUME NEW i \in 1 .. Len(f), g[i].parts = {} PROVE g[i].begin = g[i].end
    <3>1. CASE i = 1
      <4>1. m.parts = {} /\ m = a BY <1>3, <1>7, <2>1, <3>1
      <4>2. a.begin = a.end BY <1>1, <1>4, <4>1 DEF Stacks, Layered
      <4> QED BY <1>7, <3>1, <4>1, <4>2
    <3>2. CASE i # 1
      <4>1. g[i] = f[i] BY <1>7, <3>2
      <4> QED BY <2>1, <4>1 DEF Stacks, Layered
    <3> QED BY <3>1, <3>2
  <2>2. ASSUME NEW i \in 1 .. Len(f), NEW j \in 1 .. Len(f), i < j
        PROVE  Blends(g[j].parts, g[i].parts)
    <3>1. g[j].parts = f[j].parts BY <1>4, <1>10, <2>2
    <3>2. Blends(f[j].parts, f[i].parts) BY <2>2 DEF Stacks, Layered
    <3>3. Blends(f[j].parts, x.parts) BY DEF Joins
    <3>4. g[i].parts \subseteq f[i].parts \cup x.parts BY <1>1, <1>3, <1>7
    <3> QED BY <3>1, <3>2, <3>3, <3>4 DEF Blends
  <2> QED BY <1>6, <2>1, <2>2 DEF Layered
<1>14. Stacks(d, g, us, rs, c, t)
  BY <1>8, <1>9, <1>11, <1>12, <1>13 DEF Joins, Stacks, Everything
<1>15. Everything(g, us, rs) \subseteq Everything(f, us, rs) \cup Mentions(x.parts)
  BY <1>11 DEF Everything
<1> QED BY <1>14, <1>15

\* What is stored brings back objects that are not attached.
LEMMA EverythingOff ==
    ASSUME NEW S \in SUBSET Objects, NEW d, NEW f \in Seq(Stored(S)),
           NEW us \in Seq(Stored(S)), NEW rs \in Seq(Stored(S)),
           NEW c, NEW t, Stacks(d, f, us, rs, c, t), NEW o \in Everything(f, us, rs)
    PROVE  o \in Objects /\ ~d.attr[o].on
<1>1. ASSUME NEW g \in Seq(Stored(S)), NEW i \in 1 .. Len(g), Whole(d, g[i].parts),
             o \in Mentions(g[i].parts)
      PROVE  o \in Objects /\ ~d.attr[o].on
  <2>1. PICK p \in g[i].parts : p.kind = "removal" /\ p.obj = o
    BY <1>1 DEF Mentions, Removals
  <2>2. g[i] \in Stored(S) BY ElementOfSeq
  <2>3. o \in S BY <2>1, <2>2 DEF Stored, Parts
  <2> QED BY <1>1, <2>1, <2>3 DEF Whole
<1>2. ASSUME NEW g \in Seq(Stored(S)), NEW b, NEW u, Down(d, g, b, u), NEW i \in 1 .. Len(g)
      PROVE  Whole(d, g[i].parts)
  <2>1. CASE i = 1
    <3>1. Len(g) # 0 BY LenProperties
    <3> QED BY <1>2, <2>1, <3>1 DEF Down, Leads
  <2>2. CASE i # 1
    <3>1. Len(g) \in Nat BY LenProperties
    <3>2. PICK j \in 1 .. Len(g) : j = i - 1 BY <2>2, <3>1
    <3>3. j + 1 =< Len(g) /\ j + 1 = i BY <3>1, <3>2
    <3> QED BY <1>2, <3>3 DEF Down, Leads
  <2> QED BY <2>1, <2>2
<1>3. ASSUME NEW g \in Seq(Stored(S)), NEW b, NEW u, Up(d, g, b, u), NEW i \in 1 .. Len(g)
      PROVE  Whole(d, g[i].parts)
  <2>1. Len(g) \in Nat BY LenProperties
  <2>2. CASE i = Len(g)
    <3>1. Len(g) # 0 BY <2>1
    <3> QED BY <1>3, <2>2, <3>1 DEF Up, Leads
  <2>3. CASE i # Len(g)
    <3>1. i + 1 =< Len(g) BY <2>1, <2>3
    <3> QED BY <1>3, <3>1 DEF Up, Leads
  <2> QED BY <2>2, <2>3
<1>4. CASE o \in Named(f)
  <2>1. PICK i \in 1 .. Len(f) : o \in Mentions(f[i].parts) BY <1>4 DEF Named
  <2>2. Down(d, f, c, t) BY DEF Stacks
  <2> QED BY <1>1, <1>2, <2>1, <2>2
<1>5. CASE o \in Named(us)
  <2>1. PICK i \in 1 .. Len(us) : o \in Mentions(us[i].parts) BY <1>5 DEF Named
  <2>2. Up(d, us, Foot(f, c), FootTime(f, t)) BY DEF Stacks
  <2> QED BY <1>1, <1>3, <2>1, <2>2
<1>6. CASE o \in Named(rs)
  <2>1. PICK i \in 1 .. Len(rs) : o \in Mentions(rs[i].parts) BY <1>6 DEF Named
  <2>2. Down(d, rs, Foot(f, c), FootTime(f, t)) BY DEF Stacks
  <2> QED BY <1>1, <1>2, <2>1, <2>2
<1> QED BY <1>4, <1>5, <1>6 DEF Everything

\* The oldest undos and the last redos dropped, the marks changed.
LEMMA Thinned ==
    ASSUME NEW d, NEW f, NEW us, NEW rs, NEW c, NEW t, Stacks(d, f, us, rs, c, t),
           NEW vs, NEW k, Slice(vs, us, k), Len(vs) + k = Len(us),
           NEW qs, Slice(qs, rs, 0)
    PROVE  Stacks(d, f, vs, qs, c, t) /\ Everything(f, vs, qs) \subseteq Everything(f, us, rs)
<1>1. /\ Named(vs) \subseteq Named(us) /\ Apart(vs)
      /\ Named(qs) \subseteq Named(rs) /\ Apart(qs)
  BY NamedSlice DEF Stacks
<1>2. Up(d, vs, Foot(f, c), FootTime(f, t)) BY UpSuffix DEF Stacks
<1>3. Down(d, qs, Foot(f, c), FootTime(f, t)) BY DownPrefix DEF Stacks
<1> QED BY <1>1, <1>2, <1>3 DEF Stacks, Everything

LEMMA EmptySlice ==
    ASSUME NEW X, NEW f \in Seq(X)
    PROVE  Slice(<< >>, f, 0) /\ Slice(f, f, 0)
<1>1. Len(f) \in Nat /\ Len(<< >>) = 0 BY LenProperties, EmptySeq
<1> QED BY <1>1 DEF Slice, Twin

\* A command committed: its delta goes to the undos, and the redos are dropped.
LEMMA Banked ==
    ASSUME NEW S \in SUBSET Objects, NEW d, NEW us \in Seq(Stored(S)),
           NEW rs \in Seq(Stored(S)), NEW b, NEW u, Stacks(d, << >>, us, rs, b, u),
           NEW x \in Stored(S), NEW c, NEW t, Leads(d, x, c, t), x.back = b, x.begin = u,
           Mentions(x.parts) \cap Everything(<< >>, us, rs) = {}
    PROVE  /\ Stacks(d, << >>, Append(us, x), << >>, c, t)
           /\ Everything(<< >>, Append(us, x), << >>)
                \subseteq Everything(<< >>, us, rs) \cup Mentions(x.parts)
<1>1. PICK g : g = Append(us, x) OBVIOUS
<1>2. Len(g) = Len(us) + 1 /\ Slice(us, g, 0) /\ Twin(g[Len(g)], x) /\ Grown(g, us, x, Len(g))
  BY <1>1, AppendGrown
<1>3. Up(d, us, b, u) /\ Apart(us) /\ Named(us) \cap Mentions(x.parts) = {}
  BY EmptyStacks DEF Stacks, Everything
<1>4. Up(d, g, c, t) BY <1>2, <1>3, UpGrown
<1>5. Apart(g) /\ Named(g) \subseteq Named(us) \cup Mentions(x.parts)
  BY <1>2, <1>3, NamedGrown
<1>6. Stacks(d, << >>, g, << >>, c, t) BY <1>4, <1>5, EmptyStacks DEF Stacks
<1> QED BY <1>1, <1>5, <1>6, EmptyStacks DEF Everything

\* A command opens inside a command: an empty compound delta.
LEMMA Layer ==
    ASSUME NEW S \in SUBSET Objects, NEW d, NEW f \in Seq(Stored(S)), NEW us, NEW rs,
           NEW c, NEW t, Stacks(d, f, us, rs, c, t),
           NEW x \in Stored(S), x.parts = {}, x.back = c, x.begin = t, x.end = t
    PROVE  /\ Stacks(d, <<x>> \o f, us, rs, c, t)
           /\ Everything(<<x>> \o f, us, rs) \subseteq Everything(f, us, rs)
           /\ \A j \in 1 .. Len(<<x>> \o f) :
                 \/ (<<x>> \o f)[j].parts = {}
                 \/ j - 1 \in 1 .. Len(f) /\ (<<x>> \o f)[j].parts = f[j - 1].parts
<1>1. PICK g : g = <<x>> \o f OBVIOUS
<1>2. /\ g \in Seq(Stored(S)) /\ Len(g) = Len(f) + 1 /\ Slice(f, g, 1) /\ Twin(g[1], x)
      /\ Grown(g, f, x, 1) /\ g[1] = x
  BY <1>1, PushGrown
<1>3. Len(f) \in Nat BY LenProperties
<1>4. Leads(d, x, c, t) BY DEF Leads, Fits, Uniform, Here, Whole
<1>5. Down(d, g, c, t) BY <1>2, <1>4, DownGrown DEF Stacks
<1>6. Foot(g, c) = Foot(f, c) /\ FootTime(g, t) = FootTime(f, t)
  <2>1. CASE Len(f) = 0
    <3>1. Len(g) = 1 /\ Len(g) # 0 BY <1>2, <2>1
    <3> QED BY <1>2, <2>1, <3>1 DEF Foot, FootTime
  <2>2. CASE Len(f) # 0
    <3>1. Len(f) \in 1 .. Len(f) /\ Len(g) # 0 BY <1>2, <1>3, <2>2
    <3>2. Twin(f[Len(f)], g[Len(f) + 1]) BY <1>2, <3>1, SliceDelta
    <3> QED BY <1>2, <2>2, <3>1, <3>2 DEF Foot, FootTime, Twin
  <2> QED BY <2>1, <2>2
<1>7. Mentions(x.parts) = {} BY DEF Mentions, Removals
<1>8. Apart(g) /\ Named(g) \subseteq Named(f)
  <2>1. Mentions(x.parts) \cap Named(f) = {} /\ Apart(f) BY <1>7 DEF Stacks
  <2>2. Apart(g) /\ Named(g) \subseteq Named(f) \cup Mentions(x.parts)
    BY <1>2, <2>1, NamedGrown
  <2> QED BY <1>7, <2>2
<1>9. \A j \in 1 .. Len(g) : \/ j = 1
                             \/ j - 1 \in 1 .. Len(f) /\ Twin(f[j - 1], g[j])
  <2> SUFFICES ASSUME NEW j \in 1 .. Len(g), j # 1
               PROVE  j - 1 \in 1 .. Len(f) /\ Twin(f[j - 1], g[j])
    OBVIOUS
  <2>1. j - 1 \in 1 .. Len(f) /\ (j - 1) + 1 = j BY <1>2, <1>3
  <2>2. Twin(f[j - 1], g[(j - 1) + 1]) BY <1>2, <2>1, SliceDelta
  <2> QED BY <2>1, <2>2
<1>10. Layered(g)
  <2>1. Layered(f) BY DEF Stacks
  <2>2. ASSUME NEW i \in 1 .. Len(g), g[i].parts = {} PROVE g[i].begin = g[i].end
    BY <1>2, <1>9, <2>1, <2>2 DEF Layered, Twin
  <2>3. ASSUME NEW i \in 1 .. Len(g), NEW j \in 1 .. Len(g), i < j
        PROVE  Blends(g[j].parts, g[i].parts)
    <3>1. CASE i = 1 BY <1>2, <3>1 DEF Blends
    <3>2. CASE i # 1
      <4>1. j # 1 /\ i - 1 < j - 1 BY <1>2, <1>3, <2>3
      <4>2. i - 1 \in 1 .. Len(f) /\ Twin(f[i - 1], g[i]) BY <1>9, <3>2
      <4>3. j - 1 \in 1 .. Len(f) /\ Twin(f[j - 1], g[j]) BY <1>9, <4>1
      <4>4. Blends(f[j - 1].parts, f[i - 1].parts) BY <2>1, <4>1, <4>2, <4>3 DEF Layered
      <4> QED BY <4>2, <4>3, <4>4 DEF Twin
    <3> QED BY <3>1, <3>2
  <2> QED BY <2>2, <2>3 DEF Layered
<1>11. Stacks(d, g, us, rs, c, t) BY <1>5, <1>6, <1>8, <1>10 DEF Stacks
<1>12. Everything(g, us, rs) \subseteq Everything(f, us, rs) BY <1>8 DEF Everything
<1>13. \A j \in 1 .. Len(g) : \/ g[j].parts = {}
                              \/ j - 1 \in 1 .. Len(f) /\ g[j].parts = f[j - 1].parts
  BY <1>2, <1>9 DEF Twin
<1> QED BY <1>1, <1>11, <1>12, <1>13

\* Whatever takes back the last undo, or the first redo, goes to the other list.
ToRedone(S, d, us, rs, c, t, y, g) ==
    \A e, x : /\ \A o \in Everything(<< >>, g, rs) : e.attr[o] = d.attr[o]
              /\ x \in Stored(S) /\ Leads(e, x, y.back, y.begin)
              /\ x.back = c /\ x.begin = t
              /\ Mentions(x.parts) \cap Everything(<< >>, us, rs) = {}
              => Stacks(e, << >>, g, <<x>> \o rs, y.back, y.begin)
ToUndone(S, d, us, rs, c, t, y, g) ==
    \A e, x : /\ \A o \in Everything(<< >>, us, g) : e.attr[o] = d.attr[o]
              /\ x \in Stored(S) /\ Leads(e, x, y.back, y.begin)
              /\ x.back = c /\ x.begin = t
              /\ Mentions(x.parts) \cap Everything(<< >>, us, rs) = {}
              => Stacks(e, << >>, Append(us, x), g, y.back, y.begin)

\* An undo: the last delta is taken off, and its own goes to the redos.
LEMMA UndoneStacks ==
    ASSUME NEW S \in SUBSET Objects, NEW d, NEW us \in Seq(Stored(S)), us # << >>,
           NEW rs \in Seq(Stored(S)), NEW c, NEW t, Stacks(d, << >>, us, rs, c, t),
           NEW y, y = Last(us), NEW g, g = Front(us)
    PROVE  /\ y \in Stored(S) /\ Leads(d, y, c, t)
           /\ Mentions(y.parts) \cap Everything(<< >>, g, rs) = {}
           /\ Everything(<< >>, g, rs) \subseteq Everything(<< >>, us, rs)
           /\ ToRedone(S, d, us, rs, c, t, y, g)
<1>1. y \in Stored(S) BY FirstOf
<1>3. g \in Seq(Stored(S)) /\ Slice(g, us, 0) /\ Len(g) + 1 = Len(us) /\ y = us[Len(us)]
  BY FrontSlice, FirstOf
<1>4. Len(g) \in Nat /\ Len(us) \in Nat BY <1>3 DEF Slice
<1>5. Up(d, us, c, t) /\ Down(d, rs, c, t) BY EmptyStacks DEF Stacks
<1>6. Leads(d, y, c, t)
  <2>1. Len(us) # 0 BY <1>3, <1>4
  <2> QED BY <1>3, <1>5, <2>1 DEF Up
<1>7. Up(d, g, y.back, y.begin)
  <2>1. PICK n : n = Len(us) OBVIOUS
  <2>2. n = Len(g) + 1 /\ n =< Len(us) /\ us[n] = y BY <1>3, <1>4, <2>1
  <2> QED BY <1>3, <1>5, <2>2, UpPrefix
<1>8. Named(g) \subseteq Named(us) /\ Apart(g) BY <1>3, NamedSlice DEF Stacks
<1>9. Mentions(y.parts) \subseteq Named(us)
  <2>1. Len(us) \in 1 .. Len(us) BY <1>3, <1>4
  <2> QED BY <1>3, <2>1 DEF Named
<1>10. Mentions(y.parts) \cap Named(g) = {}
  <2>1. \A i \in 1 .. Len(g) : i \in 1 .. Len(us) /\ i # Len(us) /\ i + 0 = i BY <1>3, <1>4
  <2>2. \A i \in 1 .. Len(g) : g[i].parts = us[i].parts
    <3> SUFFICES ASSUME NEW i \in 1 .. Len(g) PROVE g[i].parts = us[i].parts OBVIOUS
    <3>1. Twin(g[i], us[i + 0]) BY <1>3, SliceDelta
    <3> QED BY <2>1, <3>1 DEF Twin
  <2>3. Len(us) \in 1 .. Len(us) BY <1>3, <1>4
  <2>4. \A i \in 1 .. Len(g) : Mentions(y.parts) \cap Mentions(g[i].parts) = {}
    BY <1>3, <2>1, <2>2, <2>3 DEF Stacks, Apart
  <2> QED BY <2>4 DEF Named
<1>11. Mentions(y.parts) \cap Everything(<< >>, g, rs) = {}
  BY <1>9, <1>10, EmptyStacks DEF Stacks, Everything
<1>12. Everything(<< >>, g, rs) \subseteq Everything(<< >>, us, rs) BY <1>8 DEF Everything
<1>13. ASSUME NEW e, NEW x \in Stored(S),
              \A o \in Everything(<< >>, g, rs) : e.attr[o] = d.attr[o],
              Leads(e, x, y.back, y.begin), x.back = c, x.begin = t,
              Mentions(x.parts) \cap Everything(<< >>, us, rs) = {}
       PROVE  Stacks(e, << >>, g, <<x>> \o rs, y.back, y.begin)
  <2>1. PICK h : h = <<x>> \o rs OBVIOUS
  <2>2. Slice(rs, h, 1) /\ Grown(h, rs, x, 1) BY <2>1, PushGrown
  <2>3. Len(rs) \in Nat BY LenProperties
  <2>4. Up(e, g, y.back, y.begin) /\ Down(e, rs, c, t)
    BY <1>4, <1>5, <1>7, <1>13, <2>3, DownOver DEF Everything
  <2>5. Down(e, h, y.back, y.begin) BY <1>13, <2>2, <2>4, DownGrown
  <2>6. /\ Apart(rs) /\ Named(rs) \cap Mentions(x.parts) = {}
        /\ Named(us) \cap Mentions(x.parts) = {} /\ Named(us) \cap Named(rs) = {}
    BY <1>13 DEF Stacks, Everything
  <2>7. Apart(h) /\ Named(h) \subseteq Named(rs) \cup Mentions(x.parts)
    BY <2>2, <2>6, NamedGrown
  <2>8. Named(g) \cap Named(h) = {} BY <1>8, <2>6, <2>7
  <2> QED BY <1>8, <2>1, <2>4, <2>5, <2>7, <2>8, EmptyStacks DEF Stacks
<1> QED BY <1>1, <1>6, <1>11, <1>12, <1>13 DEF ToRedone

\* A list without its first element.
Headless(rs, y, g) == y = Head(rs) /\ g = Tail(rs)

\* A redo: the first delta is taken off, and its own goes to the undos.
LEMMA RedoneStacks ==
    ASSUME NEW S \in SUBSET Objects, NEW d, NEW us \in Seq(Stored(S)),
           NEW rs \in Seq(Stored(S)), rs # << >>, NEW c, NEW t, Stacks(d, << >>, us, rs, c, t),
           NEW y, NEW g, Headless(rs, y, g)
    PROVE  /\ y \in Stored(S) /\ Leads(d, y, c, t)
           /\ Mentions(y.parts) \cap Everything(<< >>, us, g) = {}
           /\ Everything(<< >>, us, g) \subseteq Everything(<< >>, us, rs)
           /\ ToUndone(S, d, us, rs, c, t, y, g)
<1>0. y = Head(rs) /\ g = Tail(rs) BY DEF Headless
<1>1. y \in Stored(S) BY <1>0, FirstOf
<1>3. g \in Seq(Stored(S)) /\ Slice(g, rs, 1) /\ Len(g) + 1 = Len(rs) /\ y = rs[1]
      /\ 1 \in 1 .. Len(rs)
  BY <1>0, TailSlice, FirstOf
<1>4. Len(g) \in Nat /\ Len(rs) \in Nat BY <1>3 DEF Slice
<1>5. Up(d, us, c, t) /\ Down(d, rs, c, t) BY EmptyStacks DEF Stacks
<1>6. Leads(d, y, c, t) /\ Down(d, g, y.back, y.begin) BY <1>3, <1>5, DownTail
<1>8. Named(g) \subseteq Named(rs) /\ Apart(g) BY <1>3, NamedSlice DEF Stacks
<1>9. Mentions(y.parts) \subseteq Named(rs) BY <1>3 DEF Named
<1>10. Mentions(y.parts) \cap Named(g) = {}
  <2>1. \A i \in 1 .. Len(g) : i + 1 \in 1 .. Len(rs) /\ i + 1 # 1 /\ Twin(g[i], rs[i + 1])
    <3> SUFFICES ASSUME NEW i \in 1 .. Len(g)
                 PROVE  i + 1 \in 1 .. Len(rs) /\ i + 1 # 1 /\ Twin(g[i], rs[i + 1])
      OBVIOUS
    <3>1. i + 1 \in 1 .. Len(rs) /\ i + 1 # 1 BY <1>3, <1>4
    <3>2. Twin(g[i], rs[i + 1]) BY <1>3, SliceDelta
    <3> QED BY <3>1, <3>2
  <2>2. \A i \in 1 .. Len(g) : Mentions(y.parts) \cap Mentions(g[i].parts) = {}
    BY <1>3, <2>1 DEF Stacks, Apart, Twin
  <2> QED BY <2>2 DEF Named
<1>11. Mentions(y.parts) \cap Everything(<< >>, us, g) = {}
  BY <1>9, <1>10, EmptyStacks DEF Stacks, Everything
<1>12. Everything(<< >>, us, g) \subseteq Everything(<< >>, us, rs) BY <1>8 DEF Everything
<1>13. ASSUME NEW e, NEW x \in Stored(S),
              \A o \in Everything(<< >>, us, g) : e.attr[o] = d.attr[o],
              Leads(e, x, y.back, y.begin), x.back = c, x.begin = t,
              Mentions(x.parts) \cap Everything(<< >>, us, rs) = {}
       PROVE  Stacks(e, << >>, Append(us, x), g, y.back, y.begin)
  <2>1. PICK h : h = Append(us, x) OBVIOUS
  <2>2. Len(h) = Len(us) + 1 /\ Slice(us, h, 0) /\ Twin(h[Len(h)], x) /\ Grown(h, us, x, Len(h))
    BY <2>1, AppendGrown
  <2>3. Len(us) \in Nat BY LenProperties
  <2>4. Down(e, g, y.back, y.begin) /\ Up(e, us, c, t)
    BY <1>4, <1>5, <1>6, <1>13, <2>3, DownOver DEF Everything
  <2>5. Up(e, h, y.back, y.begin) BY <1>13, <2>2, <2>4, UpGrown
  <2>6. /\ Apart(us) /\ Named(us) \cap Mentions(x.parts) = {}
        /\ Named(rs) \cap Mentions(x.parts) = {} /\ Named(us) \cap Named(rs) = {}
    BY <1>13 DEF Stacks, Everything
  <2>7. Apart(h) /\ Named(h) \subseteq Named(us) \cup Mentions(x.parts)
    BY <2>2, <2>6, NamedGrown
  <2>8. Named(h) \cap Named(g) = {} BY <1>8, <2>6, <2>7
  <2> QED BY <1>8, <2>1, <2>4, <2>5, <2>7, <2>8, EmptyStacks DEF Stacks
<1> QED BY <1>1, <1>6, <1>11, <1>12, <1>13 DEF ToUndone

-----------------------------------------------------------------------------
(* Documents that keep what they promise.                                    *)

Piled(D) == Stacks(D.data, D.filo, D.undos, D.redos, Start(D.data), D.data.time)

\* The open transaction knows when it began, and from what.
Tuned(D) == Opened(D) => /\ D.data.allow /\ D.limit # 0
                         /\ D.data.begin = D.data.time /\ D.data.was = Start(D.data)

\* Where a compound delta does more than take an addition back, the open
\* transaction has neither added nor forgotten.
Spares(d, f) == \A j \in 1 .. Len(f) : \A p \in f[j].parts, o \in Objects :
    p.kind # "addition" /\ d.attr[o].on /\ d.attr[o].slot = p.slot =>
        ~d.attr[o].forgotten /\ ~New(d.attr[o])

Shaped(D) == IF D.nested THEN Opened(D) <=> D.filo # << >> ELSE D.filo = << >>

Kept(S) == {D \in Documents(S) : /\ D.data \in Fine(S) /\ Piled(D) /\ Tuned(D)
                                 /\ Spares(D.data, D.filo) /\ Shaped(D)}

\* Between two transactions.
Idle(S) == {D \in Documents(S) : /\ D.data \in Fine(S) /\ Piled(D) /\ D.data.allow
                                 /\ D.data.transaction = 0
                                 /\ ~D.nested => D.filo = << >>}

LEMMA KeptFacts ==
    ASSUME NEW S \in SUBSET Objects, NEW D \in Kept(S)
    PROVE  /\ D \in Documents(S) /\ D.data \in Fine(S) /\ Piled(D) /\ Tuned(D)
           /\ Spares(D.data, D.filo) /\ Shaped(D)
           /\ D.undos \in Seq(Stored(S)) /\ D.redos \in Seq(Stored(S))
           /\ D.filo \in Seq(Stored(S))
           /\ Len(D.undos) \in Nat /\ Len(D.redos) \in Nat /\ Len(D.filo) \in Nat
           /\ (Opened(D) <=> D.data.transaction = 1) /\ D.data.transaction \in 0 .. 1
<1>1. D \in Documents(S) BY DEF Kept
<1>2. D.undos \in Seq(Stored(S)) /\ D.redos \in Seq(Stored(S)) /\ D.filo \in Seq(Stored(S))
      /\ (Opened(D) <=> D.data.transaction = 1) /\ D.data.transaction \in 0 .. 1
  BY <1>1, DocumentFacts
<1> QED BY <1>1, <1>2, LenProperties DEF Kept

LEMMA IdleFacts ==
    ASSUME NEW S \in SUBSET Objects, NEW D \in Idle(S)
    PROVE  /\ D \in Documents(S) /\ D.data \in Fine(S) /\ Piled(D) /\ D.data.allow
           /\ D.data.transaction = 0 /\ ~Opened(D) /\ (~D.nested => D.filo = << >>)
           /\ D.undos \in Seq(Stored(S)) /\ D.redos \in Seq(Stored(S))
           /\ D.filo \in Seq(Stored(S)) /\ (D.nested => D.limit # 0)
           /\ Len(D.undos) \in Nat /\ Len(D.redos) \in Nat /\ Len(D.filo) \in Nat
           /\ Start(D.data) = Visible(D.data)
<1>1. D \in Documents(S) BY DEF Idle
<1>2. D.undos \in Seq(Stored(S)) /\ D.redos \in Seq(Stored(S)) /\ D.filo \in Seq(Stored(S))
      /\ (D.nested => D.limit # 0)
  BY <1>1, DocumentFacts
<1>3. D.data \in Fine(S) /\ D.data.transaction = 0 BY DEF Idle
<1>4. Start(D.data) = Visible(D.data) BY <1>3, CleanStart
<1> QED BY <1>1, <1>2, <1>4, LenProperties DEF Idle, Opened

LEMMA SparesClean ==
    ASSUME NEW S \in SUBSET Objects, NEW d \in Fine(S), NEW f,
           d.transaction = 0 \/ \A o \in Objects : d.attr[o].trans = 0
    PROVE  Spares(d, f)
<1>1. \A o \in Objects : ~d.attr[o].forgotten /\ ~New(d.attr[o])
  BY FineFacts, CleanAttributes
<1> QED BY <1>1 DEF Spares

LEMMA AllowEffect ==
    ASSUME NEW S \in SUBSET Objects, NEW d \in Fine(S), NEW allow \in BOOLEAN
    PROVE  LET e == [d EXCEPT !.allow = allow] IN
           /\ e \in Fine(S) /\ e.attr = d.attr /\ e.transaction = d.transaction
           /\ e.allow = allow /\ e.time = d.time /\ e.begin = d.begin /\ e.was = d.was
           /\ Visible(e) = Visible(d) /\ Start(e) = Start(d)
<1>1. PICK e : e = [d EXCEPT !.allow = allow] OBVIOUS
<1>2. /\ e.attr = d.attr /\ e.transaction = d.transaction /\ e.fault = d.fault
      /\ e.allow = allow /\ e.time = d.time /\ e.begin = d.begin /\ e.was = d.was
  BY <1>1, FineFacts, FrameFacts DEF Framework
<1>3. e \in Frames(S) BY <1>1, FineFacts, AllowFrame
<1>4. e \in Fine(S) /\ Visible(e) = Visible(d) /\ Start(e) = Start(d)
  BY <1>2, <1>3, SameAttributes
<1> QED BY <1>1, <1>2, <1>4

LEMMA PiledOver ==
    ASSUME NEW S \in SUBSET Objects, NEW D \in Documents(S), Piled(D), NEW E,
           E.filo = D.filo, E.undos = D.undos, E.redos = D.redos,
           E.data.attr = D.data.attr, E.data.time = D.data.time,
           Start(E.data) = Start(D.data)
    PROVE  Piled(E)
<1>1. D.undos \in Seq(Stored(S)) /\ D.redos \in Seq(Stored(S)) /\ D.filo \in Seq(Stored(S))
  BY DocumentFacts
<1>2. Len(D.undos) \in Nat /\ Len(D.redos) \in Nat /\ Len(D.filo) \in Nat
  BY <1>1, LenProperties
<1>3. Stacks(E.data, D.filo, D.undos, D.redos, Start(D.data), D.data.time)
  BY <1>2, StacksOver DEF Piled
<1> QED BY <1>3 DEF Piled

\* The modifications allowed or denied.
LEMMA AllowedKept ==
    ASSUME NEW S \in SUBSET Objects, NEW D \in Kept(S), NEW allow \in BOOLEAN,
           Opened(D) => allow
    PROVE  LET E == WithData(D, [D.data EXCEPT !.allow = allow]) IN
           /\ E \in Kept(S) /\ Same(D, E) /\ E.filo = D.filo
           /\ E.data.transaction = D.data.transaction /\ E.data.allow = allow
           /\ E.data.attr = D.data.attr /\ E.data.time = D.data.time
           /\ Visible(E.data) = Visible(D.data) /\ Start(E.data) = Start(D.data)
<1>1. PICK d : d = [D.data EXCEPT !.allow = allow] OBVIOUS
<1>2. D \in Documents(S) /\ D.data \in Fine(S) BY KeptFacts
<1>3. /\ d \in Fine(S) /\ d.attr = D.data.attr /\ d.transaction = D.data.transaction
      /\ d.allow = allow /\ d.time = D.data.time /\ d.begin = D.data.begin
      /\ d.was = D.data.was
      /\ Visible(d) = Visible(D.data) /\ Start(d) = Start(D.data)
  BY <1>1, <1>2, AllowEffect
<1>4. PICK E : E = WithData(D, d) OBVIOUS
<1>5. /\ E \in Documents(S) /\ E.data = d /\ E.undos = D.undos /\ E.redos = D.redos
      /\ E.filo = D.filo /\ E.limit = D.limit /\ E.nested = D.nested
  <2>1. d \in Frames(S) BY <1>3, FineFacts
  <2>2. d.transaction = 1 => D.data.transaction = 1 BY <1>3
  <2> QED BY <1>2, <1>4, <2>1, <2>2, DataDocument
<1>6. Piled(E) BY <1>2, <1>3, <1>5, KeptFacts, PiledOver
<1>7. Opened(E) <=> Opened(D) BY <1>3, <1>5 DEF Opened
<1>8. Tuned(E) BY <1>3, <1>5, <1>7, KeptFacts DEF Tuned
<1>9. Spares(E.data, E.filo)
  <2>1. Spares(D.data, D.filo) BY KeptFacts
  <2> QED BY <1>3, <1>5, <2>1 DEF Spares
<1>10. Shaped(E)
  <2>1. Shaped(D) BY KeptFacts
  <2> QED BY <1>5, <1>7, <2>1 DEF Shaped
<1>11. E \in Kept(S) BY <1>3, <1>5, <1>6, <1>8, <1>9, <1>10 DEF Kept
<1> QED BY <1>1, <1>3, <1>4, <1>5, <1>11 DEF Same

LEMMA AllowKept ==
    ASSUME NEW S \in SUBSET Objects, NEW D \in Kept(S)
    PROVE  LET E == Allow(D) IN
           /\ E \in Kept(S) /\ Same(D, E) /\ E.filo = D.filo
           /\ E.data.transaction = D.data.transaction /\ E.data.allow
           /\ E.data.attr = D.data.attr /\ E.data.time = D.data.time
           /\ Visible(E.data) = Visible(D.data) /\ Start(E.data) = Start(D.data)
<1>1. PICK allow \in BOOLEAN : allow = TRUE OBVIOUS
<1>2. Allow(D) = WithData(D, [D.data EXCEPT !.allow = allow])
  BY <1>1, KeptFacts DEF Allow, WithData, Documents, Drafts
<1>3. Opened(D) => allow BY <1>1
<1>4. LET E == WithData(D, [D.data EXCEPT !.allow = allow]) IN
      /\ E \in Kept(S) /\ Same(D, E) /\ E.filo = D.filo
      /\ E.data.transaction = D.data.transaction /\ E.data.allow = allow
      /\ E.data.attr = D.data.attr /\ E.data.time = D.data.time
      /\ Visible(E.data) = Visible(D.data) /\ Start(E.data) = Start(D.data)
  BY <1>3, AllowedKept
<1> QED BY <1>1, <1>2, <1>4

LEMMA DenyKept ==
    ASSUME NEW S \in SUBSET Objects, NEW D \in Kept(S)
    PROVE  LET E == Deny(D) IN
           /\ E \in Kept(S) /\ Same(D, E) /\ E.filo = D.filo
           /\ E.data.transaction = D.data.transaction
           /\ E.data.attr = D.data.attr /\ E.data.time = D.data.time
           /\ Visible(E.data) = Visible(D.data) /\ Start(E.data) = Start(D.data)
<1>1. PICK allow \in BOOLEAN : allow = (Opened(D) /\ D.limit # 0) OBVIOUS
<1>2. D.only => Deny(D) = WithData(D, [D.data EXCEPT !.allow = allow])
  BY <1>1, KeptFacts DEF Deny, WithData, Documents, Drafts
<1>3. Opened(D) => allow BY <1>1, KeptFacts DEF Tuned
<1>4. LET E == WithData(D, [D.data EXCEPT !.allow = allow]) IN
      /\ E \in Kept(S) /\ Same(D, E) /\ E.filo = D.filo
      /\ E.data.transaction = D.data.transaction /\ E.data.allow = allow
      /\ E.data.attr = D.data.attr /\ E.data.time = D.data.time
      /\ Visible(E.data) = Visible(D.data) /\ Start(E.data) = Start(D.data)
  BY <1>3, AllowedKept
<1>5. CASE D.only BY <1>2, <1>4, <1>5
<1>6. CASE ~D.only
  <2>1. Deny(D) = D BY <1>6 DEF Deny
  <2> QED BY <2>1 DEF Same
<1> QED BY <1>5, <1>6

\* With nothing left open.
LEMMA IdleKept ==
    ASSUME NEW S \in SUBSET Objects, NEW D \in Idle(S), D.filo = << >>
    PROVE  D \in Kept(S)
<1>1. /\ D \in Documents(S) /\ D.data \in Fine(S) /\ Piled(D) /\ D.data.transaction = 0
      /\ ~Opened(D)
  BY IdleFacts
<1>2. Tuned(D) BY <1>1 DEF Tuned
<1>3. Spares(D.data, D.filo) BY <1>1, SparesClean
<1>4. Shaped(D) BY <1>1 DEF Shaped
<1> QED BY <1>1, <1>2, <1>3, <1>4 DEF Kept

LEMMA BegunKept ==
    ASSUME NEW S \in SUBSET Objects, NEW D \in Idle(S), D.limit # 0,
           D.nested => D.filo # << >>
    PROVE  LET E == Begun(D) IN
           /\ E \in Kept(S) /\ Same(D, E) /\ E.filo = D.filo
           /\ E.data.transaction = 1
           /\ Visible(E.data) = Visible(D.data) /\ Start(E.data) = Visible(D.data)
<1>1. /\ D \in Documents(S) /\ D.data \in Fine(S) /\ Piled(D) /\ D.data.transaction = 0
      /\ D.data.allow /\ Start(D.data) = Visible(D.data) /\ (~D.nested => D.filo = << >>)
  BY IdleFacts
<1>2. PICK d : d = OpenTransaction(D.data) OBVIOUS
<1>3. /\ d \in Fine(S) /\ d.attr = D.data.attr /\ d.transaction = 1
      /\ d.allow = D.data.allow /\ d.time = D.data.time /\ d.begin = D.data.time
      /\ d.was = Visible(D.data)
      /\ Visible(d) = Visible(D.data) /\ Start(d) = Start(D.data)
  BY <1>1, <1>2, OpenEffect
<1>4. PICK E : E = Begun(D) OBVIOUS
<1>5. /\ E \in Documents(S) /\ E.data = d /\ E.undos = D.undos /\ E.redos = D.redos
      /\ E.filo = D.filo /\ E.limit = D.limit /\ E.nested = D.nested
  <2>1. d \in Frames(S) BY <1>3, FineFacts
  <2>2. D.filo # << >> \/ ~D.nested OBVIOUS
  <2>3. E = WithData(D, d) BY <1>2, <1>4 DEF Begun
  <2> QED BY <1>1, <2>1, <2>2, <2>3, DataDocument
<1>6. Piled(E) BY <1>1, <1>3, <1>5, PiledOver
<1>7. Opened(E) BY <1>3, <1>5 DEF Opened
<1>8. Tuned(E) BY <1>1, <1>3, <1>5 DEF Tuned
<1>9. Spares(E.data, E.filo)
  <2>1. \A o \in Objects : D.data.attr[o].trans = 0
    <3>1. D.data \in Frames(S) BY <1>1, FineFacts
    <3> QED BY <1>1, <3>1, CleanAttributes
  <2>2. \A o \in Objects : d.attr[o].trans = 0 BY <1>3, <2>1
  <2> QED BY <1>3, <1>5, <2>2, SparesClean
<1>10. Shaped(E) BY <1>1, <1>5, <1>7 DEF Shaped
<1>11. E \in Kept(S) BY <1>3, <1>5, <1>6, <1>8, <1>9, <1>10 DEF Kept
<1> QED BY <1>1, <1>3, <1>4, <1>5, <1>11 DEF Same

-----------------------------------------------------------------------------
(* The calls on documents that keep what they promise.                       *)

\* A commit, its delta on the way to where it is kept.
LEMMA CommitFlight ==
    ASSUME NEW S \in SUBSET Objects, NEW d \in Fine(S), d.transaction = 1,
           d.begin = d.time, d.was = Start(d),
           NEW f \in Seq(Stored(S)), NEW us \in Seq(Stored(S)), NEW rs \in Seq(Stored(S)),
           Stacks(d, f, us, rs, Start(d), d.time), Spares(d, f)
    PROVE  LET e == Commit(d).data
               x == Commit(d).delta IN
           /\ e \in Fine(S) /\ e.transaction = 0 /\ e.allow = d.allow /\ x \in Stored(S)
           /\ Visible(e) = Visible(d) /\ Start(e) = Visible(d)
           /\ Stacks(e, f, us, rs, Start(d), d.time)
           /\ Flies(e, x, Visible(d), e.time, Start(d), d.time)
           /\ Joins(x, f, us, rs)
<1>1. PICK e : e = Commit(d).data OBVIOUS
<1>2. PICK x : x = Commit(d).delta OBVIOUS
<1>3. /\ e \in Fine(S) /\ e.transaction = 0 /\ e.allow = d.allow /\ x \in Stored(S)
      /\ Visible(e) = Visible(d)
      /\ \A o \in Objects : ~d.attr[o].on => e.attr[o] = d.attr[o]
      /\ \A o \in Mentions(x.parts) : o \in Objects /\ d.attr[o].on /\ d.attr[o].forgotten
      /\ \A p \in x.parts : p.kind # "modification" =>
            \E o \in Objects : /\ d.attr[o].on /\ d.attr[o].slot = p.slot
                               /\ d.attr[o].forgotten \/ New(d.attr[o])
      /\ Fits(e, x.parts, Visible(d), Start(d))
      /\ Whole(e, x.parts)
      /\ x.parts = {} => x = NullDelta /\ e.time = d.time
      /\ x.parts # {} => x.begin = d.begin /\ x.end = e.time /\ x.back = d.was
  BY <1>1, <1>2, CommitEffect
<1>4. \A o \in Everything(f, us, rs) : o \in Objects /\ ~d.attr[o].on BY EverythingOff
<1>5. Stacks(e, f, us, rs, Start(d), d.time)
  <2>1. \A o \in Everything(f, us, rs) : e.attr[o] = d.attr[o] BY <1>3, <1>4
  <2>2. Len(f) \in Nat /\ Len(us) \in Nat /\ Len(rs) \in Nat BY LenZero
  <2> QED BY <2>1, <2>2, StacksOver
<1>6. Mentions(x.parts) \cap Everything(f, us, rs) = {} BY <1>3, <1>4
<1>7. ASSUME NEW j \in 1 .. Len(f) PROVE Blends(f[j].parts, x.parts)
  <2> SUFFICES ASSUME NEW p \in f[j].parts, NEW q \in x.parts, p.kind # "addition",
                      p.slot = q.slot, q.kind # "modification"
               PROVE  FALSE
    BY DEF Blends
  <2>1. PICK o \in Objects : /\ d.attr[o].on /\ d.attr[o].slot = q.slot
                             /\ d.attr[o].forgotten \/ New(d.attr[o])
    BY <1>3
  <2> QED BY <2>1 DEF Spares
<1>8. Flies(e, x, Visible(d), e.time, Start(d), d.time)
  <2>1. CASE x.parts = {}
    <3>1. \A s \in Slots : Visible(d)[s] = Start(d)[s] BY <1>3, <2>1 DEF Fits, Here
    <3>2. Visible(d) \in Contents /\ Start(d) \in Contents
      BY StartContents, VisibleContents, FineFacts, FrameFacts
    <3>3. Visible(d) = Start(d) BY <3>1, <3>2, SameContents
    <3> QED BY <1>3, <2>1, <3>3 DEF Flies
  <2>2. CASE x.parts # {} BY <1>3, <2>2 DEF Flies, Leads
  <2> QED BY <2>1, <2>2
<1>9. Start(e) = Visible(d) BY <1>3, CleanStart
<1>10. /\ e \in Fine(S) /\ e.transaction = 0 /\ e.allow = d.allow /\ x \in Stored(S)
       /\ Visible(e) = Visible(d) /\ Start(e) = Visible(d)
       /\ Stacks(e, f, us, rs, Start(d), d.time)
       /\ Flies(e, x, Visible(d), e.time, Start(d), d.time)
       /\ Joins(x, f, us, rs)
  BY <1>3, <1>5, <1>6, <1>7, <1>8, <1>9 DEF Joins
<1> QED BY <1>10, <1>1, <1>2, Zenon

-----------------------------------------------------------------------------
(* Commits and aborts that keep it.                                         *)

LEMMA MakeIdle ==
    ASSUME NEW S \in SUBSET Objects, NEW D \in Documents(S), NEW d \in Fine(S),
           D.data = d, d.transaction = 0, d.allow,
           Stacks(d, D.filo, D.undos, D.redos, Visible(d), d.time),
           ~D.nested => D.filo = << >>
    PROVE  D \in Idle(S)
<1>1. Start(d) = Visible(d) BY CleanStart
<1> QED BY <1>1 DEF Idle, Piled

\* The compound deltas of the open commands go back to the same contents, or to
\* those of all but the innermost.
Backs(g, f) == Len(g) = Len(f) /\ \A j \in 1 .. Len(f) : g[j].back = f[j].back
Unstacked(g, f) == /\ Len(g) + 1 = Len(f)
                   /\ \A j \in 1 .. Len(g) : g[j].back = f[j + 1].back

\* The undos and a new delta, but for marks, and perhaps without the oldest.
Longer(us, x, k, vs) == /\ Slice(vs, Append(us, x), k)
                        /\ Len(vs) + k = Len(us) + 1
                        /\ k \in {0, 1} /\ (k = 1 => us # << >>)
Logged(us, x, vs, qs) == qs = << >> /\ \E k : Longer(us, x, k, vs)

\* What the outermost command, which started from b, did to c is in the undos,
\* if anything.
Recording(S, D, E, b, c) ==
    \/ b = c /\ E.undos = D.undos /\ E.redos = D.redos
    \/ \E x \in Stored(S) : x.back = b /\ Logged(D.undos, x, E.undos, E.redos)

LEMMA LoggedWhole ==
    ASSUME NEW S, NEW us \in Seq(Stored(S)), NEW x \in Stored(S)
    PROVE  Logged(us, x, Append(us, x), << >>)
<1>1. PICK vs \in Seq(Stored(S)) : vs = Append(us, x) BY AppendProperties
<1>2. Len(vs) = Len(us) + 1 /\ Len(us) \in Nat BY <1>1, AppendProperties, LenProperties
<1>3. Slice(vs, vs, 0) BY EmptySlice
<1>4. Longer(us, x, 0, vs) BY <1>1, <1>2, <1>3 DEF Longer
<1> QED BY <1>1, <1>4 DEF Logged

LEMMA HeadedBacks ==
    ASSUME NEW g, NEW f, NEW m, Headed(g, f, m), m.back = f[1].back
    PROVE  Backs(g, f)
BY DEF Headed, Backs

\* The delta of a command inside another, or of an outermost command, kept.
LEMMA PassedOnKept ==
    ASSUME NEW S \in SUBSET Objects, NEW D \in Documents(S), D.nested,
           NEW d \in Fine(S), D.data = d, d.transaction = 0, d.allow,
           NEW x \in Stored(S), NEW b, NEW u, Stacks(d, D.filo, D.undos, D.redos, b, u),
           Flies(d, x, Visible(d), d.time, b, u),
           Joins(x, D.filo, D.undos, D.redos)
    PROVE  LET E == PassedOn(D, x) IN
           /\ E \in Kept(S) /\ Stays(D, E) /\ Visible(E.data) = Visible(D.data)
           /\ D.filo # << >> => /\ E.undos = D.undos /\ E.redos = D.redos
                                /\ Backs(E.filo, D.filo)
           /\ D.filo = << >> => /\ E.filo = << >> /\ ~Opened(E)
                                /\ x.back = b => Recording(S, D, E, b, Visible(d))
<1>1. /\ D.undos \in Seq(Stored(S)) /\ D.redos \in Seq(Stored(S)) /\ D.filo \in Seq(Stored(S))
      /\ D.limit # 0
  BY DocumentFacts
<1>2. PICK E : E = PassedOn(D, x) OBVIOUS
<1>3. E \in Documents(S) /\ Stays(D, E) BY <1>2, PassedOnDocument
<1>4. CASE D.filo # << >>
  <2>1. PICK g : g = [D.filo EXCEPT ![1] = AppendDelta(D.filo[1], x)] OBVIOUS
  <2>2. g \in Seq(Stored(S)) /\ Headed(g, D.filo, AppendDelta(D.filo[1], x))
        /\ Stacks(d, g, D.undos, D.redos, Visible(d), d.time) /\ Backs(g, D.filo)
    <3>1. PICK f \in Seq(Stored(S)) : f = D.filo BY <1>1
    <3>2. PICK us : us = D.undos OBVIOUS
    <3>3. PICK rs : rs = D.redos OBVIOUS
    <3>4. PICK c : c = Visible(d) OBVIOUS
    <3>5. PICK t : t = d.time OBVIOUS
    <3>6. /\ f # << >> /\ Stacks(d, f, us, rs, b, u) /\ Flies(d, x, c, t, b, u)
          /\ Joins(x, f, us, rs)
      BY <1>4, <3>1, <3>2, <3>3, <3>4, <3>5
    <3>7. PICK m \in Stored(S) : m = AppendDelta(f[1], x) /\ m.back = f[1].back
      BY <3>6, FirstOf, AppendedFacts
    <3>8. g \in Seq(Stored(S)) /\ Headed(g, f, m) BY <2>1, <3>1, <3>6, <3>7, SwappedHead
    <3>9. Stacks(d, g, us, rs, c, t) BY <3>6, <3>7, <3>8, Merged
    <3>10. Backs(g, f) BY <3>7, <3>8, HeadedBacks
    <3> QED BY <3>1, <3>2, <3>3, <3>4, <3>5, <3>7, <3>8, <3>9, <3>10
  <2>3. PICK G : G = [D EXCEPT !.filo = g] OBVIOUS
  <2>4. G \in Documents(S) /\ Same(D, G) /\ G.filo = g /\ G.data = d
    BY <2>2, <2>3, FiloDocument
  <2>5. G.undos = D.undos /\ G.redos = D.redos /\ G.limit = D.limit /\ G.nested = D.nested
    BY <2>4 DEF Same
  <2>6. G \in Idle(S) BY <2>2, <2>4, <2>5, MakeIdle
  <2>7. G.filo # << >> BY <1>1, <1>4, <2>2, <2>4, LenZero DEF Headed
  <2>8. E = Begun(G)
    <3>1. D \in Drafts(S) BY DEF Documents
    <3>2. [D EXCEPT !.filo[1] = AppendDelta(@, x)] = G BY <2>1, <2>3, <3>1 DEF Drafts
    <3> QED BY <1>2, <1>4, <3>2 DEF PassedOn
  <2>9. E \in Kept(S) /\ Visible(E.data) = Visible(G.data) /\ Same(G, E) /\ E.filo = G.filo
    BY <1>1, <2>5, <2>6, <2>7, <2>8, BegunKept
  <2> QED BY <1>2, <1>3, <1>4, <2>2, <2>4, <2>5, <2>9 DEF Same
<1>5. CASE D.filo = << >> /\ x.parts = {}
  <2>1. E = D BY <1>2, <1>5 DEF PassedOn
  <2>2. Visible(d) = b /\ d.time = u BY <1>5 DEF Flies
  <2>3. D \in Idle(S) BY <2>2, MakeIdle
  <2>4. D \in Kept(S) BY <1>5, <2>3, IdleKept
  <2>5. Recording(S, D, E, b, Visible(d)) BY <2>1, <2>2 DEF Recording
  <2>6. ~Opened(E) BY <2>1 DEF Opened
  <2> QED BY <1>2, <1>3, <1>5, <2>1, <2>4, <2>5, <2>6
<1>6. CASE D.filo = << >> /\ x.parts # {}
  <2>1. E = [D EXCEPT !.undos = Append(@, x), !.redos = << >>] BY <1>2, <1>6 DEF PassedOn
  <2>2. /\ E.undos = Append(D.undos, x) /\ E.redos = << >> /\ E.filo = << >>
        /\ E.data = d
    BY <1>6, <2>1 DEF Documents, Drafts
  <2>3. Stacks(d, << >>, Append(D.undos, x), << >>, Visible(d), d.time)
    <3>1. Leads(d, x, Visible(d), d.time) /\ x.back = b /\ x.begin = u BY <1>6 DEF Flies
    <3>2. Mentions(x.parts) \cap Everything(<< >>, D.undos, D.redos) = {} BY <1>6 DEF Joins
    <3> QED BY <1>1, <1>6, <3>1, <3>2, Banked
  <2>4. E \in Idle(S) BY <1>3, <2>2, <2>3, MakeIdle
  <2>5. E \in Kept(S) BY <2>2, <2>4, IdleKept
  <2>6. x.back = b => Recording(S, D, E, b, Visible(d))
    <3>1. Logged(D.undos, x, E.undos, E.redos) BY <1>1, <2>2, LoggedWhole
    <3> QED BY <3>1 DEF Recording
  <2>7. ~Opened(E) BY <2>2 DEF Opened
  <2> QED BY <1>2, <1>3, <1>6, <2>2, <2>5, <2>6, <2>7
<1> QED BY <1>4, <1>5, <1>6

\* Deltas that differ in their marks only.
Alike(g, f) == Slice(g, f, 0) /\ Len(g) = Len(f)

LEMMA MarkAlike ==
    ASSUME NEW S, NEW f \in Seq(Stored(S)), NEW i \in 1 .. Len(f)
    PROVE  LET g == [f EXCEPT ![i].mark = TRUE] IN g \in Seq(Stored(S)) /\ Alike(g, f)
<1>1. PICK x \in Stored(S) : x = f[i] BY ElementOfSeq
<1>2. PICK e : e = [x EXCEPT !.mark = TRUE] OBVIOUS
<1>3. e \in Stored(S)
  <2>1. TRUE \in BOOLEAN OBVIOUS
  <2> QED BY <1>2, <2>1, MarkStored
<1>4. Twin(e, x)
  <2>1. x \in Delta BY DEF Stored
  <2> QED BY <1>2, <2>1 DEF Twin, Delta
<1>5. PICK g : g = [f EXCEPT ![i] = e] OBVIOUS
<1>6. g \in Seq(Stored(S)) /\ Len(g) = Len(f) BY <1>3, <1>5, ExceptSeq
<1>7. \A j \in 1 .. Len(f) : g[j] = IF j = i THEN e ELSE f[j] BY <1>3, <1>5, ExceptSeq
<1>8. Alike(g, f)
  <2>1. Len(f) \in Nat BY LenProperties
  <2>2. ASSUME NEW j \in 1 .. Len(g) PROVE Twin(g[j], f[j + 0])
    <3>1. j + 0 = j BY <1>6, <2>1
    <3> QED BY <1>1, <1>4, <1>6, <1>7, <3>1 DEF Twin
  <2> QED BY <1>6, <2>1, <2>2 DEF Alike, Slice
<1>9. [f EXCEPT ![i].mark = TRUE] = g BY <1>1, <1>2, <1>5
<1> QED BY <1>6, <1>8, <1>9

LEMMA AlikeSlice ==
    ASSUME NEW f, NEW g, NEW h, NEW k, Alike(g, f), Slice(f, h, k)
    PROVE  Slice(g, h, k) /\ Len(g) = Len(f)
<1>1. Len(g) = Len(f) /\ Len(f) \in Nat BY DEF Alike, Slice
<1>2. ASSUME NEW i \in 1 .. Len(g) PROVE Twin(g[i], h[i + k])
  <2>1. i + 0 = i BY <1>1
  <2>2. Twin(g[i], f[i]) BY <2>1 DEF Alike, Slice
  <2>3. Twin(f[i], h[i + k]) BY <1>1 DEF Slice
  <2> QED BY <2>2, <2>3 DEF Twin
<1> QED BY <1>1, <1>2 DEF Slice

\* A new undo at the end of the list, the oldest one perhaps dropped.
LEMMA PushedKept ==
    ASSUME NEW S \in SUBSET Objects, NEW D \in Documents(S), ~D.nested, D.filo = << >>,
           NEW d \in Fine(S), D.data = d, d.transaction = 0, d.allow,
           NEW x \in Stored(S), NEW b, NEW u, Stacks(d, << >>, D.undos, D.redos, b, u),
           Leads(d, x, Visible(d), d.time), x.back = b, x.begin = u,
           Mentions(x.parts) \cap Everything(<< >>, D.undos, D.redos) = {}, D.limit # 0
    PROVE  LET E == Pushed(D, x) IN
           /\ E \in Kept(S) /\ Stays(D, E) /\ E.data = d /\ E.filo = << >>
           /\ Logged(D.undos, x, E.undos, E.redos)
<1> DEFINE us == Append(D.undos, x)
           rest == Tail(us)
           moved == [rest EXCEPT ![1].mark = TRUE]
<1>1. us \in Seq(Stored(S)) /\ us # << >> BY DocumentFacts, AppendProperties
<1>2. PICK E : E = Pushed(D, x) OBVIOUS
<1>3. E \in Documents(S) /\ Stays(D, E) BY <1>2, PushedDocument
<1>4. /\ E.data = d /\ E.filo = << >> /\ E.redos = << >> /\ E.undos \in {us, rest, moved}
      /\ E.undos = us \/ Len(us) > D.limit
  <2>1. D \in Drafts(S) BY DEF Documents
  <2>2. PICK clear : clear = [D EXCEPT !.redos = << >>] OBVIOUS
  <2>3. clear.data = d /\ clear.filo = << >> /\ clear.redos = << >>
        /\ DOMAIN clear = DOMAIN D
    BY <2>1, <2>2 DEF Drafts
  <2>4. \/ E = [clear EXCEPT !.undos = us]
        \/ /\ ~(Len(us) <= D.limit)
           /\ E \in {[clear EXCEPT !.undos = rest], [clear EXCEPT !.undos = moved],
                     [clear EXCEPT !.undos = rest, !.from = FALSE, !.fromRedo = FALSE]}
    BY <1>2, <2>2 DEF Pushed
  <2>5. DOMAIN D = {"data", "undos", "redos", "filo", "limit", "nested", "only", "from",
                    "fromRedo"}
    BY <2>1 DEF Drafts
  <2>6. Len(us) \in Nat /\ D.limit \in Nat BY <1>1, LenProperties, DocumentFacts
  <2> HIDE DEF us, rest, moved
  <2>7. CASE E = [clear EXCEPT !.undos = us] BY <2>2, <2>3, <2>5, <2>7
  <2>8. CASE /\ ~(Len(us) <= D.limit)
             /\ E \in {[clear EXCEPT !.undos = rest], [clear EXCEPT !.undos = moved],
                       [clear EXCEPT !.undos = rest, !.from = FALSE, !.fromRedo = FALSE]}
    <3>1. Len(us) > D.limit BY <2>6, <2>8
    <3>2. /\ E.data = d /\ E.filo = << >> /\ E.redos = << >> /\ E.undos \in {rest, moved}
      BY <2>2, <2>3, <2>5, <2>8
    <3> QED BY <3>1, <3>2
  <2> QED BY <2>4, <2>7, <2>8
<1>5. Stacks(d, << >>, us, << >>, Visible(d), d.time)
  <2>1. PICK c : c = Visible(d) OBVIOUS
  <2>2. PICK t : t = d.time OBVIOUS
  <2>3. D.undos \in Seq(Stored(S)) /\ D.redos \in Seq(Stored(S)) BY DocumentFacts
  <2>4. Leads(d, x, c, t) BY <2>1, <2>2
  <2> QED BY <2>1, <2>2, <2>3, <2>4, Banked
<1>6. \E k : /\ Slice(E.undos, us, k) /\ Len(E.undos) + k = Len(us)
             /\ k = 0 \/ (k = 1 /\ Len(us) > D.limit)
  <2> HIDE DEF us
  <2>1. rest \in Seq(Stored(S)) /\ Slice(rest, us, 1) /\ Len(rest) + 1 = Len(us)
    BY <1>1, TailSlice, FirstOf
  <2>2. Slice(us, us, 0) /\ Len(us) + 0 = Len(us)
    <3>1. Len(us) \in Nat BY <1>1, LenProperties
    <3> QED BY <1>1, <3>1, EmptySlice
  <2>3. Slice(moved, us, 1) /\ Len(moved) + 1 = Len(us)
    <3> HIDE DEF rest
    <3>1. CASE rest = << >>
      <4>1. moved = rest BY <3>1
      <4> QED BY <2>1, <4>1
    <3>2. CASE rest # << >>
      <4>1. 1 \in 1 .. Len(rest) BY <2>1, <3>2, EmptySeq
      <4>2. Alike(moved, rest) BY <2>1, <4>1, MarkAlike
      <4> HIDE DEF moved
      <4>3. Slice(moved, us, 1) /\ Len(moved) = Len(rest) BY <2>1, <4>2, AlikeSlice
      <4> QED BY <2>1, <4>3
    <3> QED BY <3>1, <3>2
  <2>4. CASE E.undos = us
    <3>1. Slice(E.undos, us, 0) /\ Len(E.undos) + 0 = Len(us) BY <2>2, <2>4
    <3> QED BY <3>1
  <2>5. CASE E.undos \in {rest, moved} /\ Len(us) > D.limit
    <3> HIDE DEF rest, moved
    <3> QED BY <2>1, <2>3, <2>5
  <2> HIDE DEF rest, moved
  <2> QED BY <1>4, <2>4, <2>5
<1>7. Stacks(d, << >>, E.undos, << >>, Visible(d), d.time)
  <2>1. PICK k : Slice(E.undos, us, k) /\ Len(E.undos) + k = Len(us) BY <1>6
  <2>2. PICK vs : vs = E.undos OBVIOUS
  <2>3. PICK qs \in Seq(Stored(S)) : qs = << >> BY EmptySeq
  <2>4. Slice(qs, qs, 0) BY EmptySlice
  <2>5. PICK c : c = Visible(d) OBVIOUS
  <2>6. PICK t : t = d.time OBVIOUS
  <2>7. PICK f : f = << >> OBVIOUS
  <2>8. Stacks(d, f, us, qs, c, t) /\ Slice(vs, us, k) /\ Len(vs) + k = Len(us)
    BY <1>5, <2>1, <2>2, <2>3, <2>5, <2>6, <2>7
  <2> HIDE DEF us
  <2>9. Stacks(d, f, vs, qs, c, t) BY <2>4, <2>8, Thinned
  <2> QED BY <2>2, <2>3, <2>5, <2>6, <2>7, <2>9
<1>8. E \in Idle(S) BY <1>3, <1>4, <1>7, MakeIdle
<1>9. E \in Kept(S) BY <1>4, <1>8, IdleKept
<1>10. Logged(D.undos, x, E.undos, E.redos)
  <2>1. PICK k : /\ Slice(E.undos, us, k) /\ Len(E.undos) + k = Len(us)
                 /\ k = 0 \/ (k = 1 /\ Len(us) > D.limit)
    BY <1>6
  <2>2. Len(us) = Len(D.undos) + 1 /\ Len(D.undos) \in Nat /\ D.limit \in Nat
    BY DocumentFacts, AppendProperties, LenProperties
  <2>3. D.undos = << >> => Len(D.undos) = 0 OBVIOUS
  <2>4. k = 1 => D.undos # << >>
    <3> HIDE DEF us
    <3> QED BY <2>1, <2>2, <2>3
  <2>5. Longer(D.undos, x, k, E.undos) BY <2>1, <2>2, <2>4 DEF Longer
  <2> QED BY <1>4, <2>5 DEF Logged
<1> QED BY <1>2, <1>3, <1>4, <1>9, <1>10

\* An inner command's delta goes to the one around it, an outermost one's to the
\* undos.
Delivered(S, D, E) ==
    /\ ~Opened(D) => /\ E.undos = D.undos /\ E.redos = D.redos
                     /\ ~Opened(E) /\ E.filo = D.filo
    /\ Opened(D) /\ Len(D.filo) > 1 => /\ E.undos = D.undos /\ E.redos = D.redos
                                       /\ Unstacked(E.filo, D.filo)
    /\ Opened(D) /\ Len(D.filo) =< 1 =>
          /\ E.filo = << >> /\ ~Opened(E)
          /\ Recording(S, D, E, Foot(D.filo, Start(D.data)), Visible(D.data))

LEMMA CommitKept ==
    ASSUME NEW S \in SUBSET Objects, NEW D \in Kept(S)
    PROVE  LET E == CommitTransaction(D) IN
           /\ E \in Kept(S) /\ Stays(D, E) /\ Visible(E.data) = Visible(D.data)
           /\ ~D.nested => ~Opened(E)
           /\ Delivered(S, D, E)
<1>1. PICK A : A = Allow(D) OBVIOUS
<1>2. /\ A \in Kept(S) /\ Same(D, A) /\ A.filo = D.filo
      /\ A.data.transaction = D.data.transaction
      /\ Visible(A.data) = Visible(D.data)
  BY <1>1, AllowKept
<1>3. /\ A \in Documents(S) /\ A.undos = D.undos /\ A.redos = D.redos
      /\ A.limit = D.limit /\ A.nested = D.nested
      /\ (Opened(A) <=> Opened(D)) /\ (Opened(D) <=> D.data.transaction = 1)
  BY <1>2, KeptFacts DEF Same
<1>4. PICK d : d = D.data OBVIOUS
<1>5. PICK f \in Seq(Stored(S)) : f = D.filo BY KeptFacts
<1>6. PICK us \in Seq(Stored(S)) : us = D.undos BY KeptFacts
<1>7. PICK rs \in Seq(Stored(S)) : rs = D.redos BY KeptFacts
<1>8. /\ d \in Fine(S) /\ Stacks(d, f, us, rs, Start(d), d.time) /\ Spares(d, f)
      /\ Tuned(D) /\ Shaped(D)
  BY <1>4, <1>5, <1>6, <1>7, KeptFacts DEF Piled
<1>9. PICK e : e = Commit(d).data OBVIOUS
<1>10. PICK x : x = Commit(d).delta OBVIOUS
<1>11. PICK c \in Contents : c = Visible(d)
  BY <1>8, FineFacts, FrameFacts, VisibleContents
<1>12. PICK b : b = Start(d) OBVIOUS
<1>13. PICK u : u = d.time OBVIOUS
<1>14. ASSUME Opened(D)
       PROVE  /\ e \in Fine(S) /\ e.transaction = 0 /\ e.allow /\ x \in Stored(S)
              /\ Visible(e) = c
              /\ Stacks(e, f, us, rs, b, u)
              /\ Flies(e, x, c, e.time, b, u)
              /\ Joins(x, f, us, rs)
  <2>1. d.transaction = 1 /\ d.begin = d.time /\ d.was = Start(d) /\ d.allow
    BY <1>3, <1>4, <1>8, <1>14 DEF Tuned
  <2> QED BY <1>8, <1>9, <1>10, <1>11, <1>12, <1>13, <2>1, CommitFlight
<1>15. PICK C : C = Closing(A, Commit(d)) OBVIOUS
<1>16. ASSUME D.nested, Opened(D)
       PROVE  C \in Kept(S) /\ Stays(D, C) /\ Visible(C.data) = c /\ Delivered(S, D, C)
  <2>1. /\ e \in Fine(S) /\ e.transaction = 0 /\ e.allow /\ x \in Stored(S)
        /\ Visible(e) = c /\ Stacks(e, f, us, rs, b, u)
        /\ Flies(e, x, c, e.time, b, u) /\ Joins(x, f, us, rs)
    BY <1>14, <1>16
  <2>2. f # << >> BY <1>5, <1>8, <1>16 DEF Shaped
  <2>3. PICK m \in Stored(S) : m = AppendDelta(f[1], x) /\ m.back = f[1].back
    BY <2>1, <2>2, FirstOf, AppendedFacts
  <2>4. PICK h : h = [f EXCEPT ![1] = m] OBVIOUS
  <2>5. h \in Seq(Stored(S)) /\ h # << >> /\ Headed(h, f, m) BY <2>2, <2>4, SwappedHead
  <2>6. PICK t : t = e.time OBVIOUS
  <2>7. Stacks(e, h, us, rs, c, t) BY <2>1, <2>2, <2>3, <2>5, <2>6, Merged
  <2>8. h[1] = m
    <3>1. 1 \in 1 .. Len(f) BY <2>2, EmptySeq
    <3> QED BY <2>5, <3>1 DEF Headed
  <2>9. PICK g : g = Tail(h) OBVIOUS
  <2>10. /\ g \in Seq(Stored(S)) /\ Stacks(e, g, us, rs, m.back, m.begin)
         /\ Flies(e, m, c, t, m.back, m.begin) /\ Joins(m, g, us, rs)
    BY <2>5, <2>7, <2>8, <2>9, Popped
  <2>11. Tail(f) = g
    <3>1. Len(h) = Len(f) /\ \A j \in 1 .. Len(f) : j # 1 => h[j] = f[j]
      BY <2>5 DEF Headed
    <3>2. Tail(f) \in Seq(Stored(S)) /\ Len(Tail(f)) = Len(f) - 1
          /\ \A i \in 1 .. Len(f) - 1 : Tail(f)[i] = f[i + 1]
      BY <2>2, HeadTailProperties
    <3>3. Len(g) = Len(h) - 1 /\ \A i \in 1 .. Len(h) - 1 : g[i] = h[i + 1]
      BY <2>5, <2>9, HeadTailProperties
    <3>4. Len(f) \in Nat BY LenProperties
    <3>5. \A i \in 1 .. Len(f) - 1 : i + 1 \in 1 .. Len(f) /\ i + 1 # 1 BY <3>4
    <3>6. \A i \in 1 .. Len(f) - 1 : Tail(f)[i] = g[i] BY <3>1, <3>2, <3>3, <3>5
    <3> QED BY <2>10, <3>1, <3>2, <3>3, <3>6, SeqEqual
  <2>12. PICK B : B = WithData([A EXCEPT !.filo = g], e) OBVIOUS
  <2>13. B \in Documents(S) /\ Same(A, B) /\ B.filo = g /\ B.data = e
    <3>1. e \in Frames(S) BY <2>1, FineFacts
    <3> QED BY <1>3, <2>1, <2>10, <2>12, <3>1, ClosedDocument
  <2>14. /\ B.undos = us /\ B.redos = rs /\ B.nested /\ Stays(D, B)
    BY <1>3, <1>6, <1>7, <1>16, <2>13 DEF Same, Stays
  <2>15. C = PassedOn(B, m)
    <3>1. A.filo = f BY <1>2, <1>5
    <3>2. B = WithData([A EXCEPT !.filo = Tail(@)], Commit(d).data)
      <4>1. A \in Drafts(S) BY <1>3 DEF Documents
      <4>2. [A EXCEPT !.filo = Tail(@)] = [A EXCEPT !.filo = g]
        BY <2>11, <3>1, <4>1 DEF Drafts
      <4> QED BY <1>9, <2>12, <4>2
    <3>3. A.nested /\ Opened(A) BY <1>3, <1>16
    <3> QED BY <1>10, <1>15, <2>3, <3>1, <3>2, <3>3 DEF Closing, CommitNested
  <2>16. PICK p : p = m.back OBVIOUS
  <2>17. PICK q : q = m.begin OBVIOUS
  <2>18. /\ Stacks(e, B.filo, B.undos, B.redos, p, q)
         /\ Flies(e, m, Visible(e), e.time, p, q)
         /\ Joins(m, B.filo, B.undos, B.redos)
    BY <2>1, <2>6, <2>10, <2>13, <2>14, <2>16, <2>17
  <2>19. /\ C \in Kept(S) /\ Stays(B, C) /\ Visible(C.data) = Visible(B.data)
         /\ B.filo # << >> => /\ C.undos = B.undos /\ C.redos = B.redos
                              /\ Backs(C.filo, B.filo)
         /\ B.filo = << >> => /\ C.filo = << >> /\ ~Opened(C)
                              /\ Recording(S, B, C, p, Visible(e))
    <3>1. m.back = p BY <2>16
    <3>2. C \in Kept(S) /\ Stays(B, C) /\ Visible(C.data) = Visible(B.data)
      BY <2>1, <2>3, <2>13, <2>14, <2>15, <2>18, PassedOnKept
    <3>3. B.filo # << >> => /\ C.undos = B.undos /\ C.redos = B.redos
                            /\ Backs(C.filo, B.filo)
      BY <2>1, <2>3, <2>13, <2>14, <2>15, <2>18, PassedOnKept
    <3>4. B.filo = << >> => /\ C.filo = << >> /\ ~Opened(C)
                            /\ m.back = p => Recording(S, B, C, p, Visible(e))
      BY <2>1, <2>3, <2>13, <2>14, <2>15, <2>18, PassedOnKept
    <3> QED BY <3>1, <3>2, <3>3, <3>4
  <2>20. Delivered(S, D, C)
    <3>1. Len(f) \in Nat /\ Len(g) + 1 = Len(f) /\ \A j \in 1 .. Len(g) : g[j] = f[j + 1]
      <4>1. Tail(f) \in Seq(Stored(S)) /\ Len(Tail(f)) = Len(f) - 1
            /\ \A i \in 1 .. Len(f) - 1 : Tail(f)[i] = f[i + 1]
        BY <2>2, HeadTailProperties
      <4>2. Len(f) \in Nat /\ Len(f) # 0 BY <2>2, EmptySeq, LenProperties
      <4>3. Len(g) = Len(f) - 1 /\ \A i \in 1 .. Len(f) - 1 : g[i] = f[i + 1]
        BY <2>11, <4>1
      <4>4. PICK n \in Nat : n = Len(f) BY <4>2
      <4>5. Len(g) = n - 1 /\ \A i \in 1 .. n - 1 : g[i] = f[i + 1] BY <4>3, <4>4
      <4>6. (n - 1) + 1 = n BY <4>4
      <4> QED BY <4>4, <4>5, <4>6
    <3>2. g = << >> <=> Len(g) = 0 BY <2>10, EmptySeq
    <3>3. Len(g) \in Nat BY <2>10, LenProperties
    <3>4. CASE g = << >>
      <4>1. Len(f) = 1 BY <3>1, <3>2, <3>4
      <4>2. Foot(f, b) = p BY <2>3, <2>16, <4>1 DEF Foot
      <4>3. Recording(S, D, C, p, c)
        BY <1>6, <1>7, <2>1, <2>13, <2>14, <2>19, <3>4 DEF Recording
      <4>4. C.filo = << >> /\ ~Opened(C) BY <2>13, <2>19, <3>4
      <4>5. ~(Len(f) > 1) BY <4>1
      <4> QED BY <1>4, <1>5, <1>11, <1>12, <1>16, <4>2, <4>3, <4>4, <4>5 DEF Delivered
    <3>5. CASE g # << >>
      <4>1. ~(Len(f) =< 1) BY <3>1, <3>2, <3>3, <3>5
      <4>2. Backs(C.filo, g) BY <2>13, <2>19, <3>5
      <4>3. Unstacked(C.filo, f) BY <3>1, <4>2 DEF Backs, Unstacked
      <4>4. C.undos = D.undos /\ C.redos = D.redos
        BY <1>6, <1>7, <2>13, <2>14, <2>19, <3>5
      <4> QED BY <1>5, <1>16, <4>1, <4>3, <4>4 DEF Delivered
    <3> QED BY <3>4, <3>5
  <2> QED BY <2>1, <2>13, <2>14, <2>19, <2>20 DEF Stays
<1>17. ASSUME ~(D.nested /\ Opened(D))
       PROVE  /\ C \in Kept(S) /\ Stays(D, C) /\ Visible(C.data) = c
              /\ ~D.nested => ~Opened(C)
              /\ Delivered(S, D, C)
  <2>1. C = CommitFlat(A, Commit(d)) BY <1>3, <1>15, <1>17 DEF Closing
  <2>2. CASE A.limit = 0 \/ ~Opened(A)
    <3>1. C = A BY <2>1, <2>2 DEF CommitFlat
    <3>2. ~Opened(A) BY <1>3, <1>8, <2>2 DEF Tuned
    <3>3. Delivered(S, D, C) BY <1>2, <1>3, <3>1, <3>2 DEF Delivered
    <3> QED BY <1>2, <1>3, <1>4, <1>11, <3>1, <3>2, <3>3 DEF Stays
  <2>3. CASE ~(A.limit = 0 \/ ~Opened(A))
    <3>1. Opened(D) /\ ~D.nested BY <1>3, <1>17, <2>3
    <3>2. /\ e \in Fine(S) /\ e.transaction = 0 /\ e.allow /\ x \in Stored(S)
          /\ Visible(e) = c /\ Stacks(e, f, us, rs, b, u)
          /\ Flies(e, x, c, e.time, b, u) /\ Joins(x, f, us, rs)
      BY <1>14, <3>1
    <3>3. f = << >> BY <1>5, <1>8, <3>1 DEF Shaped
    <3>8. Len(D.filo) =< 1 /\ ~(Len(D.filo) > 1) /\ Foot(D.filo, Start(D.data)) = b
      BY <1>4, <1>5, <1>12, <3>3 DEF Foot
    <3>4. PICK B : B = WithData(A, e) OBVIOUS
    <3>5. /\ B \in Documents(S) /\ B.data = e /\ B.filo = f /\ B.undos = us /\ B.redos = rs
          /\ ~B.nested /\ Stays(D, B)
      <4>1. e \in Frames(S) /\ ~(e.transaction = 1) BY <3>2, FineFacts
      <4> QED BY <1>2, <1>3, <1>5, <1>6, <1>7, <3>1, <3>4, <4>1, DataDocument DEF Stays
    <3>6. CASE x.parts = {}
      <4>1. C = B BY <1>9, <1>10, <2>1, <2>3, <3>4, <3>6 DEF CommitFlat
      <4>2. c = b /\ e.time = u BY <3>2, <3>6 DEF Flies
      <4>3. Stacks(e, B.filo, B.undos, B.redos, Visible(e), e.time) BY <3>2, <3>5, <4>2
      <4>4. B \in Idle(S) BY <3>2, <3>3, <3>5, <4>3, MakeIdle
      <4>5. B \in Kept(S) BY <3>3, <3>5, <4>4, IdleKept
      <4>6. ~Opened(B) BY <3>2, <3>5 DEF Opened
      <4>7. Recording(S, D, C, b, c) BY <1>6, <1>7, <3>5, <4>1, <4>2 DEF Recording
      <4>8. Delivered(S, D, C)
        BY <1>4, <1>11, <3>1, <3>3, <3>5, <3>8, <4>1, <4>6, <4>7 DEF Delivered
      <4> QED BY <3>2, <3>5, <4>1, <4>5, <4>6, <4>8
    <3>7. CASE x.parts # {}
      <4>1. C = Pushed(B, x) BY <1>9, <1>10, <2>1, <2>3, <3>4, <3>7 DEF CommitFlat
      <4>2. Leads(e, x, Visible(e), e.time) /\ x.back = b /\ x.begin = u
        BY <3>2, <3>7 DEF Flies
      <4>3. /\ Stacks(e, << >>, B.undos, B.redos, b, u) /\ B.filo = << >>
            /\ Mentions(x.parts) \cap Everything(<< >>, B.undos, B.redos) = {}
        BY <3>2, <3>3, <3>5 DEF Joins
      <4>4. /\ C \in Kept(S) /\ Stays(B, C) /\ C.data = e /\ C.filo = << >>
            /\ Logged(B.undos, x, C.undos, C.redos)
        <5>1. B.limit # 0 BY <1>3, <2>3, <3>5 DEF Stays
        <5> QED BY <3>2, <3>5, <4>1, <4>2, <4>3, <5>1, PushedKept
      <4>5. ~Opened(C) BY <3>2, <4>4 DEF Opened
      <4>6. Recording(S, D, C, b, c) BY <1>6, <3>2, <3>5, <4>2, <4>4 DEF Recording
      <4>7. Delivered(S, D, C)
        BY <1>4, <1>11, <3>1, <3>8, <4>4, <4>5, <4>6 DEF Delivered
      <4> QED BY <3>2, <3>5, <4>4, <4>5, <4>7 DEF Stays
    <3> QED BY <3>6, <3>7
  <2> QED BY <2>2, <2>3
<1>18. /\ C \in Kept(S) /\ Stays(D, C) /\ Visible(C.data) = c
       /\ ~D.nested => ~Opened(C)
       /\ Delivered(S, D, C)
  BY <1>16, <1>17
<1>19. PICK E : E = Deny(C) OBVIOUS
<1>20. /\ E \in Kept(S) /\ Same(C, E) /\ E.data.transaction = C.data.transaction
       /\ E.filo = C.filo
       /\ Visible(E.data) = Visible(C.data)
  BY <1>18, <1>19, DenyKept
<1>21. Opened(E) <=> Opened(C) BY <1>20 DEF Opened
<1>22. E = CommitTransaction(D) BY <1>1, <1>4, <1>15, <1>19 DEF CommitTransaction
<1>23. Delivered(S, D, E)
  <2>1. E.undos = C.undos /\ E.redos = C.redos BY <1>20 DEF Same
  <2> QED BY <1>18, <1>20, <1>21, <2>1 DEF Delivered, Recording
<1> QED BY <1>4, <1>11, <1>18, <1>20, <1>21, <1>22, <1>23 DEF Same, Stays

\* The framework's transaction aborted.
LEMMA DroppedIdle ==
    ASSUME NEW S \in SUBSET Objects, NEW D \in Kept(S), D.data.allow
    PROVE  LET E == Dropped(D) IN
           /\ E \in Idle(S) /\ Same(D, E) /\ E.filo = D.filo
           /\ Visible(E.data) = Start(D.data) /\ E.data.time = D.data.time
<1>1. PICK E : E = Dropped(D) OBVIOUS
<1>2. PICK d : d = D.data OBVIOUS
<1>3. PICK f \in Seq(Stored(S)) : f = D.filo BY KeptFacts
<1>4. PICK us \in Seq(Stored(S)) : us = D.undos BY KeptFacts
<1>5. PICK rs \in Seq(Stored(S)) : rs = D.redos BY KeptFacts
<1>6. PICK c : c = Start(d) OBVIOUS
<1>7. PICK t : t = d.time OBVIOUS
<1>8. /\ d \in Fine(S) /\ Stacks(d, f, us, rs, c, t) /\ D \in Documents(S)
      /\ Tuned(D) /\ Shaped(D) /\ (Opened(D) <=> d.transaction = 1) /\ d.transaction \in 0 .. 1
  BY <1>2, <1>3, <1>4, <1>5, <1>6, <1>7, KeptFacts DEF Piled
<1>9. CASE Opened(D)
  <2>1. d.transaction = 1 /\ d.allow /\ d.begin = d.time /\ D.limit # 0
    BY <1>2, <1>8, <1>9 DEF Tuned
  <2>2. PICK e : e = Abort(d) OBVIOUS
  <2>3. /\ e \in Fine(S) /\ e.transaction = 0 /\ e.allow
        /\ e.time = t /\ Visible(e) = c
        /\ \A o \in Objects : ~d.attr[o].on => e.attr[o] = d.attr[o]
    BY <1>6, <1>7, <1>8, <2>1, <2>2, AbortEffect
  <2>4. E = WithData(D, e) BY <1>1, <1>2, <1>9, <2>1, <2>2 DEF Dropped
  <2>5. /\ E \in Documents(S) /\ E.data = e /\ E.undos = us /\ E.redos = rs /\ E.filo = f
        /\ E.limit = D.limit /\ E.nested = D.nested
    <3>1. e \in Frames(S) /\ ~(e.transaction = 1) BY <2>3, FineFacts
    <3> QED BY <1>3, <1>4, <1>5, <1>8, <2>4, <3>1, DataDocument
  <2>6. Stacks(e, f, us, rs, c, t)
    <3>1. \A o \in Everything(f, us, rs) : o \in Objects /\ ~d.attr[o].on
      BY <1>8, EverythingOff
    <3>2. \A o \in Everything(f, us, rs) : e.attr[o] = d.attr[o] BY <2>3, <3>1
    <3>3. Len(f) \in Nat /\ Len(us) \in Nat /\ Len(rs) \in Nat BY LenZero
    <3> QED BY <1>8, <3>2, <3>3, StacksOver
  <2>7. ~E.nested => E.filo = << >> BY <1>3, <1>8, <2>5 DEF Shaped
  <2>8. Stacks(e, E.filo, E.undos, E.redos, Visible(e), e.time) BY <2>3, <2>5, <2>6
  <2>9. E \in Idle(S) BY <2>3, <2>5, <2>7, <2>8, MakeIdle
  <2> QED BY <1>1, <1>2, <1>3, <1>4, <1>5, <1>6, <1>7, <2>3, <2>5, <2>9 DEF Same
<1>10. CASE ~Opened(D)
  <2>1. E = D BY <1>1, <1>10 DEF Dropped
  <2>2. d.transaction = 0 BY <1>8, <1>10
  <2>3. c = Visible(d) BY <1>6, <1>8, <2>2, CleanStart
  <2>4. D.filo = << >> BY <1>8, <1>10 DEF Shaped
  <2>5. Stacks(d, D.filo, D.undos, D.redos, Visible(d), d.time)
    BY <1>3, <1>4, <1>5, <1>7, <1>8, <2>3
  <2>6. D \in Idle(S) BY <1>2, <1>8, <2>2, <2>4, <2>5, MakeIdle
  <2> QED BY <1>1, <1>2, <1>6, <2>1, <2>3, <2>6 DEF Same
<1> QED BY <1>9, <1>10

\* What the innermost command did before taken back, and its compound delta
\* taken off.
LEMMA RevertedIdle ==
    ASSUME NEW S \in SUBSET Objects, NEW D \in Idle(S), D.nested, D.filo # << >>
    PROVE  LET E == [Reverted(D) EXCEPT !.filo = Tail(@)] IN
           /\ E \in Idle(S) /\ Same(D, E) /\ E.filo = Tail(D.filo)
           /\ Visible(E.data) = D.filo[1].back
<1>1. PICK d : d = D.data OBVIOUS
<1>2. PICK f \in Seq(Stored(S)) : f = D.filo BY IdleFacts
<1>3. PICK us \in Seq(Stored(S)) : us = D.undos BY IdleFacts
<1>4. PICK rs \in Seq(Stored(S)) : rs = D.redos BY IdleFacts
<1>5. /\ d \in Fine(S) /\ d.transaction = 0 /\ d.allow /\ D \in Documents(S)
      /\ Start(d) = Visible(d)
  BY <1>1, IdleFacts
<1>6. PICK c \in Contents : c = Visible(d)
  BY <1>5, FineFacts, FrameFacts, VisibleContents
<1>7. PICK t : t = d.time OBVIOUS
<1>8. f # << >> /\ Stacks(d, f, us, rs, c, t)
  BY <1>1, <1>2, <1>3, <1>4, <1>5, <1>6, <1>7, IdleFacts DEF Piled
<1>9. PICK y \in Stored(S) : y = f[1] BY <1>8, FirstOf
<1>10. PICK g : g = Tail(f) OBVIOUS
<1>11. /\ g \in Seq(Stored(S)) /\ Stacks(d, g, us, rs, y.back, y.begin)
       /\ Leads(d, y, c, t) /\ Flies(d, y, c, t, y.back, y.begin)
       /\ Joins(y, g, us, rs)
       /\ Everything(g, us, rs) \subseteq Everything(f, us, rs)
  BY <1>8, <1>9, <1>10, Popped
<1>12. PICK E : E = [Reverted(D) EXCEPT !.filo = Tail(@)] OBVIOUS
<1>13. \E e \in Fine(S) : /\ E = WithData([D EXCEPT !.filo = g], e)
                          /\ e.transaction = 0 /\ e.allow
                          /\ e.time = y.begin /\ Visible(e) = y.back
                          /\ Stacks(e, g, us, rs, y.back, y.begin)
  <2>1. D \in Drafts(S) BY <1>5 DEF Documents
  <2>2. CASE y.parts = {}
    <3>1. c = y.back /\ t = y.begin BY <1>11, <2>2 DEF Flies
    <3>2. Reverted(D) = D BY <1>2, <1>9, <2>2 DEF Reverted
    <3>3. E = WithData([D EXCEPT !.filo = g], d)
      BY <1>1, <1>2, <1>10, <1>12, <2>1, <3>2 DEF WithData, Drafts
    <3> QED BY <1>5, <1>6, <1>7, <1>11, <3>1, <3>3
  <2>3. CASE y.parts # {}
    <3>1. IsApplicable(d, y) BY <1>7, <1>11 DEF Leads, IsApplicable
    <3>2. PICK e : e = Undo(d, y).data OBVIOUS
    <3>3. Reverted(D) = WithData(D, e)
      BY <1>1, <1>2, <1>9, <2>3, <3>1, <3>2 DEF Reverted
    <3>4. E = WithData([D EXCEPT !.filo = g], e)
      BY <1>2, <1>10, <1>12, <2>1, <3>3 DEF WithData, Drafts
    <3>5. Fits(d, y.parts, Visible(d), y.back) /\ Whole(d, y.parts)
      BY <1>6, <1>11 DEF Leads
    <3>6. /\ e \in Fine(S) /\ e.transaction = 0 /\ e.allow
          /\ e.time = y.begin /\ Visible(e) = y.back
          /\ \A o \in Objects : ~d.attr[o].on /\ o \notin Mentions(y.parts) =>
                                    e.attr[o] = d.attr[o]
      BY <1>5, <3>2, <3>5, UndoEffect
    <3>7. \A o \in Everything(f, us, rs) : o \in Objects /\ ~d.attr[o].on
      BY <1>8, EverythingOff
    <3>8. \A o \in Everything(g, us, rs) : e.attr[o] = d.attr[o]
      BY <1>11, <3>6, <3>7 DEF Joins
    <3>9. Len(g) \in Nat /\ Len(us) \in Nat /\ Len(rs) \in Nat BY <1>11, LenZero
    <3>10. PICK b : b = y.back OBVIOUS
    <3>11. PICK u : u = y.begin OBVIOUS
    <3>12. Stacks(d, g, us, rs, b, u) BY <1>11, <3>10, <3>11
    <3>13. Stacks(e, g, us, rs, b, u) BY <3>8, <3>9, <3>12, StacksOver
    <3> QED BY <3>4, <3>6, <3>10, <3>11, <3>13
  <2> QED BY <2>2, <2>3
<1>14. PICK e \in Fine(S) : /\ E = WithData([D EXCEPT !.filo = g], e)
                            /\ e.transaction = 0 /\ e.allow
                            /\ e.time = y.begin /\ Visible(e) = y.back
                            /\ Stacks(e, g, us, rs, y.back, y.begin)
  BY <1>13
<1>15. E \in Documents(S) /\ Same(D, E) /\ E.filo = g /\ E.data = e
  <2>1. e \in Frames(S) BY FineFacts
  <2> QED BY <1>5, <1>11, <1>14, <2>1, ClosedDocument
<1>16. E.undos = us /\ E.redos = rs /\ E.nested BY <1>3, <1>4, <1>15 DEF Same
<1>17. Stacks(e, E.filo, E.undos, E.redos, Visible(e), e.time) BY <1>14, <1>15, <1>16
<1>18. E \in Idle(S) BY <1>14, <1>15, <1>16, <1>17, MakeIdle
<1> QED BY <1>2, <1>9, <1>10, <1>12, <1>14, <1>15, <1>18

\* An abort: what the innermost command held when it opened is there again,
\* and the command around it goes on.
LEMMA AbortKept ==
    ASSUME NEW S \in SUBSET Objects, NEW D \in Kept(S)
    PROVE  LET E == AbortTransaction(D) IN
           /\ E \in Kept(S) /\ Same(D, E)
           /\ D.filo = << >> => E.filo = << >> /\ Visible(E.data) = Start(D.data)
           /\ D.filo # << >> => E.filo = Tail(D.filo) /\ Visible(E.data) = D.filo[1].back
           /\ E.filo = << >> => ~Opened(E)
<1>1. PICK A : A = Allow(D) OBVIOUS
<1>2. /\ A \in Kept(S) /\ Same(D, A) /\ A.filo = D.filo /\ A.data.allow
      /\ Start(A.data) = Start(D.data)
  BY <1>1, AllowKept
<1>3. PICK B : B = Dropped(A) OBVIOUS
<1>4. /\ B \in Idle(S) /\ Same(D, B) /\ B.filo = D.filo
      /\ Visible(B.data) = Start(D.data)
  BY <1>2, <1>3, DroppedIdle DEF Same
<1>5. PICK C : C = AbortNested(B) OBVIOUS
<1>6. B.nested = D.nested /\ (D.filo # << >> => D.nested) /\ (D.nested => D.limit # 0)
      /\ B.limit = D.limit
  BY <1>4, KeptFacts, DocumentFacts DEF Same, Shaped
<1>7. /\ C \in Kept(S) /\ Same(D, C)
      /\ D.filo = << >> => C.filo = << >> /\ Visible(C.data) = Start(D.data)
      /\ D.filo # << >> => C.filo = Tail(D.filo) /\ Visible(C.data) = D.filo[1].back
      /\ C.filo = << >> => ~Opened(C)
  <2>1. CASE D.filo = << >>
    <3>1. C = B BY <1>4, <1>5, <2>1 DEF AbortNested
    <3>2. B \in Kept(S) BY <1>4, <2>1, IdleKept
    <3>3. ~Opened(B) BY <1>4, IdleFacts
    <3> QED BY <1>4, <2>1, <3>1, <3>2, <3>3
  <2>2. CASE D.filo # << >>
    <3>1. PICK R : R = [Reverted(B) EXCEPT !.filo = Tail(@)] OBVIOUS
    <3>2. B.nested /\ B.filo # << >> BY <1>4, <1>6, <2>2
    <3>3. /\ R \in Idle(S) /\ Same(B, R) /\ R.filo = Tail(D.filo)
          /\ Visible(R.data) = D.filo[1].back
      BY <1>4, <3>1, <3>2, RevertedIdle
    <3>4. C = Left(R) BY <1>5, <3>1, <3>2 DEF AbortNested
    <3>5. R.limit # 0 /\ Same(D, R) BY <1>4, <1>6, <2>2, <3>3 DEF Same
    <3>6. CASE R.filo = << >>
      <4>1. C = R BY <3>4, <3>6 DEF Left
      <4>2. R \in Kept(S) /\ ~Opened(R) BY <3>3, <3>6, IdleKept, IdleFacts
      <4> QED BY <2>2, <3>3, <3>5, <4>1, <4>2
    <3>7. CASE R.filo # << >>
      <4>1. C = Begun(R) BY <3>4, <3>7 DEF Left
      <4>2. C \in Kept(S) /\ Same(R, C) /\ C.filo = R.filo /\ Visible(C.data) = Visible(R.data)
        BY <3>3, <3>5, <3>7, <4>1, BegunKept
      <4> QED BY <2>2, <3>3, <3>5, <3>7, <4>2 DEF Same
    <3> QED BY <3>6, <3>7
  <2> QED BY <2>1, <2>2
<1>8. PICK E : E = Deny(C) OBVIOUS
<1>9. /\ E \in Kept(S) /\ Same(C, E) /\ E.filo = C.filo
      /\ E.data.transaction = C.data.transaction
      /\ Visible(E.data) = Visible(C.data)
  BY <1>7, <1>8, DenyKept
<1>10. Opened(E) <=> Opened(C) BY <1>9 DEF Opened
<1>11. E = AbortTransaction(D) BY <1>1, <1>3, <1>5, <1>8 DEF AbortTransaction
<1> QED BY <1>7, <1>9, <1>10, <1>11 DEF Same

=============================================================================
