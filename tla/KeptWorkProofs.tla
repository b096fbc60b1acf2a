--------------------------- MODULE KeptWorkProofs ---------------------------
(* Proofs about KeptWork, for any operations, computations that end, caches  *)
(* and budgets.                                                              *)
EXTENDS KeptWork, SequenceTheorems, WellFoundedInduction, TLAPS

-----------------------------------------------------------------------------
(* Induction over the numbers and over the sequences, and functions given by *)
(* recursion over a prefix of the numbers.                                   *)

LEMMA FromZero ==
    ASSUME NEW S \in SUBSET Nat, 0 \in S, \A n \in S : n + 1 \in S
    PROVE  S = Nat
<1> SUFFICES ASSUME S # Nat PROVE FALSE OBVIOUS
<1> DEFINE T == Nat \ S
<1>1. T \subseteq Nat /\ T # {} OBVIOUS
<1>2. IsWellFoundedOn(OpToRel(<, Nat), Nat) BY NatLessThanWellFounded
<1>3. \E x \in T : \A y \in T : ~(<<y, x>> \in OpToRel(<, Nat))
  <2> HIDE DEF T
  <2> QED BY <1>1, <1>2, WFMin
<1>4. PICK x \in T : \A y \in T : ~(<<y, x>> \in OpToRel(<, Nat)) BY <1>3
<1>5. x \in Nat /\ x # 0 OBVIOUS
<1>6. x - 1 \in Nat /\ x - 1 < x BY <1>5
<1>7. x - 1 \notin T BY <1>4, <1>5, <1>6 DEF OpToRel
<1>8. x - 1 \in S BY <1>6, <1>7
<1>9. (x - 1) + 1 \in S BY <1>8
<1> QED BY <1>5, <1>9

LEMMA FromEmpty ==
    ASSUME NEW S, NEW T \in SUBSET Seq(S), << >> \in T,
           \A s \in T, e \in S : Append(s, e) \in T
    PROVE  T = Seq(S)
<1> DEFINE N == {n \in Nat : \A s \in Seq(S) : Len(s) = n => s \in T}
<1>1. 0 \in N
  <2>1. \A s \in Seq(S) : Len(s) = 0 => s = << >> BY EmptySeq
  <2> QED BY <2>1
<1>2. ASSUME NEW n \in N PROVE n + 1 \in N
  <2>1. ASSUME NEW s \in Seq(S), Len(s) = n + 1 PROVE s \in T
    <3>1. s # << >> BY <2>1
    <3>2. PICK r \in Seq(S), e \in S : s = Append(r, e) BY <3>1, SequenceEmptyOrAppend
    <3>3. Len(s) = Len(r) + 1 BY <3>2, AppendProperties
    <3>4. Len(r) = n BY <2>1, <3>3
    <3>5. r \in T BY <3>4
    <3> QED BY <3>2, <3>5
  <2> QED BY <2>1
<1>3. N = Nat
  <2> HIDE DEF N
  <2>1. N \in SUBSET Nat BY DEF N
  <2> QED BY <1>1, <1>2, <2>1, FromZero
<1>4. \A s \in Seq(S) : Len(s) \in N BY <1>3
<1> QED BY <1>4

\* f begins with a and each of its values is made from the one before.
Iterates(f, n, X, a, F) ==
    /\ f \in [0 .. n -> X]
    /\ f[0] = a
    /\ \A i \in 1 .. n : f[i] = F[i][f[i - 1]]

LEMMA PrefixRecursion ==
    ASSUME NEW X, NEW n \in Nat, NEW a \in X, NEW F \in [1 .. n -> [X -> X]]
    PROVE  \E f : Iterates(f, n, X, a, F)
<1> DEFINE M == {m \in Nat : m <= n => \E f : Iterates(f, m, X, a, F)}
<1>1. 0 \in M
  <2> DEFINE g == [j \in 0 .. 0 |-> a]
  <2>1. g \in [0 .. 0 -> X] /\ g[0] = a OBVIOUS
  <2>2. Iterates(g, 0, X, a, F)
    <3> HIDE DEF g
    <3> QED BY <2>1 DEF Iterates
  <2> HIDE DEF g
  <2> QED BY <2>2
<1>2. ASSUME NEW m \in Nat, m \in M PROVE m + 1 \in M
  <2>1. ASSUME m + 1 <= n PROVE \E f : Iterates(f, m + 1, X, a, F)
    <3>1. PICK f : Iterates(f, m, X, a, F) BY <1>2, <2>1
    <3>2. f \in [0 .. m -> X] /\ f[0] = a /\ \A i \in 1 .. m : f[i] = F[i][f[i - 1]]
      BY <3>1 DEF Iterates
    <3>3. F[m + 1] \in [X -> X] /\ f[m] \in X BY <2>1, <3>2
    <3> DEFINE g == [j \in 0 .. (m + 1) |-> IF j <= m THEN f[j] ELSE F[m + 1][f[m]]]
    <3>4. g \in [0 .. (m + 1) -> X] BY <3>2, <3>3
    <3>5. g[0] = a BY <3>2
    <3>6. ASSUME NEW i \in 1 .. (m + 1) PROVE g[i] = F[i][g[i - 1]]
      <4>1. i - 1 \in 0 .. m /\ g[i - 1] = f[i - 1] OBVIOUS
      <4>2. CASE i <= m BY <3>2, <4>1, <4>2
      <4>3. CASE i = m + 1 BY <4>1, <4>3
      <4> QED BY <4>2, <4>3
    <3> HIDE DEF g
    <3>7. Iterates(g, m + 1, X, a, F) BY <3>4, <3>5, <3>6 DEF Iterates
    <3> QED BY <3>7
  <2> QED BY <2>1
<1>3. M = Nat
  <2>1. M \in SUBSET Nat OBVIOUS
  <2> HIDE DEF M
  <2> QED BY <1>1, <1>2, <2>1, FromZero
<1> QED BY <1>3

-----------------------------------------------------------------------------
(* FlattenSeq, from the first sequence on and from the last one back.        *)

LEMMA FlattenEmpty == FlattenSeq(<< >>) = << >>
BY DEF FlattenSeq

\* What FlattenSeq's local function does.
LEMMA Flattened ==
    ASSUME NEW S, NEW ss \in Seq(Seq(S))
    PROVE  \E f \in [0 .. Len(ss) -> Seq(S)] :
              /\ f[0] = << >>
              /\ \A i \in 1 .. Len(ss) : f[i] = f[i - 1] \o ss[i]
              /\ FlattenSeq(ss) = f[Len(ss)]
<1>1. PICK X : X = Seq(S) OBVIOUS
<1>2. PICK n \in Nat : n = Len(ss) /\ ss \in [1 .. n -> X] BY <1>1, LenProperties
<1>3. << >> \in X /\ \A x, y \in X : x \o y \in X /\ << >> \o x = x
  BY <1>1, ConcatProperties, ConcatEmptySeq
<1>4. PICK F : F = [i \in 1 .. n |-> [x \in X |-> x \o ss[i]]] OBVIOUS
<1>5. F \in [1 .. n -> [X -> X]]
  <2>1. ASSUME NEW i \in 1 .. n PROVE [x \in X |-> x \o ss[i]] \in [X -> X]
    <3>1. ss[i] \in X BY <1>2
    <3> QED BY <1>3, <3>1
  <2> QED BY <1>4, <2>1
<1>6. PICK f : Iterates(f, n, X, << >>, F)
  <2>1. << >> \in X BY <1>3
  <2> QED BY <1>5, <2>1, PrefixRecursion
<1>7. ASSUME NEW i \in 1 .. n PROVE f[i] = f[i - 1] \o ss[i]
  <2>1. i - 1 \in 0 .. n /\ f[i - 1] \in X BY <1>6 DEF Iterates
  <2> QED BY <1>4, <1>6, <2>1 DEF Iterates
<1>0. f \in [0 .. n -> X] /\ f[0] = << >> BY <1>6 DEF Iterates
<1>8. CASE n = 0
  <2>1. ss = << >> /\ Len(ss) = 0 BY <1>2, <1>8
  <2>2. FlattenSeq(ss) = f[n] BY <1>0, <1>8, <2>1 DEF FlattenSeq
  <2> QED BY <1>0, <1>1, <1>2, <1>7, <2>2
<1>9. CASE n > 0
  <2> DEFINE Rec(g) == [i \in 1 .. Len(ss) |-> IF i = 1 THEN ss[i] ELSE g[i - 1] \o ss[i]]
  <2>1. PICK h : h = [i \in 1 .. n |-> f[i]] OBVIOUS
  <2>2. PICK c : c = CHOOSE g : g = Rec(g) OBVIOUS
  <2>3. FlattenSeq(ss) = c[n]
    <3>1. Len(ss) # 0 BY <1>2, <1>9
    <3> QED BY <1>2, <2>2, <3>1, Zenon DEF FlattenSeq
  <2>4. f[1] = ss[1]
    <3>1. f[1] = f[0] \o ss[1]
      <4>1. 1 \in 1 .. n /\ 1 - 1 = 0 BY <1>9
      <4> QED BY <1>7, <4>1
    <3>2. ss[1] \in X BY <1>2, <1>9
    <3> QED BY <1>0, <1>3, <3>1, <3>2
  <2>5. h = Rec(h)
    <3>1. \A i \in 1 .. n : f[i] = IF i = 1 THEN ss[i] ELSE h[i - 1] \o ss[i]
      <4> SUFFICES ASSUME NEW i \in 1 .. n, i # 1 PROVE f[i] = h[i - 1] \o ss[i]
        BY <2>4
      <4>1. i - 1 \in 1 .. n BY <1>2
      <4> QED BY <1>7, <2>1, <4>1
    <3> QED BY <1>2, <2>1, <3>1
  <2>6. c = Rec(c)
    <3> HIDE DEF Rec
    <3> QED BY <2>2, <2>5
  <2> DEFINE M == {m \in Nat : m + 1 <= n => c[m + 1] = f[m + 1]}
  <2>7. 0 \in M
    <3>1. c[1] = ss[1] BY <1>2, <1>9, <2>6
    <3> QED BY <2>4, <3>1
  <2>8. ASSUME NEW m \in M PROVE m + 1 \in M
    <3>1. m \in Nat OBVIOUS
    <3>2. ASSUME (m + 1) + 1 <= n PROVE c[(m + 1) + 1] = f[(m + 1) + 1]
      <4>1. c[m + 1] = f[m + 1] BY <3>1, <3>2
      <4>2. m + 2 \in 1 .. n /\ m + 2 # 1 /\ (m + 2) - 1 = m + 1 /\ (m + 1) + 1 = m + 2
        BY <1>2, <3>1, <3>2
      <4>3. c[m + 2] = c[m + 1] \o ss[m + 2]
        <5>1. Rec(c)[m + 2] = c[(m + 2) - 1] \o ss[m + 2] BY <1>2, <4>2
        <5> QED BY <2>6, <4>2, <5>1
      <4>4. f[m + 2] = f[m + 1] \o ss[m + 2] BY <1>7, <4>2
      <4> QED BY <4>1, <4>2, <4>3, <4>4
    <3> QED BY <3>1, <3>2
  <2>9. M = Nat
    <3>1. M \in SUBSET Nat OBVIOUS
    <3> HIDE DEF M
    <3> QED BY <2>7, <2>8, <3>1, FromZero, Zenon
  <2>10. c[n] = f[n]
    <3>1. n - 1 \in M
      <4> HIDE DEF M
      <4> QED BY <1>9, <2>9
    <3> QED BY <1>9, <3>1
  <2>11. FlattenSeq(ss) = f[n] BY <2>3, <2>10
  <2> QED BY <1>0, <1>1, <1>2, <1>7, <2>11
<1>10. n = 0 \/ n > 0 OBVIOUS
<1> QED BY <1>8, <1>9, <1>10, Zenon

LEMMA FlattenTyped ==
    ASSUME NEW S, NEW ss \in Seq(Seq(S))
    PROVE  FlattenSeq(ss) \in Seq(S)
<1>1. PICK f \in [0 .. Len(ss) -> Seq(S)] : FlattenSeq(ss) = f[Len(ss)] BY Flattened
<1>2. Len(ss) \in Nat BY LenProperties
<1> QED BY <1>1, <1>2

LEMMA FlattenAppend ==
    ASSUME NEW S, NEW ss \in Seq(Seq(S)), NEW e \in Seq(S)
    PROVE  FlattenSeq(Append(ss, e)) = FlattenSeq(ss) \o e
<1>1. PICK n \in Nat : n = Len(ss) BY LenProperties
<1>2. PICK tt \in Seq(Seq(S)) : tt = Append(ss, e) BY AppendProperties
<1>3. Len(tt) = n + 1 /\ tt[n + 1] = e /\ \A i \in 1 .. n : tt[i] = ss[i]
  <2>1. Len(tt) = n + 1 BY <1>1, <1>2, AppendProperties
  <2>2. \A i \in 1 .. n : tt[i] = ss[i] BY <1>1, <1>2, AppendProperties
  <2>3. tt[n + 1] = e BY <1>1, <1>2
  <2> QED BY <2>1, <2>2, <2>3
<1>4. PICK f \in [0 .. n -> Seq(S)] :
         /\ f[0] = << >>
         /\ \A i \in 1 .. n : f[i] = f[i - 1] \o ss[i]
         /\ FlattenSeq(ss) = f[n]
  BY <1>1, Flattened
<1>0. PICK g \in [0 .. Len(tt) -> Seq(S)] :
         /\ g[0] = << >>
         /\ \A i \in 1 .. Len(tt) : g[i] = g[i - 1] \o tt[i]
         /\ FlattenSeq(tt) = g[Len(tt)]
  BY Flattened
<1>5. /\ g \in [0 .. (n + 1) -> Seq(S)]
      /\ g[0] = << >>
      /\ \A i \in 1 .. (n + 1) : g[i] = g[i - 1] \o tt[i]
      /\ FlattenSeq(tt) = g[n + 1]
  BY <1>0, <1>3
<1> DEFINE M == {m \in Nat : m <= n => f[m] = g[m]}
<1>6. 0 \in M BY <1>4, <1>5
<1>7. ASSUME NEW m \in Nat, m \in M PROVE m + 1 \in M
  <2>1. ASSUME m + 1 <= n PROVE f[m + 1] = g[m + 1]
    <3>1. m + 1 \in 1 .. n /\ m + 1 \in 1 .. (n + 1) /\ (m + 1) - 1 = m BY <2>1
    <3>2. f[m + 1] = f[m] \o ss[m + 1] BY <1>4, <3>1
    <3>3. g[m + 1] = g[m] \o tt[m + 1] BY <1>5, <3>1
    <3>4. f[m] = g[m] BY <1>7, <2>1
    <3> QED BY <1>3, <3>1, <3>2, <3>3, <3>4
  <2> QED BY <2>1
<1>8. M = Nat
  <2>1. M \in SUBSET Nat OBVIOUS
  <2> HIDE DEF M
  <2> QED BY <1>6, <1>7, <2>1, FromZero
<1>9. n \in M
  <2> HIDE DEF M
  <2> QED BY <1>8
<1>10. f[n] = g[n] BY <1>9
<1>11. g[n + 1] = g[n] \o tt[n + 1]
  <2>1. n + 1 \in 1 .. (n + 1) /\ (n + 1) - 1 = n OBVIOUS
  <2> QED BY <1>5, <2>1
<1> QED BY <1>2, <1>3, <1>4, <1>5, <1>10, <1>11

\* A sequence is its first element and the rest.
LEMMA Consed ==
    ASSUME NEW X, NEW P \in Seq(X), NEW Q \in Seq(X), NEW n \in Nat,
           Len(P) = n + 1, Len(Q) = n, \A i \in 1 .. n : P[i + 1] = Q[i]
    PROVE  P = <<P[1]>> \o Q
<1>1. PICK E : E = <<P[1]>> OBVIOUS
<1>2. P[1] \in X
  <2>1. 1 \in 1 .. Len(P) OBVIOUS
  <2> QED BY <2>1, ElementOfSeq
<1>3. E \in Seq(X) /\ Len(E) = 1 /\ E[1] = P[1] BY <1>1, <1>2
<1>4. /\ E \o Q \in Seq(X) /\ Len(E \o Q) = Len(E) + Len(Q)
      /\ \A i \in 1 .. Len(E) + Len(Q) :
            (E \o Q)[i] = IF i <= Len(E) THEN E[i] ELSE Q[i - Len(E)]
  BY <1>3, ConcatProperties
<1>5. ASSUME NEW i \in 1 .. (n + 1) PROVE P[i] = (E \o Q)[i]
  <2>1. (E \o Q)[i] = IF i <= 1 THEN E[i] ELSE Q[i - 1] BY <1>3, <1>4
  <2>2. CASE i = 1 BY <1>3, <2>1, <2>2
  <2>3. CASE i # 1
    <3>1. i - 1 \in 1 .. n /\ (i - 1) + 1 = i BY <2>3
    <3>2. P[i] = Q[i - 1] BY <3>1
    <3> QED BY <2>1, <2>3, <3>2
  <2> QED BY <2>2, <2>3
<1>6. Len(P) = Len(E \o Q) BY <1>3, <1>4
<1>7. P = E \o Q BY <1>4, <1>5, <1>6, SeqEqual
<1> QED BY <1>1, <1>7

LEMMA FlattenCons ==
    ASSUME NEW S, NEW e \in Seq(S), NEW ss \in Seq(Seq(S))
    PROVE  FlattenSeq(<<e>> \o ss) = e \o FlattenSeq(ss)
<1>1. PICK X : X = Seq(S) OBVIOUS
<1>2. <<e>> \in Seq(X) BY <1>1
<1> DEFINE T == {tt \in Seq(X) : FlattenSeq(<<e>> \o tt) = e \o FlattenSeq(tt)}
<1>3. << >> \in T
  <2>1. <<e>> \o << >> = <<e>> BY <1>2, ConcatEmptySeq
  <2>2. <<e>> = Append(<< >>, e) OBVIOUS
  <2>3. << >> \in Seq(X) OBVIOUS
  <2>4. FlattenSeq(<<e>>) = << >> \o e BY <1>1, <2>2, <2>3, FlattenAppend, FlattenEmpty
  <2>5. << >> \o e = e /\ e \o << >> = e BY ConcatEmptySeq
  <2> QED BY <2>1, <2>3, <2>4, <2>5, FlattenEmpty
<1>4. ASSUME NEW tt \in T, NEW x \in X PROVE Append(tt, x) \in T
  <2>1. tt \in Seq(X) /\ FlattenSeq(<<e>> \o tt) = e \o FlattenSeq(tt) OBVIOUS
  <2>2. PICK ee : ee = <<e>> OBVIOUS
  <2>3. ee \in Seq(X) /\ ee \o tt \in Seq(X) BY <1>2, <2>1, <2>2, ConcatProperties
  <2>4. Append(tt, x) \in Seq(X) BY <2>1, AppendProperties
  <2>5. ee \o Append(tt, x) = Append(ee \o tt, x)
    <3>1. <<x>> \in Seq(X) OBVIOUS
    <3>2. Append(tt, x) = tt \o <<x>> BY <2>1, AppendIsConcat
    <3>3. Append(ee \o tt, x) = (ee \o tt) \o <<x>> BY <2>3, AppendIsConcat
    <3> QED BY <2>1, <2>3, <3>1, <3>2, <3>3, ConcatAssociative
  <2>6. FlattenSeq(Append(ee \o tt, x)) = FlattenSeq(ee \o tt) \o x
    BY <1>1, <2>3, FlattenAppend
  <2>7. FlattenSeq(Append(tt, x)) = FlattenSeq(tt) \o x BY <1>1, <2>1, FlattenAppend
  <2>8. FlattenSeq(tt) \in Seq(S) BY <1>1, <2>1, FlattenTyped
  <2>9. (e \o FlattenSeq(tt)) \o x = e \o (FlattenSeq(tt) \o x)
    <3>1. x \in Seq(S) BY <1>1
    <3> QED BY <2>8, <3>1, ConcatAssociative
  <2>10. FlattenSeq(ee \o Append(tt, x)) = e \o FlattenSeq(Append(tt, x))
    BY <2>1, <2>2, <2>5, <2>6, <2>7, <2>9
  <2> QED BY <2>2, <2>4, <2>10
<1>5. T = Seq(X)
  <2>1. T \in SUBSET Seq(X) OBVIOUS
  <2> HIDE DEF T
  <2> QED BY <1>3, <1>4, <2>1, FromEmpty
<1>6. ss \in T
  <2> HIDE DEF T
  <2> QED BY <1>1, <1>5
<1> QED BY <1>6

-----------------------------------------------------------------------------
(* Work, which computations that end determine.                            *)

Items == Stages \cup Keys

UnitsOf(W, x) == IF x \in Keys THEN W[x] ELSE <<x>>
Pieces(W, items) == [i \in DOMAIN items |-> UnitsOf(W, items[i])]

\* The units left to count of a list of items.
Left(W, items) == FlattenSeq(Pieces(W, items))

\* W gives the units of the computations of D, which use one another only.
Attempt(W, D) ==
    /\ D \in SUBSET Keys
    /\ W \in [D -> Seq(Stages)]
    /\ \A k \in D : /\ \A i \in DOMAIN Body[k] : Body[k][i] \in Keys => Body[k][i] \in D
                    /\ W[k] = Left(W, Body[k])

IsWork(k, u) == \E W, D : Attempt(W, D) /\ k \in D /\ u = W[k]

LEMMA BodyTyped == \A n \in Ops \cup Keys : Body[n] \in Seq(Items)
BY BodyAssumption DEF Items

LEMMA PiecesTyped ==
    ASSUME NEW W, NEW items \in Seq(Items),
           \A i \in DOMAIN items : items[i] \in Keys => W[items[i]] \in Seq(Stages)
    PROVE  Pieces(W, items) \in Seq(Seq(Stages)) /\ Left(W, items) \in Seq(Stages)
<1>1. PICK n \in Nat : items \in [1 .. n -> Items] OBVIOUS
<1>2. PICK X : X = Seq(Stages) OBVIOUS
<1>3. ASSUME NEW i \in 1 .. n PROVE UnitsOf(W, items[i]) \in X
  <2>1. CASE items[i] \in Keys BY <1>1, <1>2, <2>1 DEF UnitsOf
  <2>2. CASE items[i] \notin Keys
    <3>1. items[i] \in Stages BY <1>1, <2>2 DEF Items
    <3>2. <<items[i]>> \in Seq(Stages) BY <3>1
    <3> QED BY <1>2, <2>2, <3>2 DEF UnitsOf
  <2> QED BY <2>1, <2>2
<1>4. Pieces(W, items) \in [1 .. n -> X] BY <1>1, <1>3 DEF Pieces
<1>5. Pieces(W, items) \in Seq(X) BY <1>4
<1> QED BY <1>2, <1>5, FlattenTyped DEF Left

LEMMA SamePieces ==
    ASSUME NEW V, NEW W, NEW items,
           \A i \in DOMAIN items : items[i] \in Keys => V[items[i]] = W[items[i]]
    PROVE  Left(V, items) = Left(W, items)
<1>1. \A i \in DOMAIN items : UnitsOf(V, items[i]) = UnitsOf(W, items[i]) BY DEF UnitsOf
<1>2. Pieces(V, items) = Pieces(W, items) BY <1>1 DEF Pieces
<1> QED BY <1>2 DEF Left

LEMMA AttemptsAgree ==
    ASSUME NEW V, NEW D, NEW W, NEW E, Attempt(V, D), Attempt(W, E), NEW k \in D \cap E
    PROVE  V[k] = W[k]
<1> DEFINE K == {j \in D \cap E : V[j] # W[j]}
<1>1. SUFFICES ASSUME K # {} PROVE FALSE OBVIOUS
<1>2. K \in SUBSET Keys BY DEF Attempt
<1>3. PICK j \in K : \A i \in DOMAIN Body[j] : Body[j][i] \notin K
  <2> HIDE DEF K
  <2> QED BY <1>1, <1>2, EndsAssumption
<1>4. j \in D /\ j \in E /\ V[j] # W[j] OBVIOUS
<1>5. \A i \in DOMAIN Body[j] : Body[j][i] \in Keys => V[Body[j][i]] = W[Body[j][i]]
  <2> SUFFICES ASSUME NEW i \in DOMAIN Body[j], Body[j][i] \in Keys
               PROVE  V[Body[j][i]] = W[Body[j][i]]
    OBVIOUS
  <2>1. Body[j][i] \in D /\ Body[j][i] \in E BY <1>4 DEF Attempt
  <2> QED BY <1>3, <2>1
<1>6. Left(V, Body[j]) = Left(W, Body[j])
  <2> HIDE DEF K
  <2> QED BY <1>5, SamePieces
<1>7. V[j] = Left(V, Body[j]) /\ W[j] = Left(W, Body[j])
  <2> HIDE DEF K
  <2> QED BY <1>4 DEF Attempt
<1> QED BY <1>4, <1>6, <1>7

LEMMA WorkExists == \E U : Attempt(U, Keys)
<1> DEFINE D == {k \in Keys : \E u : IsWork(k, u)}
           U == [k \in D |-> CHOOSE u : IsWork(k, u)]
<1>1. ASSUME NEW W, NEW E, Attempt(W, E), NEW k \in E PROVE k \in D /\ U[k] = W[k]
  <2>1. IsWork(k, W[k]) BY <1>1, Zenon DEF IsWork
  <2>2. k \in Keys BY <1>1 DEF Attempt
  <2>3. k \in D BY <2>1, <2>2, Zenon
  <2>4. PICK u : u = CHOOSE v : IsWork(k, v) OBVIOUS
  <2>5. IsWork(k, u) BY <2>1, <2>4, Zenon
  <2>6. u = W[k]
    <3>1. PICK V, C : Attempt(V, C) /\ k \in C /\ u = V[k] BY <2>5 DEF IsWork
    <3>2. k \in C \cap E BY <3>1
    <3> HIDE DEF D, U
    <3> QED BY <1>1, <3>1, <3>2, AttemptsAgree
  <2> QED BY <2>3, <2>4, <2>6
<1>2. ASSUME NEW k \in D
      PROVE  \E W, E : Attempt(W, E) /\ k \in E
  BY DEF IsWork
<1>3. D \in SUBSET Keys OBVIOUS
<1>4. PICK F : F = U OBVIOUS
<1>5. PICK C : C = D OBVIOUS
<1>6. DOMAIN F = C BY <1>4, <1>5
<1>7. F = [k \in C |-> F[k]] BY <1>4, <1>5
<1> HIDE DEF D, U
<1>8. ASSUME NEW k \in C
      PROVE  /\ F[k] \in Seq(Stages)
             /\ \A i \in DOMAIN Body[k] : Body[k][i] \in Keys => Body[k][i] \in C
             /\ F[k] = Left(F, Body[k])
  <2>1. PICK W, E : Attempt(W, E) /\ k \in E BY <1>2, <1>5
  <2>2. \A j \in E : j \in C /\ F[j] = W[j] BY <1>1, <1>4, <1>5, <2>1
  <2>3. /\ W[k] \in Seq(Stages)
        /\ \A i \in DOMAIN Body[k] : Body[k][i] \in Keys => Body[k][i] \in E
        /\ W[k] = Left(W, Body[k])
    BY <2>1 DEF Attempt
  <2>4. \A i \in DOMAIN Body[k] : Body[k][i] \in Keys => F[Body[k][i]] = W[Body[k][i]]
    BY <2>2, <2>3
  <2>5. Left(F, Body[k]) = Left(W, Body[k]) BY <2>4, SamePieces
  <2> QED BY <2>1, <2>2, <2>3, <2>5
<1>9. F \in [C -> Seq(Stages)] BY <1>7, <1>8
<1>10. Attempt(F, C) BY <1>3, <1>5, <1>8, <1>9 DEF Attempt
<1>11. C = Keys
  <2> SUFFICES ASSUME C # Keys PROVE FALSE OBVIOUS
  <2>1. PICK K \in SUBSET Keys : K = Keys \ C OBVIOUS
  <2>2. K # {} BY <1>3, <1>5, <2>1
  <2>3. PICK k \in K : \A i \in DOMAIN Body[k] : Body[k][i] \notin K
    BY <2>2, EndsAssumption
  <2>4. k \in Keys /\ k \notin C BY <2>1
  <2>5. \A i \in DOMAIN Body[k] : Body[k][i] \in Keys => Body[k][i] \in C BY <2>1, <2>3
  <2>6. Left(F, Body[k]) \in Seq(Stages)
    <3>1. Body[k] \in Seq(Items) BY <2>4, BodyTyped
    <3>2. \A i \in DOMAIN Body[k] : Body[k][i] \in Keys => F[Body[k][i]] \in Seq(Stages)
      BY <1>9, <2>5
    <3> QED BY <3>1, <3>2, PiecesTyped
  <2>7. PICK V : V = [j \in C \cup {k} |-> IF j = k THEN Left(F, Body[k]) ELSE F[j]] OBVIOUS
  <2>8. V \in [C \cup {k} -> Seq(Stages)] BY <1>9, <2>6, <2>7
  <2>9. \A j \in C : V[j] = F[j] BY <2>4, <2>7
  <2>10. ASSUME NEW j \in C \cup {k}
         PROVE  /\ \A i \in DOMAIN Body[j] : Body[j][i] \in Keys => Body[j][i] \in C
                /\ V[j] = Left(F, Body[j])
    <3>1. CASE j = k BY <2>5, <2>7, <3>1
    <3>2. CASE j \in C BY <1>8, <2>9, <3>2
    <3> QED BY <3>1, <3>2
  <2>11. ASSUME NEW j \in C \cup {k} PROVE V[j] = Left(V, Body[j])
    <3>1. \A i \in DOMAIN Body[j] : Body[j][i] \in Keys => V[Body[j][i]] = F[Body[j][i]]
      BY <2>9, <2>10
    <3>2. Left(V, Body[j]) = Left(F, Body[j]) BY <3>1, SamePieces
    <3> QED BY <2>10, <3>2
  <2>12. C \cup {k} \in SUBSET Keys BY <1>3, <1>5, <2>4
  <2>13. Attempt(V, C \cup {k})
    <3>1. \A j \in C \cup {k} : \A i \in DOMAIN Body[j] :
             Body[j][i] \in Keys => Body[j][i] \in C \cup {k}
      BY <2>10
    <3> QED BY <2>8, <2>11, <2>12, <3>1 DEF Attempt
  <2>14. k \in C BY <1>1, <1>5, <2>13
  <2> QED BY <2>4, <2>14
<1> QED BY <1>10, <1>11

LEMMA WorkRecursion ==
    /\ Work = [n \in Ops \cup Keys |-> Left(Work, Body[n])]
    /\ Work \in [Ops \cup Keys -> Seq(Stages)]
<1> DEFINE Rec(W) == [n \in Ops \cup Keys |->
                        FlattenSeq([i \in DOMAIN Body[n] |->
                            IF Body[n][i] \in Keys THEN W[Body[n][i]] ELSE <<Body[n][i]>>])]
<1>1. PICK U : Attempt(U, Keys) BY WorkExists
<1>2. PICK Z : Z = [n \in Ops \cup Keys |-> Left(U, Body[n])] OBVIOUS
<1>3. \A k \in Keys : Z[k] = U[k] BY <1>1, <1>2 DEF Attempt
<1>4. ASSUME NEW W PROVE Rec(W) = [n \in Ops \cup Keys |-> Left(W, Body[n])]
  BY DEF Left, Pieces, UnitsOf
<1>5. Z = Rec(Z)
  <2>1. ASSUME NEW n \in Ops \cup Keys PROVE Left(Z, Body[n]) = Left(U, Body[n])
    <3>1. \A i \in DOMAIN Body[n] : Body[n][i] \in Keys => Z[Body[n][i]] = U[Body[n][i]]
      BY <1>3
    <3> QED BY <3>1, SamePieces
  <2>2. Rec(Z) = [n \in Ops \cup Keys |-> Left(Z, Body[n])] BY <1>4
  <2> HIDE DEF Rec
  <2> QED BY <1>2, <2>1, <2>2
<1>6. PICK C : C = CHOOSE W : W = Rec(W) OBVIOUS
<1>7. C = Rec(C)
  <2> HIDE DEF Rec
  <2> QED BY <1>5, <1>6
<1>8. Work = C BY <1>6, Zenon DEF Work
<1>9. Rec(Work) = [n \in Ops \cup Keys |-> Left(Work, Body[n])] BY <1>4
<1>10. Work = [n \in Ops \cup Keys |-> Left(Work, Body[n])]
  <2> HIDE DEF Rec
  <2> QED BY <1>7, <1>8, <1>9
<1>11. \A n \in Ops \cup Keys : Work[n] = Left(Work, Body[n]) BY <1>10
<1>12. \A k \in Keys : Work[k] \in Seq(Stages)
  <2> DEFINE K == {k \in Keys : Work[k] \notin Seq(Stages)}
  <2> SUFFICES ASSUME K # {} PROVE FALSE OBVIOUS
  <2>1. K \in SUBSET Keys OBVIOUS
  <2>2. PICK k \in K : \A i \in DOMAIN Body[k] : Body[k][i] \notin K
    <3> HIDE DEF K
    <3> QED BY <2>1, EndsAssumption
  <2>3. k \in Keys /\ Work[k] \notin Seq(Stages) OBVIOUS
  <2>4. \A i \in DOMAIN Body[k] : Body[k][i] \in Keys => Work[Body[k][i]] \in Seq(Stages)
    BY <2>2
  <2> HIDE DEF K
  <2>5. Body[k] \in Seq(Items) BY <2>3, BodyTyped
  <2>6. Left(Work, Body[k]) \in Seq(Stages) BY <2>4, <2>5, PiecesTyped
  <2> QED BY <1>11, <2>3, <2>6
<1>13. \A n \in Ops \cup Keys : Left(Work, Body[n]) \in Seq(Stages)
  <2> SUFFICES ASSUME NEW n \in Ops \cup Keys PROVE Left(Work, Body[n]) \in Seq(Stages)
    OBVIOUS
  <2>1. Body[n] \in Seq(Items) BY BodyTyped
  <2> QED BY <1>12, <2>1, PiecesTyped
<1> QED BY <1>10, <1>13

\* The units an item stands for, and those left of a list of items.
Units(x)   == UnitsOf(Work, x)
Due(items) == Left(Work, items)

LEMMA DueTyped ==
    ASSUME NEW items \in Seq(Items)
    PROVE  Due(items) \in Seq(Stages)
<1>1. \A i \in DOMAIN items : items[i] \in Keys => Work[items[i]] \in Seq(Stages)
  BY WorkRecursion
<1> QED BY <1>1, PiecesTyped DEF Due

LEMMA WorkDue ==
    ASSUME NEW n \in Ops \cup Keys
    PROVE  Work[n] \in Seq(Stages) /\ Due(Body[n]) = Work[n]
BY WorkRecursion DEF Due

LEMMA UnitsTyped ==
    ASSUME NEW x \in Items
    PROVE  Units(x) \in Seq(Stages)
<1>1. CASE x \in Keys BY <1>1, WorkDue DEF Units, UnitsOf
<1>2. CASE x \notin Keys
  <2>1. x \in Stages BY <1>2 DEF Items
  <2>2. <<x>> \in Seq(Stages) BY <2>1
  <2> QED BY <1>2, <2>2 DEF Units, UnitsOf
<1> QED BY <1>1, <1>2

LEMMA DueEmpty == Due(<< >>) = << >>
<1>1. Pieces(Work, << >>) = << >> BY DEF Pieces
<1> QED BY <1>1, FlattenEmpty DEF Due, Left

\* The first item's units come first.
LEMMA DueCons ==
    ASSUME NEW items \in Seq(Items), items # << >>
    PROVE  Due(items) = Units(Head(items)) \o Due(Tail(items))
<1>1. PICK P : P = Pieces(Work, items) OBVIOUS
<1>2. PICK Q : Q = Pieces(Work, Tail(items)) OBVIOUS
<1>3. PICK x \in Items : x = Head(items) /\ Tail(items) \in Seq(Items)
  BY HeadTailProperties
<1>4. PICK e : e = Units(x) OBVIOUS
<1>5. PICK X : X = Seq(Stages) OBVIOUS
<1>6. P \in Seq(X) /\ Q \in Seq(X) /\ e \in X
  <2>1. \A y \in Keys : Work[y] \in Seq(Stages) BY WorkDue
  <2> QED BY <1>1, <1>2, <1>3, <1>4, <1>5, <2>1, PiecesTyped, UnitsTyped
<1>7. P = <<e>> \o Q
  <2>1. PICK n \in Nat : Len(items) = n + 1 /\ items \in [1 .. (n + 1) -> Items]
    <3>1. Len(items) \in Nat /\ Len(items) # 0 BY EmptySeq, LenProperties
    <3>2. Len(items) - 1 \in Nat /\ Len(items) = (Len(items) - 1) + 1 BY <3>1
    <3>3. items \in [1 .. Len(items) -> Items] BY LenProperties
    <3> QED BY <3>2, <3>3
  <2>2. Len(Tail(items)) = n /\ \A i \in 1 .. n : Tail(items)[i] = items[i + 1]
    BY <2>1
  <2>3. DOMAIN Tail(items) = 1 .. n BY <1>3, <2>2, LenProperties
  <2>4. P = [i \in 1 .. (n + 1) |-> Units(items[i])]
    BY <1>1, <2>1 DEF Pieces, Units
  <2>5. Q = [i \in 1 .. n |-> Units(Tail(items)[i])]
    BY <1>2, <2>3 DEF Pieces, Units
  <2>6. P[1] = e BY <1>3, <1>4, <2>1, <2>4
  <2>7. ASSUME NEW i \in 1 .. n PROVE P[i + 1] = Q[i]
    <3>1. i + 1 \in 1 .. (n + 1) OBVIOUS
    <3> QED BY <2>2, <2>4, <2>5, <3>1
  <2>8. Len(P) = n + 1 /\ Len(Q) = n
    <3>1. DOMAIN P = 1 .. (n + 1) /\ DOMAIN Q = 1 .. n BY <2>4, <2>5
    <3> QED BY <1>6, <3>1, LenProperties
  <2>9. \A i \in 1 .. n : P[i + 1] = Q[i] BY <2>7
  <2> QED BY <1>6, <2>6, <2>8, <2>9, Consed
<1>8. FlattenSeq(P) = e \o FlattenSeq(Q) BY <1>5, <1>6, <1>7, FlattenCons
<1> QED BY <1>1, <1>2, <1>3, <1>4, <1>8 DEF Due, Left

-----------------------------------------------------------------------------
(* Records of units.                                                       *)

\* The units of a run, and those of each run of a record.
Rep(run)   == [j \in 1 .. run.units |-> run.stage]
Reps(runs) == [i \in DOMAIN runs |-> Rep(runs[i])]

LEMMA UnitsAssociate == \A a, b, c \in Seq(Stages) : (a \o b) \o c = a \o (b \o c)
BY ConcatAssociative

LEMMA UnitsConcat ==
    \A a, b \in Seq(Stages) : a \o b \in Seq(Stages) /\ << >> \o a = a /\ a \o << >> = a
BY ConcatProperties, ConcatEmptySeq

LEMMA RepTyped ==
    ASSUME NEW run \in Runs
    PROVE  Rep(run) \in Seq(Stages) /\ Len(Rep(run)) = run.units
<1>1. run.units \in Nat /\ run.stage \in Stages BY DEF Runs
<1>2. Rep(run) \in [1 .. run.units -> Stages] BY <1>1 DEF Rep
<1> QED BY <1>1, <1>2

LEMMA RepsTyped ==
    ASSUME NEW runs \in Seq(Runs)
    PROVE  /\ Reps(runs) \in Seq(Seq(Stages))
           /\ Len(Reps(runs)) = Len(runs)
           /\ \A i \in 1 .. Len(runs) : Reps(runs)[i] = Rep(runs[i])
<1>1. PICK n \in Nat : n = Len(runs) /\ runs \in [1 .. n -> Runs] BY LenProperties
<1>2. PICK X : X = Seq(Stages) OBVIOUS
<1>3. \A i \in 1 .. n : Rep(runs[i]) \in X BY <1>1, <1>2, RepTyped
<1>4. PICK P : P = Reps(runs) OBVIOUS
<1>5. P = [i \in 1 .. n |-> Rep(runs[i])] BY <1>1, <1>4 DEF Reps
<1>6. P \in [1 .. n -> X] BY <1>3, <1>5
<1>7. P \in Seq(X) /\ Len(P) = n BY <1>6
<1> QED BY <1>1, <1>2, <1>4, <1>5, <1>7

LEMMA ExpandedTyped ==
    ASSUME NEW runs \in Seq(Runs)
    PROVE  Expanded(runs) \in Seq(Stages) /\ Expanded(runs) = FlattenSeq(Reps(runs))
BY RepsTyped, FlattenTyped DEF Expanded, Reps, Rep

LEMMA ExpandedEmpty == Expanded(<< >>) = << >>
<1>1. Reps(<< >>) = << >> BY DEF Reps
<1>2. << >> \in Seq(Runs) OBVIOUS
<1> QED BY <1>1, <1>2, ExpandedTyped, FlattenEmpty

LEMMA ExpandedAppend ==
    ASSUME NEW runs \in Seq(Runs), NEW run \in Runs
    PROVE  Expanded(Append(runs, run)) = Expanded(runs) \o Rep(run)
<1>1. PICK n \in Nat : n = Len(runs) BY LenProperties
<1>2. PICK rr \in Seq(Runs) : rr = Append(runs, run) BY AppendProperties
<1>3. /\ Len(rr) = n + 1 /\ \A i \in 1 .. n : rr[i] = runs[i]
      /\ rr[n + 1] = run
  BY <1>1, <1>2, AppendProperties
<1>4. PICK X : X = Seq(Stages) OBVIOUS
<1>5. PICK P \in Seq(X) : P = Reps(rr) /\ Len(P) = n + 1
                          /\ \A i \in 1 .. (n + 1) : P[i] = Rep(rr[i])
  BY <1>3, <1>4, RepsTyped
<1>6. PICK Q \in Seq(X) : Q = Reps(runs) /\ Len(Q) = n
                          /\ \A i \in 1 .. n : Q[i] = Rep(runs[i])
  BY <1>1, <1>4, RepsTyped
<1>7. PICK e \in X : e = Rep(run) BY <1>4, RepTyped
<1>8. PICK R \in Seq(X) : R = Append(Q, e) BY <1>6, <1>7, AppendProperties
<1>9. Len(R) = n + 1 /\ \A i \in 1 .. n : R[i] = Q[i]
  BY <1>6, <1>8, AppendProperties
<1>10. R[n + 1] = e BY <1>6, <1>8
<1>11. ASSUME NEW i \in 1 .. (n + 1) PROVE P[i] = R[i]
  <2>1. CASE i = n + 1 BY <1>3, <1>5, <1>7, <1>10, <2>1
  <2>2. CASE i # n + 1
    <3>1. i \in 1 .. n BY <2>2
    <3> QED BY <1>3, <1>5, <1>6, <1>9, <3>1
  <2> QED BY <2>1, <2>2
<1>12. P = R BY <1>5, <1>9, <1>11, SeqEqual
<1>13. FlattenSeq(R) = FlattenSeq(Q) \o e BY <1>4, <1>6, <1>7, <1>8, FlattenAppend
<1> QED BY <1>2, <1>5, <1>6, <1>7, <1>12, <1>13, ExpandedTyped

LEMMA ExpandedCons ==
    ASSUME NEW runs \in Seq(Runs), runs # << >>
    PROVE  Expanded(runs) = Rep(Head(runs)) \o Expanded(Tail(runs))
<1>1. Head(runs) \in Runs /\ Tail(runs) \in Seq(Runs) BY HeadTailProperties
<1>2. PICK n \in Nat : Len(runs) = n + 1
  <2>1. Len(runs) \in Nat /\ Len(runs) # 0 BY EmptySeq, LenProperties
  <2>2. Len(runs) - 1 \in Nat /\ Len(runs) = (Len(runs) - 1) + 1 BY <2>1
  <2> QED BY <2>2
<1>3. Len(Tail(runs)) = n /\ \A i \in 1 .. n : Tail(runs)[i] = runs[i + 1] BY <1>2
<1>4. PICK X : X = Seq(Stages) OBVIOUS
<1>5. PICK P \in Seq(X) : P = Reps(runs) /\ Len(P) = n + 1
                          /\ \A i \in 1 .. (n + 1) : P[i] = Rep(runs[i])
  BY <1>2, <1>4, RepsTyped
<1>6. PICK Q \in Seq(X) : Q = Reps(Tail(runs)) /\ Len(Q) = n
                          /\ \A i \in 1 .. n : Q[i] = Rep(Tail(runs)[i])
  BY <1>1, <1>3, <1>4, RepsTyped
<1>7. PICK e \in X : e = Rep(Head(runs)) BY <1>1, <1>4, RepTyped
<1>8. P[1] = e BY <1>2, <1>5, <1>7
<1>9. \A i \in 1 .. n : P[i + 1] = Q[i] BY <1>3, <1>5, <1>6
<1>10. P = <<e>> \o Q BY <1>5, <1>6, <1>8, <1>9, Consed
<1>11. FlattenSeq(<<e>> \o Q) = e \o FlattenSeq(Q) BY <1>4, <1>6, <1>7, FlattenCons
<1> QED BY <1>1, <1>5, <1>6, <1>7, <1>10, <1>11, ExpandedTyped

\* A run joined to a record adds its units after those of the record.
LEMMA JoinedAdds ==
    ASSUME NEW runs \in Seq(Runs), NEW run \in Runs
    PROVE  /\ Joined(runs, run) \in Seq(Runs)
           /\ Expanded(Joined(runs, run)) = Expanded(runs) \o Rep(run)
<1>1. CASE runs # << >> /\ Last(runs).stage = run.stage
  <2>1. PICK r \in Seq(Runs), l \in Runs : runs = Append(r, l)
    BY <1>1, SequenceEmptyOrAppend
  <2>2. PICK n \in Nat : n = Len(r) BY LenProperties
  <2>3. Len(runs) = n + 1 /\ runs[n + 1] = l BY <2>1, <2>2, AppendProperties
  <2>4. l.stage = run.stage BY <1>1, <2>3 DEF Last
  <2>5. PICK m : m = [l EXCEPT !.units = @ + run.units] OBVIOUS
  <2>6. m \in Runs /\ m.stage = l.stage /\ m.units = l.units + run.units
    <3>1. l.units \in Nat \ {0} /\ run.units \in Nat \ {0} /\ l.stage \in Stages BY DEF Runs
    <3>2. l = [stage |-> l.stage, units |-> l.units] BY DEF Runs
    <3>3. m = [stage |-> l.stage, units |-> l.units + run.units] BY <2>5, <3>2
    <3>4. l.units + run.units \in Nat \ {0} BY <3>1
    <3> QED BY <3>1, <3>3, <3>4 DEF Runs
  <2>7. Joined(runs, run) = [runs EXCEPT ![n + 1] = m]
    BY <1>1, <2>3, <2>5 DEF Joined
  <2>8. [runs EXCEPT ![n + 1] = m] = Append(r, m)
    <3>1. PICK s : s = [runs EXCEPT ![n + 1] = m] OBVIOUS
    <3>2. n + 1 \in 1 .. Len(runs) BY <2>3
    <3>3. /\ s \in Seq(Runs) /\ Len(s) = n + 1
          /\ \A j \in 1 .. Len(runs) : s[j] = IF j = n + 1 THEN m ELSE runs[j]
      BY <2>3, <2>6, <3>1, <3>2, ExceptSeq
    <3>4. PICK t \in Seq(Runs) : t = Append(r, m) BY <2>6, AppendProperties
    <3>5. /\ Len(t) = n + 1 /\ t[n + 1] = m
          /\ \A i \in 1 .. n : t[i] = r[i]
      BY <2>2, <2>6, <3>4, AppendProperties
    <3>6. \A i \in 1 .. n : runs[i] = r[i] BY <2>1, <2>2, AppendProperties
    <3>7. ASSUME NEW i \in 1 .. Len(s) PROVE s[i] = t[i]
      <4>1. CASE i = n + 1 BY <2>3, <3>3, <3>5, <4>1
      <4>2. CASE i # n + 1
        <5>1. i \in 1 .. n BY <3>3, <4>2
        <5> QED BY <2>3, <3>3, <3>5, <3>6, <4>2, <5>1
      <4> QED BY <4>1, <4>2
    <3>8. s = t BY <3>3, <3>4, <3>5, <3>7, SeqEqual
    <3> QED BY <3>1, <3>4, <3>8
  <2>9. Rep(m) = Rep(l) \o Rep(run)
    <3>1. PICK a \in Nat : a = l.units BY DEF Runs
    <3>2. PICK b \in Nat : b = run.units BY DEF Runs
    <3>3. PICK x \in Stages : x = run.stage BY DEF Runs
    <3>4. PICK A \in Seq(Stages) : A = Rep(l) /\ Len(A) = a BY <3>1, RepTyped
    <3>5. PICK B \in Seq(Stages) : B = Rep(run) /\ Len(B) = b BY <3>2, RepTyped
    <3>6. PICK M \in Seq(Stages) : M = Rep(m) /\ Len(M) = a + b
      BY <2>6, <3>1, <3>2, RepTyped
    <3>7. \A i \in 1 .. a : A[i] = x BY <2>4, <3>1, <3>3, <3>4 DEF Rep
    <3>8. \A i \in 1 .. b : B[i] = x BY <3>2, <3>3, <3>5 DEF Rep
    <3>9. \A i \in 1 .. (a + b) : M[i] = x BY <2>4, <2>6, <3>1, <3>2, <3>3, <3>6 DEF Rep
    <3>10. /\ A \o B \in Seq(Stages) /\ Len(A \o B) = a + b
           /\ \A i \in 1 .. (a + b) : (A \o B)[i] = IF i <= a THEN A[i] ELSE B[i - a]
      BY <3>4, <3>5, ConcatProperties
    <3>11. ASSUME NEW i \in 1 .. (a + b) PROVE M[i] = (A \o B)[i]
      <4>1. CASE i <= a BY <3>7, <3>9, <3>10, <4>1
      <4>2. CASE i > a
        <5>1. i - a \in 1 .. b /\ ~(i <= a) BY <4>2
        <5>2. (A \o B)[i] = B[i - a] BY <3>10, <5>1
        <5>3. B[i - a] = x BY <3>8, <5>1
        <5> QED BY <3>9, <5>2, <5>3
      <4>3. i <= a \/ i > a OBVIOUS
      <4> QED BY <4>1, <4>2, <4>3, Zenon
    <3>12. M = A \o B BY <3>6, <3>10, <3>11, SeqEqual
    <3> QED BY <3>4, <3>5, <3>6, <3>12
  <2>10. Expanded(runs) = Expanded(r) \o Rep(l) BY <2>1, ExpandedAppend
  <2>11. Expanded(Append(r, m)) = Expanded(r) \o Rep(m) BY <2>6, ExpandedAppend
  <2>12. Expanded(r) \o (Rep(l) \o Rep(run)) = (Expanded(r) \o Rep(l)) \o Rep(run)
    <3>1. Expanded(r) \in Seq(Stages) BY ExpandedTyped
    <3>2. Rep(l) \in Seq(Stages) /\ Rep(run) \in Seq(Stages) BY RepTyped
    <3> QED BY <3>1, <3>2, ConcatAssociative
  <2>13. Append(r, m) \in Seq(Runs) BY <2>6, AppendProperties
  <2> QED BY <2>7, <2>8, <2>9, <2>10, <2>11, <2>12, <2>13
<1>2. CASE ~(runs # << >> /\ Last(runs).stage = run.stage)
  <2>1. Joined(runs, run) = Append(runs, run) BY <1>2 DEF Joined
  <2> QED BY <2>1, AppendProperties, ExpandedAppend
<1> QED BY <1>1, <1>2

\* A record extended by another one holds the units of both, in order.
LEMMA ExtendedAdds ==
    ASSUME NEW outer \in Seq(Runs), NEW inner \in Seq(Runs)
    PROVE  /\ Extended(outer, inner) \in Seq(Runs)
           /\ Expanded(Extended(outer, inner)) = Expanded(outer) \o Expanded(inner)
<1> DEFINE Rec(g) == [i \in 0 .. Len(inner) |->
                        IF i = 0 THEN outer ELSE Joined(g[i - 1], inner[i])]
<1>1. PICK n \in Nat : n = Len(inner) /\ inner \in [1 .. n -> Runs] BY LenProperties
<1>2. PICK X : X = Seq(Runs) OBVIOUS
<1>3. PICK F : F = [i \in 1 .. n |-> [x \in X |-> Joined(x, inner[i])]] OBVIOUS
<1>4. F \in [1 .. n -> [X -> X]]
  <2>1. ASSUME NEW i \in 1 .. n PROVE [x \in X |-> Joined(x, inner[i])] \in [X -> X]
    <3>1. inner[i] \in Runs BY <1>1
    <3>2. \A x \in X : Joined(x, inner[i]) \in X BY <1>2, <3>1, JoinedAdds
    <3> QED BY <3>2
  <2> QED BY <1>3, <2>1
<1>5. PICK f : Iterates(f, n, X, outer, F) BY <1>2, <1>4, PrefixRecursion
<1>6. f = Rec(f)
  <2>1. f \in [0 .. n -> X] /\ f[0] = outer BY <1>5 DEF Iterates
  <2>2. ASSUME NEW i \in 0 .. n, i # 0 PROVE f[i] = Joined(f[i - 1], inner[i])
    <3>1. i \in 1 .. n /\ i - 1 \in 0 .. n BY <2>2
    <3>2. f[i] = F[i][f[i - 1]] BY <1>5, <3>1 DEF Iterates
    <3>3. f[i - 1] \in X BY <2>1, <3>1
    <3> QED BY <1>3, <3>1, <3>2, <3>3
  <2>3. \A i \in 0 .. n : f[i] = IF i = 0 THEN outer ELSE Joined(f[i - 1], inner[i])
    BY <2>1, <2>2
  <2> QED BY <1>1, <2>1, <2>3
<1>7. PICK c : c = CHOOSE g : g = Rec(g) OBVIOUS
<1>8. c = Rec(c)
  <2> HIDE DEF Rec
  <2> QED BY <1>6, <1>7
<1>9. Extended(outer, inner) = c[n] BY <1>1, <1>7, Zenon DEF Extended
<1>10. c[0] = outer BY <1>1, <1>8
<1>11. ASSUME NEW m \in Nat, m + 1 <= n PROVE c[m + 1] = Joined(c[m], inner[m + 1])
  <2>1. m + 1 \in 0 .. n /\ m + 1 # 0 /\ (m + 1) - 1 = m BY <1>11
  <2>2. Rec(c)[m + 1] = Joined(c[(m + 1) - 1], inner[m + 1]) BY <1>1, <2>1
  <2> HIDE DEF Rec
  <2> QED BY <1>8, <2>1, <2>2
<1> HIDE DEF Rec
<1> DEFINE P(m) == /\ c[m] \in Seq(Runs)
                   /\ SubSeq(inner, 1, m) \in Seq(Runs)
                   /\ Expanded(c[m]) = Expanded(outer) \o Expanded(SubSeq(inner, 1, m))
           M == {m \in Nat : m <= n => P(m)}
<1>12. P(0)
  <2>1. SubSeq(inner, 1, 0) = << >> BY SubSeqEmpty
  <2>2. Expanded(outer) \o << >> = Expanded(outer) BY ExpandedTyped, ConcatEmptySeq
  <2>3. << >> \in Seq(Runs) OBVIOUS
  <2> QED BY <1>10, <2>1, <2>2, <2>3, ExpandedEmpty
<1>13. ASSUME NEW m \in Nat, m + 1 <= n, P(m) PROVE P(m + 1)
  <2>1. PICK r \in Seq(Runs) : r = SubSeq(inner, 1, m) BY <1>13
  <2>2. PICK x \in Runs : x = inner[m + 1]
    <3>1. m + 1 \in 1 .. n BY <1>13
    <3> QED BY <1>1, <3>1
  <2>3. SubSeq(inner, 1, m + 1) = r \o <<x>>
    <3>1. 1 \in 1 .. Len(inner) /\ m + 1 \in 1 .. Len(inner) /\ (m + 1) - 1 = m BY <1>1, <1>13
    <3>2. SubSeq(inner, 1, m + 1) = SubSeq(inner, 1, (m + 1) - 1) \o <<inner[m + 1]>>
      BY <3>1, SubSeqRecursiveSecond
    <3> QED BY <2>1, <2>2, <3>1, <3>2
  <2>4. SubSeq(inner, 1, m + 1) = Append(r, x) BY <2>3, AppendIsConcat
  <2>5. c[m] \in Seq(Runs) /\ Expanded(c[m]) = Expanded(outer) \o Expanded(r)
    BY <1>13, <2>1
  <2>6. c[m + 1] = Joined(c[m], x) BY <1>11, <1>13, <2>2
  <2>7. c[m + 1] \in Seq(Runs) /\ Expanded(c[m + 1]) = Expanded(c[m]) \o Rep(x)
    BY <2>5, <2>6, JoinedAdds
  <2>8. Expanded(Append(r, x)) = Expanded(r) \o Rep(x) BY ExpandedAppend
  <2>9. (Expanded(outer) \o Expanded(r)) \o Rep(x) = Expanded(outer) \o (Expanded(r) \o Rep(x))
    <3>1. Expanded(outer) \in Seq(Stages) /\ Expanded(r) \in Seq(Stages) BY ExpandedTyped
    <3>2. Rep(x) \in Seq(Stages) BY RepTyped
    <3> QED BY <3>1, <3>2, UnitsAssociate, Zenon
  <2>10. Append(r, x) \in Seq(Runs) BY AppendProperties
  <2> QED BY <2>4, <2>5, <2>7, <2>8, <2>9, <2>10
<1> HIDE DEF P
<1>14. M = Nat
  <2>1. M \in SUBSET Nat OBVIOUS
  <2>2. 0 \in M BY <1>12
  <2>3. ASSUME NEW m \in Nat, m \in M PROVE m + 1 \in M BY <1>13, <2>3
  <2> HIDE DEF M
  <2> QED BY <2>1, <2>2, <2>3, FromZero
<1>15. P(n) BY <1>14
<1>16. SubSeq(inner, 1, n) = inner BY <1>1, SubSeqFull
<1> QED BY <1>9, <1>15, <1>16 DEF P

-----------------------------------------------------------------------------
(* What every reachable state keeps true of the calls in progress.         *)

OpCalls      == [kind : {"op"}, name : Ops, rest : Seq(Items), marred : BOOLEAN]
ComputeCalls == [kind : {"compute"}, name : Keys, rest : Seq(Items), marred : BOOLEAN]
ReplayCalls  == [kind : {"replay"}, name : Keys, rest : Seq(Runs), marred : BOOLEAN]
Calls == OpCalls \cup ComputeCalls \cup ReplayCalls

\* An operation, inside it the computations that run, each the next item of
\* its caller, and a replay at most, innermost.
Stacked ==
    /\ stack \in Seq(Calls)
    /\ \A i \in 1 .. Len(stack) : i = 1 <=> stack[i].kind = "op"
    /\ \A i \in 1 .. Len(stack) - 1 :
          /\ stack[i].kind # "replay"
          /\ stack[i].rest # << >>
          /\ Head(stack[i].rest) = stack[i + 1].name

\* A recording for each computation that runs.
Recorded ==
    /\ recording \in Seq(Seq(Runs))
    /\ stack = << >> => recording = << >> /\ ~installed
    /\ stack # << >> => Len(recording) = IF Top.kind = "replay" THEN Len(stack) - 2
                                         ELSE Len(stack) - 1
    /\ armed = Rearm(installed, recording)

\* What refuses an operation from outside.
Outside == {"Cancelled", "WallTime"}

Refusals == [cause : Outside \cup {"Work"}, stage : Stages \cup {Start},
             work : 0 .. units + 1]

Numbers ==
    /\ units \in Limits
    /\ spent \in 0 .. units + 1
    /\ refusal = NotYet \/ refusal \in Refusals
    /\ refusal = NotYet => spent <= units
    /\ token \in BOOLEAN /\ installed \in BOOLEAN
    /\ result \in {"none", "value", "marred", "refused"}

\* What is kept, whole.
Entries == [key : Keys, marred : BOOLEAN, runs : Seq(Runs)]
WholeEntries == {e \in Entries : ~e.marred /\ Expanded(e.runs) = Work[e.key]}
KeptRight == kept \in [Caches -> Seq(WholeEntries)]

\* Unless the budget refused, nothing is marred, and what a computation has
\* recorded and what it has left are its units.
Ahead(i) ==
    IF i < Len(stack) /\ stack[i + 1].kind = "replay"
    THEN Expanded(stack[i + 1].rest) \o Due(Tail(stack[i].rest))
    ELSE Due(stack[i].rest)
Sums ==
    Clean => /\ \A i \in 1 .. Len(stack) : ~stack[i].marred
             /\ \A i \in 1 .. Len(stack) : stack[i].kind = "compute" =>
                   Expanded(recording[i - 1]) \o Ahead(i) = Work[stack[i].name]

Sound == Stacked /\ Recorded /\ Numbers /\ KeptRight /\ Sums

-----------------------------------------------------------------------------
(* The shape of each step's stack.                                         *)

LEMMA CallFacts ==
    ASSUME NEW f \in Calls
    PROVE  /\ f = [kind |-> f.kind, name |-> f.name, rest |-> f.rest, marred |-> f.marred]
           /\ f.kind \in {"op", "compute", "replay"}
           /\ f.kind = "op" => f.name \in Ops
           /\ f.kind # "op" => f.name \in Keys
           /\ f.kind = "replay" => f.rest \in Seq(Runs)
           /\ f.kind # "replay" => f.rest \in Seq(Items)
           /\ f.marred \in BOOLEAN
<1>1. CASE f \in OpCalls BY <1>1 DEF OpCalls
<1>2. CASE f \in ComputeCalls BY <1>2 DEF ComputeCalls
<1>3. CASE f \in ReplayCalls BY <1>3 DEF ReplayCalls
<1> QED BY <1>1, <1>2, <1>3 DEF Calls

\* A call that goes on is the same one, with less to do.
LEMMA OnwardFacts ==
    ASSUME NEW f \in Calls, f.rest # << >>, NEW m \in BOOLEAN, NEW c \in Onward(f, m)
    PROVE  /\ c \in Calls
           /\ c.kind = f.kind /\ c.name = f.name
           /\ c.marred = (f.marred \/ m)
           /\ c.rest = Tail(f.rest) \/ ((f.marred \/ m) /\ c.rest = << >>)
<1>0. PICK r \in (IF f.marred \/ m THEN {Tail(f.rest), << >>} ELSE {Tail(f.rest)}) :
         c = [f EXCEPT !.rest = r, !.marred = @ \/ m]
  BY Zenon DEF Onward
<1>1. /\ c = [f EXCEPT !.rest = r, !.marred = @ \/ m]
      /\ r = Tail(f.rest) \/ ((f.marred \/ m) /\ r = << >>)
  <2>1. CASE f.marred \/ m
    <3>1. r \in {Tail(f.rest), << >>} BY <2>1, Zenon
    <3> QED BY <1>0, <2>1, <3>1
  <2>2. CASE ~(f.marred \/ m)
    <3>1. r \in {Tail(f.rest)} BY <2>2, Zenon
    <3> QED BY <1>0, <3>1
  <2> QED BY <2>1, <2>2
<1>2. f = [kind |-> f.kind, name |-> f.name, rest |-> f.rest, marred |-> f.marred]
  BY CallFacts
<1>3. PICK b : b = (f.marred \/ m) OBVIOUS
<1>4. c = [kind |-> f.kind, name |-> f.name, rest |-> r, marred |-> b]
  BY <1>1, <1>2, <1>3
<1>5. b \in BOOLEAN BY <1>3
<1>6. f.kind # "replay" => r \in Seq(Items)
  <2>1. ASSUME f.kind # "replay" PROVE r \in Seq(Items)
    <3>1. f.rest \in Seq(Items) BY <2>1, CallFacts
    <3>2. Tail(f.rest) \in Seq(Items) BY <3>1, HeadTailProperties
    <3>3. << >> \in Seq(Items) OBVIOUS
    <3> QED BY <1>1, <3>2, <3>3
  <2> QED BY <2>1
<1>7. f.kind = "replay" => r \in Seq(Runs)
  <2>1. ASSUME f.kind = "replay" PROVE r \in Seq(Runs)
    <3>1. f.rest \in Seq(Runs) BY <2>1, CallFacts
    <3>2. Tail(f.rest) \in Seq(Runs) BY <3>1, HeadTailProperties
    <3>3. << >> \in Seq(Runs) OBVIOUS
    <3> QED BY <1>1, <3>2, <3>3
  <2> QED BY <2>1
<1>8. c \in Calls
  <2>1. CASE f.kind = "op"
    <3>1. f.name \in Ops /\ r \in Seq(Items) BY <1>6, <2>1, CallFacts
    <3>2. c \in OpCalls BY <1>4, <1>5, <2>1, <3>1 DEF OpCalls
    <3> QED BY <3>2 DEF Calls
  <2>2. CASE f.kind = "compute"
    <3>1. f.name \in Keys /\ r \in Seq(Items) BY <1>6, <2>2, CallFacts
    <3>2. c \in ComputeCalls BY <1>4, <1>5, <2>2, <3>1 DEF ComputeCalls
    <3> QED BY <3>2 DEF Calls
  <2>3. CASE f.kind = "replay"
    <3>1. f.name \in Keys /\ r \in Seq(Runs) BY <1>7, <2>3, CallFacts
    <3>2. c \in ReplayCalls BY <1>4, <1>5, <2>3, <3>1 DEF ReplayCalls
    <3> QED BY <3>2 DEF Calls
  <2> QED BY <2>1, <2>2, <2>3, CallFacts
<1>9. c.kind = f.kind /\ c.name = f.name /\ c.rest = r /\ c.marred = b BY <1>4
<1> QED BY <1>1, <1>3, <1>8, <1>9

LEMMA StackFacts ==
    ASSUME Stacked
    PROVE  /\ Len(stack) \in Nat
           /\ \A i \in 1 .. Len(stack) : stack[i] \in Calls
           /\ stack # << >> <=> Len(stack) > 0
           /\ stack # << >> => Top = stack[Len(stack)]
<1>1. stack \in Seq(Calls) BY DEF Stacked
<1> QED BY <1>1 DEF Top, Last

\* What replaces the n-th of n calls on the stack.
LEMMA Replaced ==
    ASSUME Stacked, NEW n \in 1 .. Len(stack), NEW c \in Calls,
           stack' = Append(SubSeq(stack, 1, n - 1), c)
    PROVE  /\ stack' \in Seq(Calls)
           /\ Len(stack') = n
           /\ stack'[n] = c
           /\ \A i \in 1 .. n - 1 : stack'[i] = stack[i]
<1>1. stack \in Seq(Calls) BY DEF Stacked
<1>2. Len(stack) \in Nat /\ n \in Nat /\ n - 1 \in Nat BY <1>1
<1>3. PICK b : b = SubSeq(stack, 1, n - 1) OBVIOUS
<1>4. b \in Seq(Calls) /\ Len(b) = n - 1 /\ \A i \in 1 .. n - 1 : b[i] = stack[i]
  BY <1>1, <1>2, <1>3
<1>5. stack' = Append(b, c) BY <1>3
<1> QED BY <1>2, <1>4, <1>5

LEMMA Pushed ==
    ASSUME Stacked, NEW c \in Calls, stack' = Append(stack, c)
    PROVE  /\ stack' \in Seq(Calls)
           /\ Len(stack') = Len(stack) + 1
           /\ stack'[Len(stack) + 1] = c
           /\ \A i \in 1 .. Len(stack) : stack'[i] = stack[i]
<1>1. stack \in Seq(Calls) BY DEF Stacked
<1> QED BY <1>1

\* The n-th call goes on and those above it have returned.
GoesOn(n, m) ==
    \E c \in Onward(stack[n], m) : stack' = Append(SubSeq(stack, 1, n - 1), c)

LEMMA GoesOnFacts ==
    ASSUME Stacked, NEW n \in 1 .. Len(stack), stack[n].rest # << >>,
           NEW m \in BOOLEAN, GoesOn(n, m)
    PROVE  /\ Stacked'
           /\ Len(stack') = n /\ stack' # << >> /\ Top' = stack'[n]
           /\ \A i \in 1 .. n - 1 : stack'[i] = stack[i]
           /\ stack'[n].kind = stack[n].kind /\ stack'[n].name = stack[n].name
           /\ stack'[n].marred = (stack[n].marred \/ m)
           /\ \/ stack'[n].rest = Tail(stack[n].rest)
              \/ (stack[n].marred \/ m) /\ stack'[n].rest = << >>
<1>1. PICK c \in Onward(stack[n], m) : stack' = Append(SubSeq(stack, 1, n - 1), c)
  BY DEF GoesOn
<1>2. stack[n] \in Calls BY StackFacts
<1>3. /\ c \in Calls /\ c.kind = stack[n].kind /\ c.name = stack[n].name
      /\ c.marred = (stack[n].marred \/ m)
      /\ c.rest = Tail(stack[n].rest) \/ ((stack[n].marred \/ m) /\ c.rest = << >>)
  BY <1>2, OnwardFacts
<1>4. /\ stack' \in Seq(Calls) /\ Len(stack') = n /\ stack'[n] = c
      /\ \A i \in 1 .. n - 1 : stack'[i] = stack[i]
  BY <1>1, <1>3, Replaced
<1>5. Len(stack) \in Nat /\ n \in Nat BY StackFacts
<1>6. stack' # << >> /\ Top' = stack'[n]
  <2>1. stack' # << >> BY <1>4, <1>5
  <2> QED BY <1>4, <2>1 DEF Top, Last
<1>7. \A i \in 1 .. n : i = 1 <=> stack'[i].kind = "op"
  <2> SUFFICES ASSUME NEW i \in 1 .. n PROVE i = 1 <=> stack'[i].kind = "op" OBVIOUS
  <2>1. i = 1 <=> stack[i].kind = "op" BY <1>5 DEF Stacked
  <2>2. CASE i = n BY <1>3, <1>4, <2>1, <2>2
  <2>3. CASE i # n
    <3>1. i \in 1 .. n - 1 BY <1>5, <2>3
    <3> QED BY <1>4, <2>1, <3>1
  <2> QED BY <2>2, <2>3
<1>8. ASSUME NEW i \in 1 .. n - 1
      PROVE  /\ stack'[i].kind # "replay"
             /\ stack'[i].rest # << >>
             /\ Head(stack'[i].rest) = stack'[i + 1].name
  <2>1. i \in 1 .. Len(stack) - 1 BY <1>5
  <2>2. /\ stack[i].kind # "replay" /\ stack[i].rest # << >>
        /\ Head(stack[i].rest) = stack[i + 1].name
    BY <2>1 DEF Stacked
  <2>3. stack'[i + 1].name = stack[i + 1].name
    <3>1. CASE i + 1 = n BY <1>3, <1>4, <3>1
    <3>2. CASE i + 1 # n
      <4>1. i + 1 \in 1 .. n - 1 BY <1>5, <3>2
      <4> QED BY <1>4, <4>1
    <3> QED BY <3>1, <3>2
  <2> QED BY <1>4, <2>2, <2>3
<1>9. Stacked' BY <1>4, <1>7, <1>8 DEF Stacked
<1> QED BY <1>3, <1>4, <1>6, <1>9

\* A call begins: the next item of the innermost one.
LEMMA Calling ==
    ASSUME Stacked, stack # << >>, Top.kind # "replay", Top.rest # << >>,
           NEW c \in Calls, c.kind # "op", Head(Top.rest) = c.name,
           stack' = Append(stack, c)
    PROVE  /\ Stacked'
           /\ Len(stack') = Len(stack) + 1 /\ stack' # << >>
           /\ Top' = c /\ stack'[Len(stack) + 1] = c
           /\ \A i \in 1 .. Len(stack) : stack'[i] = stack[i]
<1>1. PICK n \in Nat : n = Len(stack) /\ n > 0 /\ Top = stack[n] BY StackFacts
<1>2. /\ stack' \in Seq(Calls) /\ Len(stack') = n + 1 /\ stack'[n + 1] = c
      /\ \A i \in 1 .. n : stack'[i] = stack[i]
  BY <1>1, Pushed
<1>3. stack' # << >> /\ Top' = c
  <2>1. stack' # << >> BY <1>1, <1>2
  <2> QED BY <1>2, <2>1 DEF Top, Last
<1>4. \A i \in 1 .. n + 1 : i = 1 <=> stack'[i].kind = "op"
  <2> SUFFICES ASSUME NEW i \in 1 .. n + 1 PROVE i = 1 <=> stack'[i].kind = "op" OBVIOUS
  <2>1. CASE i = n + 1 BY <1>1, <1>2, <2>1
  <2>2. CASE i # n + 1
    <3>1. i \in 1 .. n BY <2>2
    <3>2. i = 1 <=> stack[i].kind = "op" BY <1>1, <3>1 DEF Stacked
    <3> QED BY <1>2, <3>1, <3>2
  <2> QED BY <2>1, <2>2
<1>5. ASSUME NEW i \in 1 .. n
      PROVE  /\ stack'[i].kind # "replay"
             /\ stack'[i].rest # << >>
             /\ Head(stack'[i].rest) = stack'[i + 1].name
  <2>1. CASE i = n BY <1>1, <1>2, <2>1
  <2>2. CASE i # n
    <3>1. i \in 1 .. n - 1 /\ i + 1 \in 1 .. n BY <2>2
    <3>2. /\ stack[i].kind # "replay" /\ stack[i].rest # << >>
          /\ Head(stack[i].rest) = stack[i + 1].name
      BY <1>1, <3>1 DEF Stacked
    <3> QED BY <1>2, <3>1, <3>2
  <2> QED BY <2>1, <2>2
<1>6. Stacked'
  <2>1. Len(stack') - 1 = n BY <1>2
  <2> QED BY <1>2, <1>4, <1>5, <2>1 DEF Stacked
<1> QED BY <1>1, <1>2, <1>3, <1>6

LEMMA Popped ==
    ASSUME Stacked, stack # << >>, Top.kind # "op", Pop
    PROVE  /\ Len(stack) - 1 \in 1 .. Len(stack)
           /\ stack[Len(stack) - 1].kind # "replay"
           /\ stack[Len(stack) - 1].rest # << >>
           /\ Head(stack[Len(stack) - 1].rest) = Top.name
           /\ GoesOn(Len(stack) - 1, Top.marred)
<1>1. PICK n \in Nat : n = Len(stack) /\ n > 0 /\ Top = stack[n] BY StackFacts
<1>2. n \in 1 .. Len(stack) BY <1>1
<1>3. n # 1 BY <1>1, <1>2 DEF Stacked
<1>4. n - 1 \in 1 .. Len(stack) - 1 BY <1>1, <1>3
<1>5. /\ stack[n - 1].kind # "replay" /\ stack[n - 1].rest # << >>
      /\ Head(stack[n - 1].rest) = stack[n].name
  BY <1>1, <1>4 DEF Stacked
<1>6. stack \in Seq(Calls) BY DEF Stacked
<1>7. PICK b : b = Below OBVIOUS
<1>8. /\ b \in Seq(Calls) /\ Len(b) = n - 1
      /\ \A i \in 1 .. n - 1 : b[i] = stack[i]
  BY <1>1, <1>6, <1>7 DEF Below, Front
<1>9. Last(b) = stack[n - 1] BY <1>4, <1>1, <1>8 DEF Last
<1>10. Front(b) = SubSeq(stack, 1, (n - 1) - 1)
  <2>1. PICK f : f = Front(b) OBVIOUS
  <2>2. PICK g : g = SubSeq(stack, 1, (n - 1) - 1) OBVIOUS
  <2>3. f = SubSeq(b, 1, (n - 1) - 1) BY <1>8, <2>1 DEF Front
  <2>4. f \in Seq(Calls) /\ Len(f) = n - 2 /\ \A i \in 1 .. n - 2 : f[i] = b[i]
    BY <1>1, <1>3, <1>8, <2>3
  <2>5. g \in Seq(Calls) /\ Len(g) = n - 2 /\ \A i \in 1 .. n - 2 : g[i] = stack[i]
    BY <1>1, <1>3, <1>6, <2>2
  <2>6. ASSUME NEW i \in 1 .. Len(f) PROVE f[i] = g[i]
    <3>1. i \in 1 .. n - 2 /\ i \in 1 .. n - 1 BY <2>4
    <3> QED BY <1>8, <2>4, <2>5, <3>1
  <2>7. f = g BY <2>4, <2>5, <2>6, SeqEqual
  <2> QED BY <2>1, <2>2, <2>7
<1>11. PICK c \in Onward(Last(b), Top.marred) : stack' = Append(Front(b), c)
  BY <1>7 DEF Pop
<1>12. GoesOn(n - 1, Top.marred) BY <1>9, <1>10, <1>11 DEF GoesOn
<1> QED BY <1>1, <1>4, <1>5, <1>12

-----------------------------------------------------------------------------
(* What the decisions of budget.rs do.                                     *)

LEMMA NotedFacts ==
    ASSUME recording \in Seq(Seq(Runs)), NEW run \in Runs
    PROVE  /\ Noted(run) \in Seq(Seq(Runs)) /\ Len(Noted(run)) = Len(recording)
           /\ \A i \in 1 .. Len(recording) - 1 : Noted(run)[i] = recording[i]
           /\ recording # << >> =>
                 Noted(run)[Len(recording)] = Joined(recording[Len(recording)], run)
<1>1. CASE recording = << >> BY <1>1 DEF Noted
<1>2. CASE recording # << >>
  <2>1. PICK n \in Nat : n = Len(recording) /\ n > 0 BY <1>2
  <2>2. n \in 1 .. Len(recording) BY <2>1
  <2>3. PICK x : x = Joined(recording[n], run) OBVIOUS
  <2>4. x \in Seq(Runs)
    <3>1. recording[n] \in Seq(Runs) BY <2>2
    <3> QED BY <2>3, <3>1, JoinedAdds
  <2>5. Noted(run) = [recording EXCEPT ![n] = x] BY <1>2, <2>1, <2>3 DEF Noted
  <2>6. PICK r : r = [recording EXCEPT ![n] = x] OBVIOUS
  <2>7. PICK X : X = Seq(Runs) OBVIOUS
  <2>8. /\ r \in Seq(X) /\ Len(r) = n
        /\ \A j \in 1 .. n : r[j] = IF j = n THEN x ELSE recording[j]
    BY <2>1, <2>2, <2>4, <2>6, <2>7, ExceptSeq
  <2> QED BY <1>2, <2>1, <2>3, <2>5, <2>6, <2>7, <2>8
<1> QED BY <1>1, <1>2

LEMMA EnclosedFacts ==
    ASSUME recording \in Seq(Seq(Runs)), NEW n \in Nat, Len(recording) = n + 1
    PROVE  /\ Enclosed \in Seq(Seq(Runs)) /\ Len(Enclosed) = n
           /\ \A i \in 1 .. n - 1 : Enclosed[i] = recording[i]
           /\ n > 0 => Enclosed[n] = Extended(recording[n], recording[n + 1])
<1>1. PICK X : X = Seq(Runs) OBVIOUS
<1>2. PICK o : o = Front(recording) OBVIOUS
<1>3. o \in Seq(X) /\ Len(o) = n /\ \A i \in 1 .. n : o[i] = recording[i]
  BY <1>1, <1>2 DEF Front
<1>4. Last(recording) = recording[n + 1] BY DEF Last
<1>5. CASE n = 0
  <2>1. o = << >> BY <1>3, <1>5
  <2> QED BY <1>1, <1>2, <1>3, <1>5, <2>1 DEF Enclosed
<1>6. CASE n > 0
  <2>1. o # << >> BY <1>3, <1>6
  <2>2. PICK x : x = Extended(recording[n], recording[n + 1]) OBVIOUS
  <2>3. x \in X
    <3>1. recording[n] \in Seq(Runs) /\ recording[n + 1] \in Seq(Runs)
      <4>1. n \in 1 .. Len(recording) /\ n + 1 \in 1 .. Len(recording) BY <1>6
      <4> QED BY <4>1
    <3> QED BY <1>1, <2>2, <3>1, ExtendedAdds
  <2>4. o[n] = recording[n] BY <1>3, <1>6
  <2>5. Enclosed = [o EXCEPT ![n] = x]
    BY <1>2, <1>3, <1>4, <2>1, <2>2, <2>4 DEF Enclosed
  <2>6. PICK r : r = [o EXCEPT ![n] = x] OBVIOUS
  <2>7. n \in 1 .. Len(o) BY <1>3, <1>6
  <2>8. /\ r \in Seq(X) /\ Len(r) = n
        /\ \A j \in 1 .. n : r[j] = IF j = n THEN x ELSE o[j]
    BY <1>3, <2>3, <2>6, <2>7, ExceptSeq
  <2>9. \A i \in 1 .. n - 1 : r[i] = recording[i]
    <3>1. \A i \in 1 .. n - 1 : i \in 1 .. n /\ i # n OBVIOUS
    <3> QED BY <1>3, <2>8, <3>1
  <2>10. r[n] = x BY <1>6, <2>8
  <2> QED BY <1>1, <1>6, <2>2, <2>5, <2>6, <2>8, <2>9, <2>10
<1> QED BY <1>5, <1>6

LEMMA StoredFacts ==
    ASSUME KeptRight, NEW c \in Caches, NEW e \in WholeEntries
    PROVE  Stored(c, e) \in Seq(WholeEntries)
<1>1. kept[c] \in Seq(WholeEntries) BY DEF KeptRight
<1>2. Capacity[c] \in Nat \ {0} BY BodyAssumption
<1>3. CASE Len(kept[c]) >= Capacity[c]
  <2>1. Len(kept[c]) \in Nat BY <1>1
  <2>2. kept[c] # << >> BY <1>1, <1>2, <1>3, <2>1
  <2>3. Tail(kept[c]) \in Seq(WholeEntries) BY <1>1, <2>2, HeadTailProperties
  <2>4. Append(Tail(kept[c]), e) \in Seq(WholeEntries) BY <2>3, AppendProperties
  <2> QED BY <1>3, <2>4 DEF Stored
<1>4. CASE ~(Len(kept[c]) >= Capacity[c])
  <2>1. Append(kept[c], e) \in Seq(WholeEntries) BY <1>1, AppendProperties
  <2> QED BY <1>4, <2>1 DEF Stored
<1> QED BY <1>3, <1>4

\* A unit that does not count is refused, and one that counts never is.
LEMMA ChargeFacts ==
    ASSUME Numbers, NEW run \in Runs, NEW ok \in BOOLEAN, Charge(run, ok),
           UNCHANGED <<units, token, installed, result>>
    PROVE  /\ Numbers'
           /\ ~ok => installed /\ refusal' # NotYet
           /\ Clean' => Clean /\ ok
<1>0. /\ units \in Nat /\ spent \in Nat /\ run.units \in Nat \ {0} /\ run.stage \in Stages
      /\ spent \in 0 .. units + 1
  BY BodyAssumption DEF Numbers, Runs
<1>1. CASE ~installed
  <2>1. ok /\ UNCHANGED <<spent, refusal>> BY <1>1 DEF Charge
  <2>2. Numbers' BY <2>1 DEF Numbers, Refusals
  <2> QED BY <1>1, <2>1, <2>2 DEF Clean
<1>2. CASE installed /\ refusal # NotYet /\ ~ok /\ UNCHANGED <<spent, refusal>>
  <2>1. Numbers' BY <1>2 DEF Numbers, Refusals
  <2> QED BY <1>2, <2>1 DEF Clean
<1>3. CASE /\ installed /\ refusal = NotYet /\ ~ok
           /\ refusal' = [cause |-> "Cancelled", stage |-> run.stage, work |-> spent]
           /\ UNCHANGED spent
  <2>1. refusal' \in Refusals /\ refusal'.cause = "Cancelled"
    BY <1>0, <1>3 DEF Refusals, Outside
  <2>2. refusal' # NotYet BY <2>1 DEF NotYet
  <2>3. Numbers'
    <3>1. (refusal \in Refusals)' BY <2>1 DEF Refusals
    <3> QED BY <1>3, <2>2, <3>1 DEF Numbers
  <2> QED BY <1>3, <2>2, <2>3 DEF Clean
<1>4. CASE /\ installed /\ refusal = NotYet /\ ~ok /\ spent' = units + 1
           /\ refusal' = [cause |-> "Work", stage |-> run.stage, work |-> units + 1]
  <2>1. refusal' \in Refusals /\ refusal'.cause = "Work"
    <3>1. units + 1 \in 0 .. units + 1 BY <1>0
    <3> QED BY <1>0, <1>4, <3>1 DEF Refusals
  <2>2. refusal' # NotYet BY <2>1 DEF NotYet
  <2>3. Numbers'
    <3>1. (refusal \in Refusals)' BY <2>1 DEF Refusals
    <3>2. spent' \in 0 .. units + 1 BY <1>0, <1>4
    <3> QED BY <2>2, <3>1, <3>2 DEF Numbers
  <2> QED BY <1>4, <2>2, <2>3 DEF Clean
<1>5. CASE /\ installed /\ refusal = NotYet /\ ok /\ spent + run.units <= units
           /\ spent' = spent + run.units /\ UNCHANGED refusal
  <2>1. spent' \in 0 .. units + 1 /\ spent' <= units BY <1>0, <1>5
  <2>2. Numbers' BY <1>5, <2>1 DEF Numbers, Refusals
  <2> QED BY <1>5, <2>2 DEF Clean
<1>6. CASE /\ installed /\ refusal = NotYet /\ ~ok /\ spent + run.units <= units
           /\ spent' = spent + run.units
           /\ refusal' = [cause |-> "WallTime", stage |-> run.stage, work |-> spent']
  <2>0. spent' \in 0 .. units + 1 BY <1>0, <1>6
  <2>1. refusal' \in Refusals /\ refusal'.cause = "WallTime"
    BY <1>0, <1>6, <2>0 DEF Refusals, Outside
  <2>2. refusal' # NotYet BY <2>1 DEF NotYet
  <2>3. Numbers'
    <3>1. (refusal \in Refusals)' BY <2>1 DEF Refusals
    <3> QED BY <2>0, <2>2, <3>1 DEF Numbers
  <2> QED BY <1>6, <2>2, <2>3 DEF Clean
<1> QED BY <1>1, <1>2, <1>3, <1>4, <1>5, <1>6 DEF Charge

-----------------------------------------------------------------------------
(* Each step keeps the state sound.                                        *)

\* A computation that runs has its recording.
LEMMA ComputeFacts ==
    ASSUME Stacked, Recorded, NEW i \in 1 .. Len(stack), stack[i].kind = "compute"
    PROVE  /\ i - 1 \in 1 .. Len(recording) /\ armed
           /\ recording[i - 1] \in Seq(Runs) /\ stack[i].rest \in Seq(Items)
           /\ stack[i].name \in Keys
<1>1. Len(stack) \in Nat /\ i \in Nat BY StackFacts
<1>2. i # 1 BY DEF Stacked
<1>3. stack # << >> /\ Top = stack[Len(stack)] BY StackFacts, <1>1
<1>4. i - 1 \in 1 .. Len(recording)
  <2>1. CASE Top.kind = "replay"
    <3>1. i # Len(stack) BY <1>3, <2>1
    <3> QED BY <1>1, <1>2, <1>3, <2>1, <3>1 DEF Recorded
  <2>2. CASE Top.kind # "replay" BY <1>1, <1>2, <1>3, <2>2 DEF Recorded
  <2> QED BY <2>1, <2>2
<1>5. recording \in Seq(Seq(Runs)) BY DEF Recorded
<1>6. recording # << >> BY <1>4, <1>5
<1>7. armed BY <1>6 DEF Recorded, Rearm
<1>8. recording[i - 1] \in Seq(Runs) BY <1>4, <1>5
<1>9. stack[i] \in Calls BY StackFacts
<1> QED BY <1>4, <1>7, <1>8, <1>9, CallFacts

\* What the innermost call does next, of one run of units.
CountsOne(run, ok) ==
    /\ IF armed THEN Charge(run, ok) /\ recording' = Noted(run)
       ELSE ok /\ UNCHANGED <<spent, refusal, recording>>
    /\ GoesOn(Len(stack), ~ok)
    /\ Top.kind = "replay" =>
          Top.rest \in Seq(Runs) /\ Expanded(Top.rest) = Rep(run) \o Expanded(Tail(Top.rest))
    /\ Top.kind # "replay" =>
          Top.rest \in Seq(Items) /\ Due(Top.rest) = Rep(run) \o Due(Tail(Top.rest))

LEMMA UnitFacts ==
    ASSUME Stacked, Unit
    PROVE  \E run \in Runs, ok \in BOOLEAN : CountsOne(run, ok)
<1>1. stack # << >> /\ Top.rest # << >> BY DEF Unit
<1>2. PICK item : item = Head(Top.rest) OBVIOUS
<1>3. PICK run : run = IF Top.kind = "replay" THEN item ELSE [stage |-> item, units |-> 1]
  OBVIOUS
<1>4. Top.kind # "replay" => item \in Stages BY <1>2 DEF Unit
<1>5. PICK ok \in BOOLEAN :
         /\ IF armed THEN Charge(run, ok) /\ recording' = Noted(run)
            ELSE ok /\ UNCHANGED <<spent, refusal, recording>>
         /\ \E call \in Onward(Top, ~ok) : stack' = Append(Below, call)
  BY <1>2, <1>3 DEF Unit
<1>6. Top = stack[Len(stack)] /\ Top \in Calls BY <1>1, StackFacts
<1>7. GoesOn(Len(stack), ~ok) BY <1>5, <1>6 DEF GoesOn, Below, Front
<1>8. ASSUME Top.kind = "replay"
      PROVE  /\ run \in Runs /\ Top.rest \in Seq(Runs)
             /\ Expanded(Top.rest) = Rep(run) \o Expanded(Tail(Top.rest))
  <2>1. Top.rest \in Seq(Runs) BY <1>6, <1>8, CallFacts
  <2>2. run = Head(Top.rest) BY <1>2, <1>3, <1>8
  <2> QED BY <1>1, <2>1, <2>2, HeadTailProperties, ExpandedCons
<1>9. ASSUME Top.kind # "replay"
      PROVE  /\ run \in Runs /\ Top.rest \in Seq(Items)
             /\ Due(Top.rest) = Rep(run) \o Due(Tail(Top.rest))
  <2>1. Top.rest \in Seq(Items) BY <1>6, <1>9, CallFacts
  <2>2. run = [stage |-> item, units |-> 1] /\ item \in Stages BY <1>3, <1>4, <1>9
  <2>3. run \in Runs BY <2>2 DEF Runs
  <2>4. Units(item) = Rep(run)
    <3>1. item \notin Keys BY <2>2, BodyAssumption
    <3>2. Units(item) = <<item>> BY <3>1 DEF Units, UnitsOf
    <3>3. Rep(run) = [j \in 1 .. 1 |-> item] BY <2>2 DEF Rep
    <3> QED BY <3>2, <3>3
  <2>5. Due(Top.rest) = Units(item) \o Due(Tail(Top.rest)) BY <1>1, <1>2, <2>1, DueCons
  <2> QED BY <2>1, <2>3, <2>4, <2>5
<1>10. run \in Runs BY <1>8, <1>9
<1>11. CountsOne(run, ok) BY <1>5, <1>7, <1>8, <1>9 DEF CountsOne
<1> QED BY <1>10, <1>11

\* A swallowed refusal mars the call.
LEMMA UnitMars ==
    ASSUME Sound, NEW run \in Runs, NEW ok \in BOOLEAN, CountsOne(run, ok),
           UNCHANGED <<units, token, installed, armed, kept, result>>, stack # << >>,
           Top.rest # << >>
    PROVE  /\ Numbers' /\ KeptRight' /\ Stacked' /\ Recorded'
           /\ Len(stack') = Len(stack) /\ Len(recording') = Len(recording)
           /\ \A i \in 1 .. Len(stack) - 1 : stack'[i] = stack[i]
           /\ \A i \in 1 .. Len(recording) - 1 : recording'[i] = recording[i]
           /\ recording # << >> =>
                 recording'[Len(recording)] = Joined(recording[Len(recording)], run)
           /\ Top'.kind = Top.kind /\ Top'.name = Top.name /\ Top' = stack'[Len(stack)]
           /\ Clean' => /\ Clean /\ ok /\ ~Top'.marred /\ Top'.rest = Tail(Top.rest)
<1>1. PICK n \in Nat : n = Len(stack) /\ n > 0 /\ Top = stack[n] BY StackFacts DEF Sound
<1>2. n \in 1 .. Len(stack) BY <1>1
<1>3. /\ Stacked' /\ Len(stack') = n /\ stack' # << >> /\ Top' = stack'[n]
      /\ \A i \in 1 .. n - 1 : stack'[i] = stack[i]
      /\ Top'.kind = Top.kind /\ Top'.name = Top.name
      /\ Top'.marred = (Top.marred \/ ~ok)
      /\ Top'.rest = Tail(Top.rest) \/ ((Top.marred \/ ~ok) /\ Top'.rest = << >>)
  BY <1>1, <1>2, GoesOnFacts DEF CountsOne, Sound
<1>4. /\ Numbers' /\ (Clean' => Clean /\ ok)
      /\ recording' \in Seq(Seq(Runs)) /\ Len(recording') = Len(recording)
      /\ \A i \in 1 .. Len(recording) - 1 : recording'[i] = recording[i]
      /\ recording # << >> =>
            recording'[Len(recording)] = Joined(recording[Len(recording)], run)
  <2>1. CASE armed
    <3>1. Charge(run, ok) /\ recording' = Noted(run) BY <2>1 DEF CountsOne
    <3> QED BY <3>1, ChargeFacts, NotedFacts DEF Sound, Recorded
  <2>2. CASE ~armed
    <3>1. ok /\ UNCHANGED <<spent, refusal, recording>> BY <2>2 DEF CountsOne
    <3>2. recording = << >> BY <2>2 DEF Sound, Recorded, Rearm
    <3>3. Numbers' BY <3>1 DEF Sound, Numbers, Refusals
    <3> QED BY <3>1, <3>2, <3>3 DEF Sound, Recorded, Clean
  <2> QED BY <2>1, <2>2
<1>5. recording' # << >> <=> recording # << >> BY <1>4 DEF Sound, Recorded
<1>6. Recorded'
  <2>1. armed' = Rearm(installed', recording')
    <3>1. armed = Rearm(installed, recording) BY DEF Sound, Recorded
    <3> QED BY <1>5, <3>1 DEF Rearm
  <2>2. Len(recording) = IF Top.kind = "replay" THEN Len(stack) - 2 ELSE Len(stack) - 1
    BY DEF Sound, Recorded
  <2> QED BY <1>1, <1>3, <1>4, <2>1, <2>2 DEF Recorded
<1>7. KeptRight' BY DEF Sound, KeptRight
<1>8. ASSUME Clean' PROVE Clean /\ ok /\ ~Top'.marred /\ Top'.rest = Tail(Top.rest)
  <2>1. Clean /\ ok BY <1>4, <1>8
  <2>2. ~Top.marred BY <1>1, <1>2, <2>1 DEF Sound, Sums
  <2> QED BY <1>3, <2>1, <2>2
<1> QED BY <1>1, <1>3, <1>4, <1>6, <1>7, <1>8

LEMMA AheadTyped ==
    ASSUME Stacked, NEW i \in 1 .. Len(stack), stack[i].kind # "replay"
    PROVE  Ahead(i) \in Seq(Stages)
<1>1. stack[i] \in Calls /\ Len(stack) \in Nat BY StackFacts
<1>2. stack[i].rest \in Seq(Items) BY <1>1, CallFacts
<1>3. CASE i < Len(stack) /\ stack[i + 1].kind = "replay"
  <2>1. i + 1 \in 1 .. Len(stack) /\ i \in 1 .. Len(stack) - 1 BY <1>1, <1>3
  <2>2. stack[i + 1] \in Calls BY <2>1, StackFacts
  <2>3. stack[i + 1].rest \in Seq(Runs) BY <1>3, <2>2, CallFacts
  <2>4. stack[i].rest # << >> BY <2>1 DEF Stacked
  <2>5. Tail(stack[i].rest) \in Seq(Items) BY <1>2, <2>4, HeadTailProperties
  <2>6. /\ Expanded(stack[i + 1].rest) \in Seq(Stages)
        /\ Due(Tail(stack[i].rest)) \in Seq(Stages)
    BY <2>3, <2>5, ExpandedTyped, DueTyped
  <2> QED BY <1>3, <2>6, UnitsConcat DEF Ahead
<1>4. CASE ~(i < Len(stack) /\ stack[i + 1].kind = "replay")
  <2>1. Ahead(i) = Due(stack[i].rest) BY <1>4 DEF Ahead
  <2> QED BY <1>2, <2>1, DueTyped
<1> QED BY <1>3, <1>4

LEMMA UnitSound ==
    ASSUME Sound, Unit PROVE Sound'
<1>1. stack # << >> /\ Top.rest # << >> BY DEF Unit
<1>2. PICK run \in Runs, ok \in BOOLEAN : CountsOne(run, ok) BY UnitFacts DEF Sound
<1>3. UNCHANGED <<units, token, installed, armed, kept, result>> BY DEF Unit
<1>4. /\ Numbers' /\ KeptRight' /\ Stacked' /\ Recorded'
      /\ Len(stack') = Len(stack) /\ Len(recording') = Len(recording)
      /\ \A i \in 1 .. Len(stack) - 1 : stack'[i] = stack[i]
      /\ \A i \in 1 .. Len(recording) - 1 : recording'[i] = recording[i]
      /\ recording # << >> =>
            recording'[Len(recording)] = Joined(recording[Len(recording)], run)
      /\ Top'.kind = Top.kind /\ Top'.name = Top.name /\ Top' = stack'[Len(stack)]
      /\ Clean' => Clean /\ ok /\ ~Top'.marred /\ Top'.rest = Tail(Top.rest)
  BY <1>1, <1>2, <1>3, UnitMars
<1>5. PICK n \in Nat : n = Len(stack) /\ n > 0 /\ Top = stack[n]
  BY <1>1, StackFacts DEF Sound
<1>6. ASSUME Clean' PROVE Sums'
  <2>1. Clean /\ ok /\ ~Top'.marred /\ Top'.rest = Tail(Top.rest) BY <1>4, <1>6
  <2>2. ASSUME NEW i \in 1 .. n PROVE ~stack'[i].marred
    <3>1. CASE i = n BY <1>4, <1>5, <2>1, <3>1
    <3>2. CASE i # n
      <4>1. i \in 1 .. n - 1 BY <3>2
      <4> QED BY <1>4, <1>5, <2>1, <4>1 DEF Sound, Sums
    <3> QED BY <3>1, <3>2
  <2>3. ASSUME NEW i \in 1 .. n, stack'[i].kind = "compute"
        PROVE  Expanded(recording'[i - 1]) \o Ahead(i)' = Work[stack'[i].name]
    <3>1. stack[i].kind = "compute" /\ stack[i].name = stack'[i].name
      <4>1. CASE i = n BY <1>4, <1>5, <2>3, <4>1
      <4>2. CASE i # n
        <5>1. i \in 1 .. n - 1 BY <4>2
        <5> QED BY <1>4, <1>5, <2>3, <5>1
      <4> QED BY <4>1, <4>2
    <3>2. /\ i - 1 \in 1 .. Len(recording) /\ recording[i - 1] \in Seq(Runs)
          /\ stack[i].rest \in Seq(Items)
      BY <1>5, <3>1, ComputeFacts DEF Sound
    <3>3. PICK a \in Seq(Stages) : a = Expanded(recording[i - 1]) BY <3>2, ExpandedTyped
    <3>4. PICK u \in Seq(Stages) : u = Rep(run) BY RepTyped
    <3>5. a \o Ahead(i) = Work[stack[i].name] BY <1>5, <2>1, <3>1, <3>3 DEF Sound, Sums
    <3>6. Len(recording) = IF Top.kind = "replay" THEN n - 2 ELSE n - 1
      BY <1>1, <1>5 DEF Sound, Recorded
    <3>7. ASSUME i - 1 = Len(recording)
          PROVE  Expanded(recording'[i - 1]) = a \o u
      <4>1. recording # << >> BY <3>2, <3>7
      <4>2. recording'[i - 1] = Joined(recording[i - 1], run) BY <1>4, <3>7, <4>1
      <4> QED BY <3>2, <3>3, <3>4, <4>2, JoinedAdds
    <3>8. CASE i = n
      <4>1. Top.kind # "replay" /\ i - 1 = Len(recording) BY <1>5, <3>1, <3>6, <3>8
      <4>2. Due(Top.rest) = u \o Due(Tail(Top.rest)) /\ Top.rest \in Seq(Items)
        BY <1>2, <3>4, <4>1 DEF CountsOne
      <4>3. Ahead(i) = Due(Top.rest) BY <1>5, <3>8 DEF Ahead
      <4>4. Ahead(i)' = Due(Tail(Top.rest)) BY <1>4, <1>5, <2>1, <3>8 DEF Ahead
      <4>5. PICK d \in Seq(Stages) : d = Due(Tail(Top.rest))
        <5>1. Tail(Top.rest) \in Seq(Items) BY <1>1, <4>2, HeadTailProperties
        <5> QED BY <5>1, DueTyped
      <4>6. (a \o u) \o d = a \o (u \o d) BY UnitsAssociate
      <4> QED BY <3>1, <3>5, <3>7, <4>1, <4>2, <4>3, <4>4, <4>5, <4>6
    <3>9. CASE i = n - 1 /\ Top.kind = "replay"
      <4>0. i - 1 = Len(recording) /\ i \in 1 .. Len(stack) - 1 /\ i + 1 = n /\ i < n
        BY <1>5, <3>6, <3>9
      <4>1. Expanded(Top.rest) = u \o Expanded(Tail(Top.rest)) /\ Top.rest \in Seq(Runs)
        BY <1>2, <3>4, <3>9 DEF CountsOne
      <4>2. stack[i].rest # << >> BY <4>0 DEF Sound, Stacked
      <4>3. PICK e \in Seq(Stages) : e = Expanded(Tail(Top.rest))
        <5>1. Tail(Top.rest) \in Seq(Runs) BY <1>1, <4>1, HeadTailProperties
        <5> QED BY <5>1, ExpandedTyped
      <4>4. PICK d \in Seq(Stages) : d = Due(Tail(stack[i].rest))
        <5>1. Tail(stack[i].rest) \in Seq(Items) BY <3>2, <4>2, HeadTailProperties
        <5> QED BY <5>1, DueTyped
      <4>5. Ahead(i) = (u \o e) \o d BY <1>5, <3>9, <4>0, <4>1, <4>3, <4>4 DEF Ahead
      <4>6. Ahead(i)' = e \o d
        <5>1. stack'[i] = stack[i] BY <1>4, <4>0
        <5>2. stack'[i + 1].kind = "replay" /\ stack'[i + 1].rest = Tail(Top.rest)
          BY <1>4, <1>5, <2>1, <3>9, <4>0
        <5>3. i < Len(stack') BY <1>4, <1>5, <4>0
        <5> QED BY <4>3, <4>4, <5>1, <5>2, <5>3 DEF Ahead
      <4>7. a \o ((u \o e) \o d) = (a \o u) \o (e \o d)
        <5>1. (u \o e) \o d = u \o (e \o d) BY UnitsAssociate
        <5>2. e \o d \in Seq(Stages) BY UnitsConcat
        <5>3. (a \o u) \o (e \o d) = a \o (u \o (e \o d)) BY <5>2, UnitsAssociate
        <5> QED BY <5>1, <5>3
      <4> QED BY <3>1, <3>5, <3>7, <4>0, <4>5, <4>6, <4>7
    <3>10. CASE i # n /\ ~(i = n - 1 /\ Top.kind = "replay")
      <4>1. i \in 1 .. Len(stack) - 1 /\ i - 1 \in 1 .. Len(recording) - 1
        BY <1>5, <3>2, <3>6, <3>10
      <4>2. recording'[i - 1] = recording[i - 1] /\ stack'[i] = stack[i] BY <1>4, <4>1
      <4>3. stack[i + 1].kind # "replay" /\ stack'[i + 1].kind # "replay"
        <5>1. CASE i = n - 1 BY <1>4, <1>5, <3>10, <5>1
        <5>2. CASE i # n - 1
          <6>1. i + 1 \in 1 .. Len(stack) - 1 BY <1>5, <4>1, <5>2
          <6> QED BY <1>4, <6>1 DEF Sound, Stacked
        <5> QED BY <5>1, <5>2
      <4>4. Ahead(i)' = Ahead(i) BY <4>2, <4>3 DEF Ahead
      <4> QED BY <3>1, <3>3, <3>5, <4>2, <4>4
    <3> QED BY <3>8, <3>9, <3>10
  <2> QED BY <1>4, <1>5, <2>2, <2>3 DEF Sums
<1>7. Sums' BY <1>6 DEF Sums
<1> QED BY <1>4, <1>7 DEF Sound

\* A call leaves what is below it as it is.
LEMMA CallingKeeps ==
    ASSUME Stacked, stack # << >>, Top.kind # "replay", Top.rest # << >>,
           NEW c \in Calls, c.kind # "op", Head(Top.rest) = c.name,
           stack' = Append(stack, c)
    PROVE  \A i \in 1 .. Len(stack) - 1 : Ahead(i)' = Ahead(i)
<1>1. PICK n \in Nat : n = Len(stack) /\ n > 0 BY StackFacts
<1>2. Len(stack') = n + 1 /\ \A i \in 1 .. n : stack'[i] = stack[i] BY <1>1, Calling
<1>3. ASSUME NEW i \in 1 .. n - 1 PROVE Ahead(i)' = Ahead(i)
  <2>1. i \in 1 .. n /\ i + 1 \in 1 .. n /\ i < n /\ i < n + 1 BY <1>1
  <2>2. stack'[i] = stack[i] /\ stack'[i + 1] = stack[i + 1] BY <1>2, <2>1
  <2> QED BY <1>1, <1>2, <2>1, <2>2 DEF Ahead
<1> QED BY <1>1, <1>3

LEMMA HitSound ==
    ASSUME Sound, NEW k \in Keys, Hit(k) PROVE Sound'
<1>1. stack # << >> /\ Top.kind # "replay" /\ Top.rest # << >> /\ Head(Top.rest) = k
  BY DEF Hit
<1>2. PICK e \in Hits(k) :
         stack' = Append(stack, Call("replay", k, Replayed(e.runs), e.marred))
  BY DEF Hit
<1>3. e \in WholeEntries /\ e.key = k
  <2>1. CacheOf[k] \in Caches BY BodyAssumption
  <2>2. kept[CacheOf[k]] \in Seq(WholeEntries) BY <2>1 DEF Sound, KeptRight
  <2>3. Range(kept[CacheOf[k]]) \in SUBSET WholeEntries BY <2>2, RangeOfSeq
  <2> QED BY <2>3 DEF Hits
<1>4. /\ ~e.marred /\ e.marred \in BOOLEAN /\ e.runs \in Seq(Runs)
      /\ Expanded(e.runs) = Work[k]
  BY <1>3 DEF WholeEntries, Entries
<1>5. PICK c : c = Call("replay", k, Replayed(e.runs), e.marred) OBVIOUS
<1>6. c.kind = "replay" /\ c.name = k /\ c.rest = Replayed(e.runs) /\ c.marred = e.marred
  BY <1>5 DEF Call
<1>7. c \in Calls
  <2>1. Replayed(e.runs) \in Seq(Runs) BY <1>4, EmptySeq DEF Replayed
  <2>2. c \in ReplayCalls BY <1>4, <1>5, <2>1 DEF Call, ReplayCalls
  <2> QED BY <2>2 DEF Calls
<1>8. PICK n \in Nat : n = Len(stack) /\ n > 0 /\ Top = stack[n]
  BY <1>1, StackFacts DEF Sound
<1>9. /\ Stacked' /\ Len(stack') = n + 1 /\ stack' # << >> /\ Top' = c
      /\ stack'[n + 1] = c
      /\ \A i \in 1 .. n : stack'[i] = stack[i]
  BY <1>1, <1>2, <1>5, <1>6, <1>7, <1>8, Calling DEF Sound
<1>10. UNCHANGED <<units, spent, refusal, token, installed, recording, armed, kept, result>>
  BY DEF Hit
<1>11. Recorded' BY <1>1, <1>6, <1>8, <1>9, <1>10 DEF Sound, Recorded, Rearm
<1>12. Numbers' /\ KeptRight' /\ (Clean' <=> Clean)
  BY <1>10 DEF Sound, Numbers, Refusals, KeptRight, Clean
<1>13. ASSUME Clean' PROVE Sums'
  <2>0. Clean BY <1>12, <1>13
  <2>1. ASSUME NEW i \in 1 .. n + 1 PROVE ~stack'[i].marred
    <3>1. CASE i = n + 1 BY <1>4, <1>6, <1>9, <3>1
    <3>2. CASE i # n + 1
      <4>1. i \in 1 .. n BY <3>2
      <4> QED BY <1>8, <1>9, <2>0, <4>1 DEF Sound, Sums
    <3> QED BY <3>1, <3>2
  <2>2. ASSUME NEW i \in 1 .. n + 1, stack'[i].kind = "compute"
        PROVE  Expanded(recording'[i - 1]) \o Ahead(i)' = Work[stack'[i].name]
    <3>1. i # n + 1 BY <1>6, <1>9, <2>2
    <3>2. i \in 1 .. n /\ stack'[i] = stack[i] BY <1>9, <3>1
    <3>3. Expanded(recording[i - 1]) \o Ahead(i) = Work[stack[i].name]
      BY <1>8, <2>0, <2>2, <3>2 DEF Sound, Sums
    <3>4. Ahead(i)' = Ahead(i)
      <4>1. CASE i = n
        <5>1. armed /\ Top.rest \in Seq(Items)
          BY <1>8, <2>2, <3>2, <4>1, ComputeFacts DEF Sound
        <5>2. Due(Top.rest) = Work[k] \o Due(Tail(Top.rest))
          <6>1. Units(k) = Work[k] BY DEF Units, UnitsOf
          <6> QED BY <1>1, <5>1, <6>1, DueCons
        <5>3. Ahead(i) = Due(Top.rest) BY <1>8, <4>1 DEF Ahead
        <5>4. Ahead(i)' = Expanded(e.runs) \o Due(Tail(Top.rest))
          <6>1. stack'[i + 1] = c /\ i < Len(stack') /\ stack'[i] = Top
            BY <1>8, <1>9, <3>2, <4>1
          <6>2. c.rest = e.runs BY <1>6, <5>1 DEF Replayed
          <6> QED BY <1>6, <6>1, <6>2 DEF Ahead
        <5> QED BY <1>4, <5>2, <5>3, <5>4
      <4>2. CASE i # n
        <5>1. i \in 1 .. Len(stack) - 1 BY <1>8, <3>2, <4>2
        <5> QED BY <1>1, <1>2, <1>5, <1>6, <1>7, <5>1, CallingKeeps DEF Sound
      <4> QED BY <4>1, <4>2
    <3> QED BY <1>10, <3>2, <3>3, <3>4
  <2> QED BY <1>9, <2>1, <2>2 DEF Sums
<1>14. Sums' BY <1>13 DEF Sums
<1> QED BY <1>9, <1>11, <1>12, <1>14 DEF Sound

LEMMA MissSound ==
    ASSUME Sound, NEW k \in Keys, Miss(k) PROVE Sound'
<1>1. stack # << >> /\ Top.kind # "replay" /\ Top.rest # << >> /\ Head(Top.rest) = k
  BY DEF Miss
<1>2. stack' = Append(stack, Call("compute", k, Body[k], FALSE)) BY DEF Miss
<1>3. PICK c : c = Call("compute", k, Body[k], FALSE) OBVIOUS
<1>4. c.kind = "compute" /\ c.name = k /\ c.rest = Body[k] /\ ~c.marred
  BY <1>3 DEF Call
<1>5. c \in Calls
  <2>1. Body[k] \in Seq(Items) BY BodyTyped
  <2>2. c \in ComputeCalls BY <1>3, <2>1 DEF Call, ComputeCalls
  <2> QED BY <2>2 DEF Calls
<1>6. PICK n \in Nat : n = Len(stack) /\ n > 0 /\ Top = stack[n]
  BY <1>1, StackFacts DEF Sound
<1>7. /\ Stacked' /\ Len(stack') = n + 1 /\ stack' # << >> /\ Top' = c
      /\ stack'[n + 1] = c
      /\ \A i \in 1 .. n : stack'[i] = stack[i]
  BY <1>1, <1>2, <1>3, <1>4, <1>5, <1>6, Calling DEF Sound
<1>8. UNCHANGED <<units, spent, refusal, token, installed, kept, result>> BY DEF Miss
<1>9. recording \in Seq(Seq(Runs)) /\ Len(recording) = n - 1
  BY <1>1, <1>6 DEF Sound, Recorded
<1>10. /\ recording' \in Seq(Seq(Runs)) /\ Len(recording') = n
       /\ recording'[n] = << >>
       /\ \A i \in 1 .. n - 1 : recording'[i] = recording[i]
  <2>1. PICK X : X = Seq(Runs) OBVIOUS
  <2>2. PICK z \in X : z = << >> BY <2>1, EmptySeq
  <2>3. recording' = Append(recording, z) BY <2>2 DEF Miss
  <2>4. recording \in Seq(X) BY <1>9, <2>1
  <2>5. recording' \in Seq(X) /\ Len(recording') = n BY <1>6, <1>9, <2>3, <2>4
  <2>6. recording'[n] = z BY <1>6, <1>9, <2>3, <2>4
  <2>7. \A i \in 1 .. n - 1 : recording'[i] = recording[i] BY <1>6, <1>9, <2>3, <2>4
  <2> QED BY <2>1, <2>2, <2>5, <2>6, <2>7
<1>11. Recorded'
  <2>1. armed' = Rearm(installed', recording') BY <1>8 DEF Miss
  <2> QED BY <1>4, <1>6, <1>7, <1>10, <2>1 DEF Recorded
<1>12. Numbers' /\ KeptRight' /\ (Clean' <=> Clean)
  BY <1>8 DEF Sound, Numbers, Refusals, KeptRight, Clean
<1>13. ASSUME Clean' PROVE Sums'
  <2>0. Clean BY <1>12, <1>13
  <2>1. ASSUME NEW i \in 1 .. n + 1 PROVE ~stack'[i].marred
    <3>1. CASE i = n + 1 BY <1>4, <1>7, <3>1
    <3>2. CASE i # n + 1
      <4>1. i \in 1 .. n BY <3>2
      <4> QED BY <1>6, <1>7, <2>0, <4>1 DEF Sound, Sums
    <3> QED BY <3>1, <3>2
  <2>2. ASSUME NEW i \in 1 .. n + 1, stack'[i].kind = "compute"
        PROVE  Expanded(recording'[i - 1]) \o Ahead(i)' = Work[stack'[i].name]
    <3>1. CASE i = n + 1
      <4>1. i - 1 = n BY <3>1
      <4>2. stack'[i].name = k /\ Ahead(i)' = Due(Body[k])
        <5>1. stack'[i] = c /\ ~(i < Len(stack')) BY <1>7, <3>1
        <5> QED BY <1>4, <5>1 DEF Ahead
      <4>3. Work[k] \in Seq(Stages) /\ Due(Body[k]) = Work[k] BY WorkDue
      <4>4. << >> \o Work[k] = Work[k] BY <4>3, UnitsConcat
      <4> QED BY <1>10, <4>1, <4>2, <4>3, <4>4, ExpandedEmpty
    <3>2. CASE i # n + 1
      <4>1. i \in 1 .. n /\ stack'[i] = stack[i] BY <1>7, <3>2
      <4>2. Expanded(recording[i - 1]) \o Ahead(i) = Work[stack[i].name]
        BY <1>6, <2>0, <2>2, <4>1 DEF Sound, Sums
      <4>3. i - 1 \in 1 .. n - 1
        BY <1>6, <1>9, <2>2, <4>1, ComputeFacts DEF Sound
      <4>4. recording'[i - 1] = recording[i - 1] BY <1>10, <4>3
      <4>5. Ahead(i)' = Ahead(i)
        <5>1. CASE i = n
          <6>1. Ahead(i) = Due(stack[i].rest) BY <1>6, <5>1 DEF Ahead
          <6>2. stack'[i + 1].kind # "replay" BY <1>4, <1>7, <5>1
          <6> QED BY <4>1, <6>1, <6>2 DEF Ahead
        <5>2. CASE i # n
          <6>1. i \in 1 .. Len(stack) - 1 BY <1>6, <4>1, <5>2
          <6> QED BY <1>1, <1>2, <1>3, <1>4, <1>5, <6>1, CallingKeeps DEF Sound
        <5> QED BY <5>1, <5>2
      <4> QED BY <4>1, <4>2, <4>4, <4>5
    <3> QED BY <3>1, <3>2
  <2> QED BY <1>7, <2>1, <2>2 DEF Sums
<1>14. Sums' BY <1>13 DEF Sums
<1> QED BY <1>7, <1>11, <1>12, <1>14 DEF Sound

\* What the innermost call leaves when it returns.
LEMMA PopFacts ==
    ASSUME Sound, stack # << >>, Top.kind # "op", Pop,
           NEW n \in Nat, n + 1 = Len(stack)
    PROVE  /\ Stacked' /\ Len(stack') = n /\ n > 0 /\ stack' # << >> /\ Top' = stack'[n]
           /\ Top'.kind # "replay" /\ Top = stack[n + 1]
           /\ stack[n].rest # << >> /\ Head(stack[n].rest) = Top.name
           /\ \A i \in 1 .. n - 1 : stack'[i] = stack[i] /\ Ahead(i)' = Ahead(i)
           /\ \A i \in 1 .. n : stack'[i].kind = stack[i].kind /\ stack'[i].name = stack[i].name
           /\ Clean => /\ \A i \in 1 .. n : ~stack'[i].marred
                       /\ ~Top.marred
                       /\ Ahead(n)' = Due(Tail(stack[n].rest))
<1>1. Top = stack[n + 1] /\ Top \in Calls /\ Len(stack) - 1 = n
  BY StackFacts DEF Sound
<1>2. /\ n \in 1 .. Len(stack) /\ stack[n].kind # "replay" /\ stack[n].rest # << >>
      /\ Head(stack[n].rest) = Top.name /\ GoesOn(n, Top.marred)
  BY <1>1, Popped DEF Sound
<1>3. Top.marred \in BOOLEAN BY <1>1, CallFacts
<1>4. /\ Stacked' /\ Len(stack') = n /\ stack' # << >> /\ Top' = stack'[n]
      /\ \A i \in 1 .. n - 1 : stack'[i] = stack[i]
      /\ stack'[n].kind = stack[n].kind /\ stack'[n].name = stack[n].name
      /\ stack'[n].marred = (stack[n].marred \/ Top.marred)
      /\ \/ stack'[n].rest = Tail(stack[n].rest)
         \/ (stack[n].marred \/ Top.marred) /\ stack'[n].rest = << >>
  BY <1>2, <1>3, GoesOnFacts DEF Sound
<1>5. \A i \in 1 .. n : stack'[i].kind = stack[i].kind /\ stack'[i].name = stack[i].name
  <2> SUFFICES ASSUME NEW i \in 1 .. n
               PROVE  stack'[i].kind = stack[i].kind /\ stack'[i].name = stack[i].name
    OBVIOUS
  <2>1. CASE i = n BY <1>4, <2>1
  <2>2. CASE i # n
    <3>1. i \in 1 .. n - 1 BY <2>2
    <3> QED BY <1>4, <3>1
  <2> QED BY <2>1, <2>2
<1>6. ASSUME NEW i \in 1 .. n - 1 PROVE Ahead(i)' = Ahead(i)
  <2>1. i + 1 \in 1 .. n /\ i < n /\ i < n + 1 OBVIOUS
  <2>2. stack'[i + 1].kind = stack[i + 1].kind BY <1>5, <2>1
  <2>3. stack[i + 1].kind # "replay"
    <3>1. CASE i + 1 = n BY <1>2, <3>1
    <3>2. CASE i + 1 # n
      <4>1. i + 1 \in 1 .. Len(stack) - 1 BY <1>1, <3>2
      <4> QED BY <4>1 DEF Sound, Stacked
    <3> QED BY <3>1, <3>2
  <2>4. stack'[i] = stack[i] BY <1>4
  <2> QED BY <2>2, <2>3, <2>4 DEF Ahead
<1>7. ASSUME Clean
      PROVE  /\ \A i \in 1 .. n : ~stack'[i].marred
             /\ ~Top.marred
             /\ Ahead(n)' = Due(Tail(stack[n].rest))
  <2>1. \A i \in 1 .. n + 1 : ~stack[i].marred BY <1>7 DEF Sound, Sums
  <2>2. ~Top.marred /\ ~stack[n].marred BY <1>1, <1>2, <2>1
  <2>3. stack'[n].rest = Tail(stack[n].rest) /\ ~stack'[n].marred BY <1>4, <2>2
  <2>4. Ahead(n)' = Due(Tail(stack[n].rest)) BY <1>4, <2>3 DEF Ahead
  <2>5. \A i \in 1 .. n : ~stack'[i].marred
    <3> SUFFICES ASSUME NEW i \in 1 .. n PROVE ~stack'[i].marred OBVIOUS
    <3>1. CASE i = n BY <2>3, <3>1
    <3>2. CASE i # n
      <4>1. i \in 1 .. n - 1 BY <3>2
      <4> QED BY <1>4, <2>1, <4>1
    <3> QED BY <3>1, <3>2
  <2> QED BY <2>2, <2>4, <2>5
<1> QED BY <1>1, <1>2, <1>4, <1>5, <1>6, <1>7

LEMMA EndReplaySound ==
    ASSUME Sound, EndReplay PROVE Sound'
<1>1. stack # << >> /\ Top.kind = "replay" /\ Top.rest = << >> /\ Pop BY DEF EndReplay
<1>2. PICK n \in Nat : n + 1 = Len(stack)
  <2>1. Len(stack) \in Nat /\ Len(stack) > 0 BY <1>1, StackFacts DEF Sound
  <2>2. Len(stack) - 1 \in Nat /\ (Len(stack) - 1) + 1 = Len(stack) BY <2>1
  <2> QED BY <2>2
<1>3. /\ Stacked' /\ Len(stack') = n /\ n > 0 /\ stack' # << >> /\ Top' = stack'[n]
      /\ Top'.kind # "replay" /\ Top = stack[n + 1]
      /\ stack[n].rest # << >> /\ Head(stack[n].rest) = Top.name
      /\ \A i \in 1 .. n - 1 : stack'[i] = stack[i] /\ Ahead(i)' = Ahead(i)
      /\ \A i \in 1 .. n : stack'[i].kind = stack[i].kind /\ stack'[i].name = stack[i].name
      /\ Clean => /\ \A i \in 1 .. n : ~stack'[i].marred
                  /\ ~Top.marred
                  /\ Ahead(n)' = Due(Tail(stack[n].rest))
  BY <1>1, <1>2, PopFacts
<1>4. UNCHANGED <<units, spent, refusal, token, installed, recording, armed, kept, result>>
  BY DEF EndReplay
<1>5. Numbers' /\ KeptRight' /\ (Clean' <=> Clean)
  BY <1>4 DEF Sound, Numbers, Refusals, KeptRight, Clean
<1>6. Recorded'
  <2>1. recording \in Seq(Seq(Runs)) /\ Len(recording) = n - 1
        /\ armed = Rearm(installed, recording)
    BY <1>1, <1>2 DEF Sound, Recorded
  <2> QED BY <1>3, <1>4, <2>1 DEF Recorded, Rearm
<1>7. ASSUME Clean' PROVE Sums'
  <2>0. Clean BY <1>5, <1>7
  <2>1. ASSUME NEW i \in 1 .. n, stack'[i].kind = "compute"
        PROVE  Expanded(recording'[i - 1]) \o Ahead(i)' = Work[stack'[i].name]
    <3>1. stack[i].kind = "compute" /\ stack'[i].name = stack[i].name
          /\ i \in 1 .. Len(stack)
      BY <1>2, <1>3, <2>1
    <3>2. Expanded(recording[i - 1]) \o Ahead(i) = Work[stack[i].name]
      BY <2>0, <3>1 DEF Sound, Sums
    <3>3. Ahead(i)' = Ahead(i)
      <4>1. CASE i = n
        <5>1. stack[n].rest \in Seq(Items) BY <3>1, <4>1, ComputeFacts DEF Sound
        <5>2. PICK d \in Seq(Stages) : d = Due(Tail(stack[n].rest))
          BY <1>3, <5>1, HeadTailProperties, DueTyped
        <5>3. Ahead(n) = Expanded(<< >>) \o d
          <6>1. n < Len(stack) BY <1>2
          <6> QED BY <1>1, <1>3, <5>2, <6>1 DEF Ahead
        <5>4. Ahead(n) = d BY <5>2, <5>3, ExpandedEmpty, UnitsConcat
        <5> QED BY <1>3, <2>0, <4>1, <5>2, <5>4
      <4>2. CASE i # n
        <5>1. i \in 1 .. n - 1 BY <4>2
        <5> QED BY <1>3, <5>1
      <4> QED BY <4>1, <4>2
    <3> QED BY <1>4, <3>1, <3>2, <3>3
  <2> QED BY <1>3, <2>0, <2>1 DEF Sums
<1>8. Sums' BY <1>7 DEF Sums
<1> QED BY <1>3, <1>5, <1>6, <1>8 DEF Sound

LEMMA EndComputeSound ==
    ASSUME Sound, EndCompute PROVE Sound'
<1>1. stack # << >> /\ Top.kind = "compute" /\ Top.rest = << >> /\ Pop BY DEF EndCompute
<1>2. PICK n \in Nat : n + 1 = Len(stack)
  <2>1. Len(stack) \in Nat /\ Len(stack) > 0 BY <1>1, StackFacts DEF Sound
  <2>2. Len(stack) - 1 \in Nat /\ (Len(stack) - 1) + 1 = Len(stack) BY <2>1
  <2> QED BY <2>2
<1>3. /\ Stacked' /\ Len(stack') = n /\ n > 0 /\ stack' # << >> /\ Top' = stack'[n]
      /\ Top'.kind # "replay" /\ Top = stack[n + 1]
      /\ stack[n].rest # << >> /\ Head(stack[n].rest) = Top.name
      /\ \A i \in 1 .. n - 1 : stack'[i] = stack[i] /\ Ahead(i)' = Ahead(i)
      /\ \A i \in 1 .. n : stack'[i].kind = stack[i].kind /\ stack'[i].name = stack[i].name
      /\ Clean => /\ \A i \in 1 .. n : ~stack'[i].marred
                  /\ ~Top.marred
                  /\ Ahead(n)' = Due(Tail(stack[n].rest))
  BY <1>1, <1>2, PopFacts
<1>4. UNCHANGED <<units, spent, refusal, token, installed, result>> BY DEF EndCompute
<1>5. Numbers' /\ (Clean' <=> Clean) BY <1>4 DEF Sound, Numbers, Refusals, Clean
<1>6. PICK m \in Nat : m + 1 = n
  <2>1. n - 1 \in Nat /\ (n - 1) + 1 = n BY <1>3
  <2> QED BY <2>1
<1>7. recording \in Seq(Seq(Runs)) /\ Len(recording) = m + 1
  BY <1>1, <1>2, <1>6 DEF Sound, Recorded
<1>8. /\ recording' \in Seq(Seq(Runs)) /\ Len(recording') = m
      /\ \A i \in 1 .. m - 1 : recording'[i] = recording[i]
      /\ m > 0 => recording'[m] = Extended(recording[m], recording[m + 1])
  <2>1. recording' = Enclosed BY DEF EndCompute
  <2> QED BY <1>7, <2>1, EnclosedFacts
<1>9. Recorded'
  <2>1. armed' = Rearm(installed', recording') BY <1>4 DEF EndCompute
  <2>2. Len(recording') = Len(stack') - 1 BY <1>3, <1>6, <1>8
  <2> QED BY <1>3, <1>8, <2>1, <2>2 DEF Recorded
<1>10. recording[n] \in Seq(Runs) /\ Top.name \in Keys
  <2>1. n + 1 \in 1 .. Len(stack) /\ stack[n + 1].kind = "compute" BY <1>1, <1>2, <1>3
  <2>2. (n + 1) - 1 = n OBVIOUS
  <2> QED BY <1>3, <2>1, <2>2, ComputeFacts DEF Sound
<1>11. PICK u \in Seq(Stages) : u = Expanded(recording[n]) BY <1>10, ExpandedTyped
<1>12. ASSUME Clean PROVE u = Work[Top.name]
  <2>1. n + 1 \in 1 .. Len(stack) /\ stack[n + 1].kind = "compute" /\ (n + 1) - 1 = n
    BY <1>1, <1>2, <1>3
  <2>2. Expanded(recording[n]) \o Ahead(n + 1) = Work[Top.name]
    BY <1>3, <1>12, <2>1 DEF Sound, Sums
  <2>3. Ahead(n + 1) = << >>
    <3>1. ~(n + 1 < Len(stack)) BY <1>2
    <3> QED BY <1>1, <1>3, <3>1, DueEmpty DEF Ahead
  <2> QED BY <1>11, <2>2, <2>3, UnitsConcat
<1>13. KeptRight'
  <2>1. CASE Clean
    <3>1. PICK c \in Caches : c = CacheOf[Top.name] BY <1>10, BodyAssumption
    <3>2. PICK e : e = Entry(Top.name, Top.marred, Last(recording)) OBVIOUS
    <3>3. Last(recording) = recording[n] BY <1>6, <1>7 DEF Last
    <3>4. e \in WholeEntries
      <4>1. ~Top.marred /\ Top.marred \in BOOLEAN
        <5>1. Top \in Calls BY <1>1, StackFacts DEF Sound
        <5> QED BY <1>3, <2>1, <5>1, CallFacts
      <4>2. e \in Entries /\ e.key = Top.name /\ e.runs = recording[n] /\ ~e.marred
        BY <1>10, <3>2, <3>3, <4>1 DEF Entry, Entries
      <4> QED BY <1>11, <1>12, <2>1, <4>2 DEF WholeEntries
    <3>5. kept' = [kept EXCEPT ![c] = Stored(c, e)] BY <2>1, <3>1, <3>2 DEF EndCompute
    <3>6. Stored(c, e) \in Seq(WholeEntries) BY <3>4, StoredFacts DEF Sound
    <3>7. kept \in [Caches -> Seq(WholeEntries)] BY DEF Sound, KeptRight
    <3> QED BY <3>5, <3>6, <3>7 DEF KeptRight
  <2>2. CASE ~Clean
    <3>1. kept' = kept BY <2>2 DEF EndCompute
    <3> QED BY <3>1 DEF Sound, KeptRight
  <2> QED BY <2>1, <2>2
<1>14. ASSUME Clean' PROVE Sums'
  <2>0. Clean BY <1>5, <1>14
  <2>1. ASSUME NEW i \in 1 .. n, stack'[i].kind = "compute"
        PROVE  Expanded(recording'[i - 1]) \o Ahead(i)' = Work[stack'[i].name]
    <3>1. stack[i].kind = "compute" /\ stack'[i].name = stack[i].name
          /\ i \in 1 .. Len(stack)
      BY <1>2, <1>3, <2>1
    <3>2. Expanded(recording[i - 1]) \o Ahead(i) = Work[stack[i].name]
      BY <2>0, <3>1 DEF Sound, Sums
    <3>3. /\ i - 1 \in 1 .. Len(recording) /\ recording[i - 1] \in Seq(Runs)
          /\ stack[i].rest \in Seq(Items)
      BY <3>1, ComputeFacts DEF Sound
    <3>4. CASE i = n
      <4>1. i - 1 = m /\ m > 0 /\ m + 1 = n BY <1>6, <3>3, <3>4
      <4>2. PICK a \in Seq(Stages) : a = Expanded(recording[m])
        BY <3>3, <4>1, ExpandedTyped
      <4>3. Expanded(recording'[m]) = a \o u
        <5>1. recording[m] \in Seq(Runs) BY <3>3, <4>1
        <5> QED BY <1>8, <1>10, <1>11, <4>1, <4>2, <5>1, ExtendedAdds
      <4>4. PICK d \in Seq(Stages) : d = Due(Tail(stack[n].rest))
        BY <1>3, <3>3, <3>4, HeadTailProperties, DueTyped
      <4>5. Ahead(n) = u \o d
        <5>1. Ahead(n) = Due(stack[n].rest) BY <1>1, <1>3 DEF Ahead
        <5>2. Due(stack[n].rest) = Units(Top.name) \o d
          BY <1>3, <3>3, <3>4, <4>4, DueCons
        <5>3. Units(Top.name) = Work[Top.name] BY <1>10 DEF Units, UnitsOf
        <5> QED BY <1>12, <2>0, <5>1, <5>2, <5>3
      <4>6. (a \o u) \o d = a \o (u \o d) BY UnitsAssociate
      <4>7. Ahead(n)' = d BY <1>3, <2>0, <4>4
      <4> QED BY <3>1, <3>2, <3>4, <4>1, <4>2, <4>3, <4>5, <4>6, <4>7
    <3>5. CASE i # n
      <4>1. i \in 1 .. n - 1 /\ i - 1 \in 1 .. m - 1 BY <1>6, <3>3, <3>5
      <4>2. recording'[i - 1] = recording[i - 1] BY <1>8, <4>1
      <4>3. Ahead(i)' = Ahead(i) BY <1>3, <4>1
      <4> QED BY <3>1, <3>2, <4>2, <4>3
    <3> QED BY <3>4, <3>5
  <2> QED BY <1>3, <2>0, <2>1 DEF Sums
<1>15. Sums' BY <1>14 DEF Sums
<1> QED BY <1>3, <1>5, <1>9, <1>13, <1>15 DEF Sound

LEMMA InitSound == Init => Sound
<1> SUFFICES ASSUME Init PROVE Sound OBVIOUS
<1>1. stack = << >> /\ Len(stack) = 0 BY DEF Init
<1>2. Stacked BY <1>1, EmptySeq DEF Stacked
<1>3. Recorded BY <1>1, EmptySeq DEF Init, Recorded, Rearm
<1>4. Numbers
  <2>1. units \in Limits /\ units \in Nat BY BodyAssumption DEF Init
  <2>2. spent = 0 /\ refusal = NotYet /\ ~token /\ ~installed /\ result = "none" BY DEF Init
  <2>3. spent \in 0 .. units + 1 /\ spent <= units BY <2>1, <2>2
  <2>4. token \in BOOLEAN /\ installed \in BOOLEAN BY DEF Init
  <2> QED BY <2>1, <2>2, <2>3, <2>4 DEF Numbers
<1>5. KeptRight
  <2>1. << >> \in Seq(WholeEntries) BY EmptySeq
  <2> QED BY <2>1 DEF Init, KeptRight
<1>6. Sums BY <1>1 DEF Sums
<1> QED BY <1>2, <1>3, <1>4, <1>5, <1>6 DEF Sound

\* Between operations nothing is recorded nor owed.
LEMMA IdleSound ==
    ASSUME Sound, stack = << >>, UNCHANGED <<installed, recording, armed, stack, kept>>,
           Numbers'
    PROVE  Sound'
<1>1. Stacked' BY DEF Sound, Stacked
<1>2. Recorded' BY DEF Sound, Recorded, Rearm
<1>3. KeptRight' BY DEF Sound, KeptRight
<1>4. stack' = << >> /\ Len(stack') = 0 OBVIOUS
<1>5. Sums' BY <1>4 DEF Sums
<1> QED BY <1>1, <1>2, <1>3, <1>5 DEF Sound

LEMMA CancelSound ==
    ASSUME Sound, Cancel PROVE Sound'
<1>1. UNCHANGED <<units, spent, refusal, installed, recording, armed, stack, kept, result>>
      /\ token' = TRUE
  BY DEF Cancel
<1>2. Numbers' BY <1>1 DEF Sound, Numbers, Refusals
<1>3. Stacked' BY <1>1 DEF Sound, Stacked
<1>4. Recorded' BY <1>1 DEF Sound, Recorded, Rearm, Top
<1>5. KeptRight' BY <1>1 DEF Sound, KeptRight
<1>6. Sums' BY <1>1 DEF Sound, Sums, Clean, Ahead
<1> QED BY <1>2, <1>3, <1>4, <1>5, <1>6 DEF Sound

LEMMA NewBudgetSound ==
    ASSUME Sound, NewBudget PROVE Sound'
<1>1. units' \in Nat /\ units' \in Limits BY BodyAssumption DEF NewBudget
<1>2. /\ spent' = 0 /\ refusal' = NotYet /\ token' = FALSE
      /\ UNCHANGED <<installed, recording, armed, stack, kept, result>>
      /\ stack = << >>
  BY DEF NewBudget
<1>3. Numbers'
  <2>0. spent' = 0 BY <1>2
  <2>1. spent' \in 0 .. units' + 1 /\ spent' <= units'
    <3>1. PICK u \in Nat : u = units' BY <1>1
    <3>2. 0 \in 0 .. u + 1 /\ 0 <= u OBVIOUS
    <3> QED BY <2>0, <3>1, <3>2
  <2>2. token' \in BOOLEAN BY <1>2
  <2>3. installed' \in BOOLEAN /\ result' \in {"none", "value", "marred", "refused"}
    BY <1>2 DEF Sound, Numbers
  <2>4. (refusal = NotYet)' BY <1>2 DEF NotYet
  <2> QED BY <1>1, <2>1, <2>2, <2>3, <2>4, Zenon DEF Numbers
<1> QED BY <1>2, <1>3, IdleSound

LEMMA StartRefusedSound ==
    ASSUME Sound, NEW op \in Ops, StartRefused(op) PROVE Sound'
<1>1. /\ stack = << >>
      /\ refusal' = IF refusal # NotYet THEN refusal
                    ELSE [cause |-> IF token THEN "Cancelled" ELSE "WallTime",
                          stage |-> Start, work |-> spent]
      /\ result' = "refused"
      /\ UNCHANGED <<units, spent, token, installed, recording, armed, stack, kept>>
  BY DEF StartRefused
<1>2. refusal' \in Refusals /\ refusal' # NotYet
  <2>1. CASE refusal # NotYet BY <1>1, <2>1 DEF Sound, Numbers
  <2>2. CASE refusal = NotYet
    <3>1. refusal' \in Refusals /\ refusal'.cause \in Outside
      BY <1>1, <2>2 DEF Sound, Numbers, Refusals, Outside
    <3> QED BY <3>1 DEF NotYet, Outside
  <2> QED BY <2>1, <2>2
<1>3. (refusal \in Refusals)' BY <1>1, <1>2 DEF Refusals
<1>4. Numbers' BY <1>1, <1>2, <1>3 DEF Sound, Numbers
<1> QED BY <1>1, <1>4, IdleSound

LEMMA BeginSound ==
    ASSUME Sound, NEW op \in Ops, NEW b \in BOOLEAN, Begin(op, b) PROVE Sound'
<1>1. /\ stack = << >> /\ (b => refusal = NotYet)
      /\ stack' = <<Call("op", op, Body[op], FALSE)>>
      /\ installed' = b /\ armed' = Rearm(b, recording)
      /\ UNCHANGED <<units, spent, refusal, token, recording, kept, result>>
  BY DEF Begin
<1>2. PICK c : c = Call("op", op, Body[op], FALSE) OBVIOUS
<1>3. c.kind = "op" /\ c.name = op /\ ~c.marred /\ c \in Calls
  <2>1. Body[op] \in Seq(Items) BY BodyTyped
  <2>2. c \in OpCalls BY <1>2, <2>1 DEF Call, OpCalls
  <2>3. c \in Calls BY <2>2 DEF Calls
  <2> QED BY <1>2, <2>3 DEF Call
<1>4. /\ stack' \in Seq(Calls) /\ Len(stack') = 1 /\ stack'[1] = c /\ stack' # << >>
  <2>1. stack' = <<c>> BY <1>1, <1>2
  <2>2. <<c>> \in Seq(Calls) /\ Len(<<c>>) = 1 BY <1>3
  <2>3. <<c>>[1] = c /\ <<c>> # << >> OBVIOUS
  <2> QED BY <2>1, <2>2, <2>3
<1>5. Top' = c BY <1>4 DEF Top, Last
<1>6. Stacked' BY <1>3, <1>4 DEF Stacked
<1>7. recording = << >> BY <1>1 DEF Sound, Recorded
<1>8. Recorded'
  <2>1. recording' = << >> /\ Len(recording') = 0 /\ recording' \in Seq(Seq(Runs))
    BY <1>1, <1>7, EmptySeq
  <2>2. armed' = Rearm(installed', recording') BY <1>1 DEF Rearm
  <2> QED BY <1>3, <1>4, <1>5, <2>1, <2>2 DEF Recorded
<1>9. Numbers' BY <1>1 DEF Sound, Numbers, Refusals
<1>10. KeptRight' BY <1>1 DEF Sound, KeptRight
<1>11. Sums' BY <1>3, <1>4 DEF Sums
<1> QED BY <1>6, <1>8, <1>9, <1>10, <1>11 DEF Sound

LEMMA EndOpSound ==
    ASSUME Sound, EndOp PROVE Sound'
<1>1. /\ stack # << >> /\ Top.kind = "op"
      /\ stack' = << >> /\ installed' = FALSE /\ armed' = Rearm(FALSE, recording)
      /\ UNCHANGED <<units, spent, refusal, token, recording, kept>>
  BY DEF EndOp
<1>2. Len(stack) = 1
  <2>1. Top = stack[Len(stack)] /\ Len(stack) \in Nat /\ Len(stack) > 0
    BY <1>1, StackFacts DEF Sound
  <2>2. Len(stack) \in 1 .. Len(stack) BY <2>1
  <2> QED BY <1>1, <2>1, <2>2 DEF Sound, Stacked
<1>3. recording = << >>
  <2>1. Len(recording) = 0 /\ recording \in Seq(Seq(Runs)) BY <1>1, <1>2 DEF Sound, Recorded
  <2> QED BY <2>1, EmptySeq
<1>4. stack' = << >> /\ Len(stack') = 0 /\ stack' \in Seq(Calls) BY <1>1, EmptySeq
<1>5. Stacked' BY <1>4 DEF Stacked
<1>6. Recorded' BY <1>1, <1>3, EmptySeq DEF Recorded, Rearm
<1>7. Numbers'
  <2>1. result' \in {"none", "value", "marred", "refused"} BY DEF EndOp
  <2> QED BY <1>1, <2>1 DEF Sound, Numbers, Refusals
<1>8. KeptRight' BY <1>1 DEF Sound, KeptRight
<1>9. Sums' BY <1>4 DEF Sums
<1> QED BY <1>5, <1>6, <1>7, <1>8, <1>9 DEF Sound

LEMMA NextSound ==
    ASSUME Sound, [Next]_vars PROVE Sound'
<1>1. CASE UNCHANGED vars
  <2>1. UNCHANGED <<units, spent, refusal, token, installed, recording, armed, stack,
                    kept, result>>
    BY <1>1 DEF vars
  <2>2. Numbers' BY <2>1 DEF Sound, Numbers, Refusals
  <2>3. Stacked' BY <2>1 DEF Sound, Stacked
  <2>4. Recorded' BY <2>1 DEF Sound, Recorded, Rearm, Top
  <2>5. KeptRight' BY <2>1 DEF Sound, KeptRight
  <2>6. Sums' BY <2>1 DEF Sound, Sums, Clean, Ahead
  <2> QED BY <2>2, <2>3, <2>4, <2>5, <2>6 DEF Sound
<1>2. CASE Cancel BY <1>2, CancelSound
<1>3. CASE NewBudget BY <1>3, NewBudgetSound
<1>4. ASSUME NEW op \in Ops, StartRefused(op) PROVE Sound' BY <1>4, StartRefusedSound
<1>5. ASSUME NEW op \in Ops, NEW b \in BOOLEAN, Begin(op, b) PROVE Sound'
  BY <1>5, BeginSound
<1>6. CASE Unit BY <1>6, UnitSound
<1>7. CASE EndReplay BY <1>7, EndReplaySound
<1>8. CASE EndCompute BY <1>8, EndComputeSound
<1>9. CASE EndOp BY <1>9, EndOpSound
<1>10. ASSUME NEW k \in Keys, Hit(k) PROVE Sound' BY <1>10, HitSound
<1>11. ASSUME NEW k \in Keys, Miss(k) PROVE Sound' BY <1>11, MissSound
<1> QED
  BY <1>1, <1>2, <1>3, <1>4, <1>5, <1>6, <1>7, <1>8, <1>9, <1>10, <1>11 DEF Next

\* The sound states are those of KeptWhole, typed as it says.
LEMMA SoundKept == Sound => KeptWhole
<1> SUFFICES ASSUME Sound PROVE KeptWhole OBVIOUS
<1>1. ASSUME NEW c \in Caches, NEW e \in Range(kept[c])
      PROVE  e.key \in Keys /\ e.runs \in Seq(Runs) /\ ~e.marred
             /\ Expanded(e.runs) = Work[e.key]
  <2>1. kept[c] \in Seq(WholeEntries) BY DEF Sound, KeptRight
  <2>2. e \in WholeEntries BY <2>1, RangeOfSeq
  <2> QED BY <2>2 DEF WholeEntries, Entries
<1>2. ASSUME NEW i \in DOMAIN stack
      PROVE  /\ stack[i].kind \in {"op", "compute", "replay"}
             /\ stack[i].kind = "op" <=> i = 1
             /\ stack[i].marred \in BOOLEAN
  <2>1. i \in 1 .. Len(stack)
    <3>1. stack \in Seq(Calls) BY DEF Sound, Stacked
    <3> QED BY <3>1
  <2>2. stack[i] \in Calls BY <2>1, StackFacts DEF Sound
  <2> QED BY <2>1, <2>2, CallFacts DEF Sound, Stacked
<1>3. refusal = NotYet \/ refusal.work \in 0 .. units + 1
  BY DEF Sound, Numbers, Refusals
<1>4. {token, installed, armed} \subseteq BOOLEAN
  <2>1. armed \in BOOLEAN BY DEF Sound, Recorded, Rearm
  <2> QED BY <2>1 DEF Sound, Numbers
<1>5. recording \in Seq(Seq(Runs)) BY DEF Sound, Recorded
<1>6. TypeOK
  BY <1>1, <1>2, <1>3, <1>4, <1>5 DEF TypeOK, Sound, Numbers
<1> QED BY <1>1, <1>6 DEF KeptWhole

\* Whatever nests, replays, is refused or evicted, an entry of a cache is what
\* its computation gives undisturbed, with the record of all its units.
THEOREM EntriesWhole == Spec => []KeptWhole
<1>1. Init => Sound BY InitSound
<1>2. Sound /\ [Next]_vars => Sound' BY NextSound
<1>3. Sound => KeptWhole BY SoundKept
<1> QED BY <1>1, <1>2, <1>3, PTL DEF Spec

-----------------------------------------------------------------------------
(* What the operation in progress has counted: the units of what it has done, *)
(* and those of what the calls on the stack have left are what is owed.       *)

Owed == Work[stack[1].name]

Todo == IF Top.kind = "replay" THEN Expanded(Top.rest) ELSE Due(Top.rest)

\* What each call leaves to those below it when it returns.
Under(after) ==
    /\ after \in [1 .. Len(stack) -> Seq(Stages)]
    /\ after[1] = << >>
    /\ \A i \in 1 .. Len(stack) - 1 :
          after[i + 1] = Due(Tail(stack[i].rest)) \o after[i]

Progressing(done, after) ==
    /\ Under(after)
    /\ Owed = done \o (Todo \o after[Len(stack)])
    /\ spent = before.spent + Len(done)
Going == \E after : \E done \in Seq(Stages) : Progressing(done, after)

RanOut ==
    /\ before.spent + Len(Owed) > units
    /\ spent = units + 1
    /\ refusal = [cause |-> "Work", stage |-> Owed[units - before.spent + 1],
                  work |-> units + 1]

Stopped ==
    \E s \in Stages, c \in Outside :
       /\ refusal = [cause |-> c, stage |-> s, work |-> spent]
       /\ before.spent <= spent /\ spent <= units
       /\ spent <= before.spent + Len(Owed)

Counting ==
    stack # << >> =>
       /\ installed => /\ before.refusal = NotYet
                       /\ before.spent \in 0 .. units
                       /\ (refusal = NotYet /\ Going) \/ RanOut \/ Stopped
       /\ ~installed => spent = before.spent /\ refusal = before.refusal

LEMMA OwedTyped ==
    ASSUME Stacked, stack # << >>
    PROVE  stack[1].name \in Ops /\ Owed \in Seq(Stages)
<1>1. 1 \in 1 .. Len(stack) BY StackFacts
<1>2. stack[1] \in Calls BY <1>1, StackFacts
<1>3. stack[1].name \in Ops BY <1>1, <1>2, CallFacts DEF Stacked
<1> QED BY <1>3, WorkDue DEF Owed

LEMMA TodoTyped ==
    ASSUME Stacked, stack # << >>
    PROVE  Todo \in Seq(Stages)
<1>1. Top \in Calls
  <2>1. Len(stack) \in 1 .. Len(stack) /\ Top = stack[Len(stack)] BY StackFacts
  <2> QED BY <2>1, StackFacts
<1>2. CASE Top.kind = "replay" BY <1>1, <1>2, CallFacts, ExpandedTyped DEF Todo
<1>3. CASE Top.kind # "replay" BY <1>1, <1>3, CallFacts, DueTyped DEF Todo
<1> QED BY <1>2, <1>3

\* A step that charges nothing counts nothing.
LEMMA StillCounting ==
    ASSUME Counting, stack # << >>, stack' # << >>, stack'[1].name = stack[1].name,
           UNCHANGED <<units, spent, refusal, installed, before>>,
           installed /\ refusal = NotYet /\ Going => Going'
    PROVE  Counting'
<1>1. Owed' = Owed BY DEF Owed
<1>2. RanOut => RanOut' BY <1>1 DEF RanOut
<1>3. Stopped => Stopped' BY <1>1 DEF Stopped
<1>4. (refusal = NotYet) => (refusal = NotYet)' BY DEF NotYet
<1>5. (before.refusal = NotYet) => (before.refusal = NotYet)' BY DEF NotYet
<1>6. CASE installed
  <2>1. before.refusal = NotYet /\ before.spent \in 0 .. units BY <1>6 DEF Counting
  <2>2. (refusal = NotYet /\ Going) \/ RanOut \/ Stopped BY <1>6 DEF Counting
  <2>3. (refusal = NotYet /\ Going)' \/ RanOut' \/ Stopped'
    BY <1>2, <1>3, <1>4, <1>6, <2>2
  <2> QED BY <1>5, <1>6, <2>1, <2>3 DEF Counting
<1>7. CASE ~installed BY <1>7 DEF Counting
<1> QED BY <1>6, <1>7

\* A call that begins has what its caller owed for it to do.
LEMMA CallGoing ==
    ASSUME Stacked, stack # << >>, Top.kind # "replay", Top.rest # << >>,
           NEW c \in Calls, c.kind # "op", Head(Top.rest) = c.name,
           stack' = Append(stack, c), Todo' = Work[c.name],
           UNCHANGED <<spent, before>>, Going
    PROVE  Going'
<1>1. PICK n \in Nat : n = Len(stack) /\ n > 0 /\ Top = stack[n] BY StackFacts
<1>2. /\ Len(stack') = n + 1 /\ stack'[n + 1] = c
      /\ \A i \in 1 .. n : stack'[i] = stack[i]
  BY <1>1, Calling
<1>3. PICK after : \E done \in Seq(Stages) : Progressing(done, after) BY DEF Going
<1>4. PICK done \in Seq(Stages) : Progressing(done, after) BY <1>3
<1>5. /\ after \in [1 .. n -> Seq(Stages)] /\ after[1] = << >>
      /\ \A i \in 1 .. n - 1 : after[i + 1] = Due(Tail(stack[i].rest)) \o after[i]
      /\ Owed = done \o (Todo \o after[n])
      /\ spent = before.spent + Len(done)
  BY <1>4, <1>1 DEF Progressing, Under
<1>6. Top \in Calls BY <1>1, StackFacts
<1>7. Top.rest \in Seq(Items) BY <1>6, CallFacts
<1>8. c.name \in Keys BY CallFacts
<1>9. PICK d \in Seq(Stages) : d = Due(Tail(Top.rest)) BY <1>7, HeadTailProperties, DueTyped
<1>10. PICK w \in Seq(Stages) : w = Work[c.name] BY <1>8, WorkDue
<1>11. Todo = w \o d
  <2>1. Units(c.name) = w BY <1>8, <1>10 DEF Units, UnitsOf
  <2> QED BY <1>7, <1>9, <2>1, DueCons DEF Todo
<1>12. PICK b \in Seq(Stages) : b = after[n] BY <1>1, <1>5
<1>13. d \o b \in Seq(Stages) BY UnitsConcat
<1>14. (w \o d) \o b = w \o (d \o b) BY UnitsAssociate
<1>15. PICK new : new = [i \in 1 .. n + 1 |-> IF i = n + 1 THEN d \o b ELSE after[i]] OBVIOUS
<1>16. new[n + 1] = d \o b /\ \A i \in 1 .. n : new[i] = after[i] BY <1>15
<1>17. new \in [1 .. n + 1 -> Seq(Stages)] BY <1>5, <1>13, <1>15
<1>18. ASSUME NEW i \in 1 .. n
       PROVE  new[i + 1] = Due(Tail(stack'[i].rest)) \o new[i]
  <2>1. stack'[i] = stack[i] /\ new[i] = after[i] BY <1>2, <1>16
  <2>2. CASE i = n BY <1>1, <1>9, <1>12, <1>16, <2>1, <2>2
  <2>3. CASE i # n
    <3>1. i \in 1 .. n - 1 /\ i + 1 \in 1 .. n BY <2>3
    <3> QED BY <1>5, <1>16, <2>1, <3>1
  <2> QED BY <2>2, <2>3
<1>19. new[1] = << >> BY <1>1, <1>5, <1>16
<1>20. Under(new)'
  <2>1. Len(stack') - 1 = n BY <1>2
  <2>2. \A i \in 1 .. Len(stack') - 1 :
           new[i + 1] = Due(Tail(stack'[i].rest)) \o new[i]
    BY <1>18, <2>1
  <2>3. new \in [1 .. Len(stack') -> Seq(Stages)] BY <1>2, <1>17
  <2> QED BY <1>19, <2>2, <2>3 DEF Under
<1>21. Owed' = done \o (w \o (d \o b))
  <2>1. Owed' = Owed BY <1>1, <1>2 DEF Owed
  <2> QED BY <1>5, <1>11, <1>12, <1>14, <2>1
<1>22. Progressing(done, new)'
  BY <1>2, <1>5, <1>10, <1>16, <1>20, <1>21 DEF Progressing
<1> QED BY <1>22 DEF Going

\* A call that returns has nothing left to do.
LEMMA PopGoing ==
    ASSUME Sound, stack # << >>, Top.kind # "op", Top.rest = << >>, Pop, Clean,
           UNCHANGED <<spent, before>>, Going
    PROVE  Going'
<1>1. PICK n \in Nat : n + 1 = Len(stack)
  <2>1. Len(stack) \in Nat /\ Len(stack) > 0 BY StackFacts DEF Sound
  <2>2. Len(stack) - 1 \in Nat /\ (Len(stack) - 1) + 1 = Len(stack) BY <2>1
  <2> QED BY <2>2
<1>2. /\ Len(stack') = n /\ n > 0 /\ stack' # << >> /\ Top' = stack'[n]
      /\ Top'.kind # "replay" /\ stack[n].rest # << >>
      /\ \A i \in 1 .. n - 1 : stack'[i] = stack[i]
      /\ \A i \in 1 .. n : stack'[i].name = stack[i].name
      /\ Ahead(n)' = Due(Tail(stack[n].rest))
  BY <1>1, PopFacts
<1>3. PICK after : \E done \in Seq(Stages) : Progressing(done, after) BY DEF Going
<1>4. PICK done \in Seq(Stages) : Progressing(done, after) BY <1>3
<1>5. /\ after \in [1 .. n + 1 -> Seq(Stages)] /\ after[1] = << >>
      /\ \A i \in 1 .. n : after[i + 1] = Due(Tail(stack[i].rest)) \o after[i]
      /\ Owed = done \o (Todo \o after[n + 1])
      /\ spent = before.spent + Len(done)
  <2>1. Len(stack) - 1 = n BY <1>1
  <2>2. Under(after) BY <1>4 DEF Progressing
  <2>3. after \in [1 .. n + 1 -> Seq(Stages)] /\ after[1] = << >> BY <1>1, <2>2 DEF Under
  <2>4. \A i \in 1 .. n : after[i + 1] = Due(Tail(stack[i].rest)) \o after[i]
    BY <2>1, <2>2 DEF Under
  <2>5. Owed = done \o (Todo \o after[n + 1]) /\ spent = before.spent + Len(done)
    BY <1>4, <1>1 DEF Progressing
  <2> QED BY <2>3, <2>4, <2>5
<1>6. Todo = << >>
  <2>1. Expanded(Top.rest) = << >> BY ExpandedEmpty
  <2>2. Due(Top.rest) = << >> BY DueEmpty
  <2> QED BY <2>1, <2>2 DEF Todo
<1>7. after[n + 1] \in Seq(Stages) /\ after[n + 1] = Due(Tail(stack[n].rest)) \o after[n]
  <2>1. n \in 1 .. n /\ n + 1 \in 1 .. n + 1 BY <1>2
  <2>2. after[n + 1] \in Seq(Stages) BY <1>5, <2>1, Zenon
  <2>3. after[n + 1] = Due(Tail(stack[n].rest)) \o after[n] BY <1>5, <2>1, Zenon
  <2> QED BY <2>2, <2>3
<1>8. Todo \o after[n + 1] = Due(Tail(stack[n].rest)) \o after[n]
  BY <1>6, <1>7, UnitsConcat
<1>9. Todo' = Due(Tail(stack[n].rest))
  <2>1. Ahead(n)' = Due(stack'[n].rest) BY <1>2 DEF Ahead
  <2> QED BY <1>2, <2>1 DEF Todo
<1>10. PICK new : new = [i \in 1 .. n |-> after[i]] OBVIOUS
<1>11. new \in [1 .. n -> Seq(Stages)] /\ \A i \in 1 .. n : new[i] = after[i] BY <1>5, <1>10
<1>12. Under(new)'
  <2>1. ASSUME NEW i \in 1 .. n - 1
        PROVE  new[i + 1] = Due(Tail(stack'[i].rest)) \o new[i]
    <3>1. i \in 1 .. n /\ i + 1 \in 1 .. n OBVIOUS
    <3> QED BY <1>2, <1>5, <1>11, <3>1
  <2>2. new[1] = << >> BY <1>2, <1>5, <1>11
  <2> QED BY <1>2, <1>11, <2>1, <2>2 DEF Under
<1>13. Owed' = done \o (Todo' \o new[n])
  <2>1. Owed' = Owed BY <1>2 DEF Owed
  <2>2. new[n] = after[n] BY <1>2, <1>11
  <2> QED BY <1>5, <1>8, <1>9, <2>1, <2>2
<1>14. Progressing(done, new)' BY <1>2, <1>5, <1>12, <1>13 DEF Progressing
<1> QED BY <1>14 DEF Going

LEMMA PastTheLimit ==
    ASSUME NEW x \in Nat, NEW p \in Nat, NEW q \in Nat, NEW l \in Nat,
           NEW m \in Nat \ {0}, NEW k \in Nat, p <= x, p = q + l, p + m > x
    PROVE  /\ q + (l + m + k) > x
           /\ x - p + 1 \in 1 .. m
           /\ x - q + 1 = l + (x - p + 1)
OBVIOUS

\* A unit charged is a unit counted, or the reason why the budget refuses.
LEMMA UnitCounting ==
    ASSUME Sound, Counting, Unit PROVE Counting'
<1>1. stack # << >> /\ Top.rest # << >> BY DEF Unit
<1>2. PICK run \in Runs, ok \in BOOLEAN : CountsOne(run, ok) BY UnitFacts DEF Sound
<1>3. UNCHANGED <<units, token, installed, armed, kept, result, before>> BY DEF Unit
<1>4. /\ Stacked' /\ Len(stack') = Len(stack)
      /\ \A i \in 1 .. Len(stack) - 1 : stack'[i] = stack[i]
      /\ Top'.kind = Top.kind /\ Top'.name = Top.name /\ Top' = stack'[Len(stack)]
      /\ Clean' => Clean /\ ok /\ ~Top'.marred /\ Top'.rest = Tail(Top.rest)
  BY <1>1, <1>2, <1>3, UnitMars
<1>5. PICK n \in Nat : n = Len(stack) /\ n > 0 /\ Top = stack[n]
  BY <1>1, StackFacts DEF Sound
<1>6. stack' # << >> BY <1>4, <1>5, StackFacts
<1>7. stack'[1].name = stack[1].name
  <2>1. CASE n = 1 BY <1>4, <1>5, <2>1
  <2>2. CASE n # 1
    <3>1. 1 \in 1 .. Len(stack) - 1 BY <1>5, <2>2
    <3> QED BY <1>4, <3>1
  <2> QED BY <2>1, <2>2
<1>8. Owed' = Owed BY <1>7 DEF Owed
<1>9. PICK u \in Seq(Stages) : /\ u = Rep(run) /\ Len(u) = run.units
                               /\ \A j \in 1 .. run.units : u[j] = run.stage
  BY RepTyped DEF Rep
<1>10. PICK t \in Seq(Stages) :
          /\ Todo = u \o t
          /\ Top'.rest = Tail(Top.rest) => Todo' = t
  <2>1. CASE Top.kind = "replay"
    <3>1. Top.rest \in Seq(Runs) /\ Expanded(Top.rest) = u \o Expanded(Tail(Top.rest))
      BY <1>2, <1>9, <2>1 DEF CountsOne
    <3>2. Expanded(Tail(Top.rest)) \in Seq(Stages)
      BY <1>1, <3>1, HeadTailProperties, ExpandedTyped
    <3> QED BY <1>4, <2>1, <3>1, <3>2 DEF Todo
  <2>2. CASE Top.kind # "replay"
    <3>1. Top.rest \in Seq(Items) /\ Due(Top.rest) = u \o Due(Tail(Top.rest))
      BY <1>2, <1>9, <2>2 DEF CountsOne
    <3>2. Due(Tail(Top.rest)) \in Seq(Stages)
      BY <1>1, <3>1, HeadTailProperties, DueTyped
    <3> QED BY <1>4, <2>2, <3>1, <3>2 DEF Todo
  <2> QED BY <2>1, <2>2
<1>11. CASE UNCHANGED <<spent, refusal>> /\ ~(installed /\ refusal = NotYet)
  BY <1>1, <1>3, <1>6, <1>7, <1>11, StillCounting
<1>12. CASE ~installed
  <2>1. UNCHANGED <<spent, refusal>> BY <1>2, <1>12 DEF CountsOne, Charge
  <2> QED BY <1>11, <1>12, <2>1
<1>13. CASE installed
  <2>0. Charge(run, ok)
    <3>1. armed BY <1>13 DEF Sound, Recorded, Rearm
    <3> QED BY <1>2, <3>1 DEF CountsOne
  <2>1. CASE refusal # NotYet
    <3>1. UNCHANGED <<spent, refusal>> BY <1>13, <2>0, <2>1 DEF Charge
    <3> QED BY <1>11, <2>1, <3>1
  <2>2. CASE refusal = NotYet
    <3>0. /\ before.refusal = NotYet /\ before.spent \in 0 .. units
          /\ ~RanOut /\ ~Stopped
      BY <1>1, <1>13, <2>2 DEF Counting, RanOut, Stopped, NotYet
    <3>1. Going BY <1>1, <1>13, <2>2, <3>0 DEF Counting
    <3>2. PICK after : \E done \in Seq(Stages) : Progressing(done, after)
      BY <3>1 DEF Going
    <3>3. PICK done \in Seq(Stages) : Progressing(done, after) BY <3>2
    <3>4. /\ after \in [1 .. n -> Seq(Stages)] /\ after[1] = << >>
          /\ \A i \in 1 .. n - 1 : after[i + 1] = Due(Tail(stack[i].rest)) \o after[i]
          /\ Owed = done \o (Todo \o after[n])
          /\ spent = before.spent + Len(done)
      BY <1>5, <3>3 DEF Progressing, Under
    <3>5. PICK b \in Seq(Stages) : b = after[n] BY <1>5, <3>4
    <3>6. (u \o t) \o b = u \o (t \o b) BY UnitsAssociate
    <3>7. PICK r \in Seq(Stages) : r = t \o b BY UnitsConcat
    <3>8. (done \o u) \o r = done \o (u \o r) BY UnitsAssociate
    <3>9. Owed = done \o (u \o r) BY <1>10, <3>4, <3>5, <3>6, <3>7
    <3>10. PICK w \in Seq(Stages) : w = Owed /\ w = done \o (u \o r)
      BY <1>1, <3>9, OwedTyped DEF Sound
    <3>11. PICK ur \in Seq(Stages) : ur = u \o r BY UnitsConcat
    <3>12. Len(w) = Len(done) + run.units + Len(r)
      BY <1>9, <3>10, <3>11
    <3>13. /\ before.spent \in Nat /\ units \in Nat /\ spent \in Nat /\ spent <= units
           /\ run.units \in Nat \ {0} /\ run.stage \in Stages
           /\ Len(done) \in Nat /\ Len(r) \in Nat
           /\ spent = before.spent + Len(done)
      <4>1. units \in Nat /\ spent \in 0 .. units + 1 /\ spent <= units
        BY <2>2, BodyAssumption DEF Sound, Numbers
      <4>2. spent \in Nat /\ before.spent \in Nat BY <3>0, <4>1
      <4>3. run.units \in Nat \ {0} /\ run.stage \in Stages BY DEF Runs
      <4>4. Len(done) \in Nat /\ Len(r) \in Nat BY LenProperties
      <4>5. spent = before.spent + Len(done) BY <3>4
      <4> QED BY <4>1, <4>2, <4>3, <4>4, <4>5, Zenon
    <3>14. PICK x \in Nat : x = units BY <3>13
    <3>15. PICK p \in Nat : p = spent BY <3>13
    <3>16. PICK q \in Nat : q = before.spent BY <3>13
    <3>17. PICK l \in Nat : l = Len(done) BY <3>13
    <3>18. PICK m \in Nat \ {0} : m = run.units BY <3>13
    <3>19. PICK k \in Nat : k = Len(r) BY <3>13
    <3>20. /\ x = units /\ p = spent /\ q = before.spent /\ l = Len(done)
           /\ m = run.units /\ p <= x /\ p = q + l
      BY <3>13, <3>14, <3>15, <3>16, <3>17, <3>18
    <3>21. CASE /\ refusal' = [cause |-> "Cancelled", stage |-> run.stage, work |-> spent]
                /\ UNCHANGED spent
      <4>1. before.spent <= spent /\ spent <= before.spent + Len(Owed)
        BY <3>10, <3>12, <3>13
      <4>2. Stopped' BY <1>3, <1>8, <3>13, <3>21, <4>1 DEF Stopped, Outside
      <4> QED BY <1>3, <1>13, <3>0, <4>2 DEF Counting, NotYet
    <3>22. CASE /\ spent + run.units > units /\ spent' = units + 1
                /\ refusal' = [cause |-> "Work", stage |-> run.stage, work |-> units + 1]
      <4>1. p + m > x BY <3>22, <3>20
      <4>2. /\ q + (l + m + k) > x
            /\ x - p + 1 \in 1 .. m
            /\ x - q + 1 = l + (x - p + 1)
        <5>1. p <= x /\ p = q + l BY <3>20, Zenon
        <5> QED BY <4>1, <5>1, PastTheLimit
      <4>3. before.spent + Len(Owed) > units
        <5>1. Len(Owed) = l + m + k BY <3>10, <3>12, <3>20, <3>19
        <5> QED BY <3>20, <4>2, <5>1, Zenon
      <4>4. PICK j \in 1 .. run.units : j = units - spent + 1
        BY <3>20, <4>2
      <4>5. units - before.spent + 1 = Len(done) + j
        BY <3>20, <4>4, <4>2, Zenon
      <4>6. w[Len(done) + j] = run.stage
        <5>1. ur[j] = u[j] /\ Len(ur) = run.units + Len(r) BY <1>9, <3>11, <3>13
        <5>2. w = done \o ur BY <3>10, <3>11
        <5>3. j \in 1 .. Len(ur) BY <3>13, <5>1
        <5>4. w[Len(done) + j] = ur[j] BY <3>13, <5>2, <5>3
        <5> QED BY <1>9, <5>1, <5>4
      <4>7. RanOut' BY <1>3, <1>8, <3>10, <3>22, <4>3, <4>5, <4>6 DEF RanOut
      <4> QED BY <1>3, <1>13, <3>0, <4>7 DEF Counting, NotYet
    <3>23. CASE ok /\ spent' = spent + run.units /\ UNCHANGED refusal
      <4>1. Clean' BY <1>3, <2>2, <3>23 DEF Clean, NotYet
      <4>2. Todo' = t
        <5>1. Top'.rest = Tail(Top.rest) BY <1>4, <4>1
        <5> QED BY <1>10, <5>1
      <4>3. PICK more \in Seq(Stages) : more = done \o u /\ Len(more) = Len(done) + run.units
        <5>1. done \o u \in Seq(Stages) BY UnitsConcat
        <5>2. Len(done \o u) = Len(done) + Len(u) BY ConcatProperties
        <5> QED BY <1>9, <5>1, <5>2
      <4>4. Owed' = more \o (t \o b)
        BY <1>8, <3>7, <3>9, <3>8, <4>3, Zenon
      <4>5. Under(after)'
        <5>1. \A i \in 1 .. Len(stack') - 1 :
                 after[i + 1] = Due(Tail(stack'[i].rest)) \o after[i]
          BY <1>4, <1>5, <3>4
        <5>2. after \in [1 .. Len(stack') -> Seq(Stages)]
          <6>1. Len(stack') = n BY <1>4, <1>5
          <6> QED BY <3>4, <6>1
        <5>3. after[1] = << >> BY <3>4
        <5> QED BY <5>1, <5>2, <5>3 DEF Under
      <4>6. spent' = before'.spent + Len(more)
        <5>1. (q + l) + m = q + (l + m) OBVIOUS
        <5>2. before' = before BY <1>3
        <5> QED BY <3>23, <3>20, <4>3, <5>1, <5>2, Zenon
      <4>7. Progressing(more, after)'
        BY <1>4, <1>5, <3>5, <4>2, <4>4, <4>5, <4>6 DEF Progressing
      <4>8. Going' BY <4>7 DEF Going
      <4>9. (refusal = NotYet)' BY <2>2, <3>23 DEF NotYet
      <4> QED BY <1>3, <1>13, <3>0, <4>8, <4>9 DEF Counting, NotYet
    <3>24. CASE /\ spent + run.units <= units /\ spent' = spent + run.units
                /\ refusal' = [cause |-> "WallTime", stage |-> run.stage, work |-> spent']
      <4>1. /\ before.spent <= spent' /\ spent' <= units
            /\ spent' <= before.spent + Len(Owed)
        <5>1. q <= p + m /\ p + m <= q + (l + m + k)
          <6>1. p = q + l BY <3>20, Zenon
          <6>2. \A i, j, e \in Nat : i <= (i + j) + e OBVIOUS
          <6>3. \A i, j, e, f \in Nat : (i + j) + e <= i + (j + e + f) OBVIOUS
          <6> QED BY <6>1, <6>2, <6>3
        <5>2. Len(Owed) = l + m + k BY <3>10, <3>12, <3>20, <3>19
        <5> QED BY <3>20, <3>24, <5>1, <5>2, Zenon
      <4>2. Stopped' BY <1>3, <1>8, <3>13, <3>24, <4>1 DEF Stopped, Outside
      <4> QED BY <1>3, <1>13, <3>0, <4>2 DEF Counting, NotYet
    <3> QED BY <1>13, <2>0, <2>2, <3>21, <3>22, <3>23, <3>24, Zenon DEF Charge
  <2> QED BY <2>1, <2>2
<1> QED BY <1>12, <1>13

\* A call begins with what its computation counts to do.
LEMMA HitCalls ==
    ASSUME Sound, NEW k \in Keys, Hit(k)
    PROVE  \E c \in Calls : /\ c.kind # "op" /\ c.name = k
                            /\ stack' = Append(stack, c)
                            /\ installed => Todo' = Work[k]
<1>1. stack # << >> /\ Top.kind # "replay" /\ Top.rest # << >> /\ Head(Top.rest) = k
  BY DEF Hit
<1>2. PICK e \in Hits(k) :
         stack' = Append(stack, Call("replay", k, Replayed(e.runs), e.marred))
  BY DEF Hit
<1>3. e \in WholeEntries
  <2>1. CacheOf[k] \in Caches BY BodyAssumption
  <2>2. kept[CacheOf[k]] \in Seq(WholeEntries) BY <2>1 DEF Sound, KeptRight
  <2>3. Range(kept[CacheOf[k]]) \in SUBSET WholeEntries BY <2>2, RangeOfSeq
  <2> QED BY <2>3 DEF Hits
<1>4. e.marred \in BOOLEAN /\ e.runs \in Seq(Runs) /\ e.key = k
      /\ Expanded(e.runs) = Work[k]
  BY <1>3 DEF WholeEntries, Entries, Hits
<1>5. PICK c : c = Call("replay", k, Replayed(e.runs), e.marred) OBVIOUS
<1>6. c.kind = "replay" /\ c.name = k /\ c.rest = Replayed(e.runs) BY <1>5 DEF Call
<1>7. c \in Calls
  <2>1. Replayed(e.runs) \in Seq(Runs) BY <1>4, EmptySeq DEF Replayed
  <2>2. c \in ReplayCalls BY <1>4, <1>5, <2>1 DEF Call, ReplayCalls
  <2> QED BY <2>2 DEF Calls
<1>8. Top' = c BY <1>1, <1>2, <1>5, <1>6, <1>7, Calling DEF Sound
<1>9. ASSUME installed PROVE Todo' = Work[k]
  <2>1. armed BY <1>9 DEF Sound, Recorded, Rearm
  <2> QED BY <1>4, <1>6, <1>8, <2>1 DEF Todo, Replayed
<1> QED BY <1>2, <1>5, <1>6, <1>7, <1>9

LEMMA MissCalls ==
    ASSUME Sound, NEW k \in Keys, Miss(k)
    PROVE  \E c \in Calls : /\ c.kind # "op" /\ c.name = k
                            /\ stack' = Append(stack, c)
                            /\ installed => Todo' = Work[k]
<1>1. stack # << >> /\ Top.kind # "replay" /\ Top.rest # << >> /\ Head(Top.rest) = k
  BY DEF Miss
<1>2. stack' = Append(stack, Call("compute", k, Body[k], FALSE)) BY DEF Miss
<1>3. PICK c : c = Call("compute", k, Body[k], FALSE) OBVIOUS
<1>4. c.kind = "compute" /\ c.name = k /\ c.rest = Body[k] BY <1>3 DEF Call
<1>5. c \in Calls
  <2>1. Body[k] \in Seq(Items) BY BodyTyped
  <2>2. c \in ComputeCalls BY <1>3, <2>1 DEF Call, ComputeCalls
  <2> QED BY <2>2 DEF Calls
<1>6. Top' = c BY <1>1, <1>2, <1>3, <1>4, <1>5, Calling DEF Sound
<1>7. Todo' = Work[k] BY <1>4, <1>6, WorkDue DEF Todo
<1> QED BY <1>2, <1>3, <1>4, <1>5, <1>7

LEMMA CallCounting ==
    ASSUME Sound, Counting, NEW k \in Keys, Hit(k) \/ Miss(k) PROVE Counting'
<1>1. stack # << >> /\ Top.kind # "replay" /\ Top.rest # << >> /\ Head(Top.rest) = k
  BY DEF Hit, Miss
<1>2. UNCHANGED <<units, spent, refusal, installed, before>> BY DEF Hit, Miss
<1>3. PICK c \in Calls : /\ c.kind # "op" /\ c.name = k
                         /\ stack' = Append(stack, c)
                         /\ installed => Todo' = Work[k]
  BY HitCalls, MissCalls
<1>4. /\ stack' # << >> /\ \A i \in 1 .. Len(stack) : stack'[i] = stack[i]
  BY <1>1, <1>3, Calling DEF Sound
<1>5. 1 \in 1 .. Len(stack) BY <1>1, StackFacts DEF Sound
<1>6. stack'[1].name = stack[1].name BY <1>4, <1>5
<1>7. installed /\ refusal = NotYet /\ Going => Going'
  BY <1>1, <1>2, <1>3, CallGoing DEF Sound
<1> QED BY <1>1, <1>2, <1>4, <1>6, <1>7, StillCounting

LEMMA PopCounting ==
    ASSUME Sound, Counting, stack # << >>, Top.kind # "op", Top.rest = << >>, Pop,
           UNCHANGED <<units, spent, refusal, installed, before>>
    PROVE  Counting'
<1>1. PICK n \in Nat : n + 1 = Len(stack)
  <2>1. Len(stack) \in Nat /\ Len(stack) > 0 BY StackFacts DEF Sound
  <2>2. Len(stack) - 1 \in Nat /\ (Len(stack) - 1) + 1 = Len(stack) BY <2>1
  <2> QED BY <2>2
<1>2. /\ n > 0 /\ stack' # << >>
      /\ \A i \in 1 .. n : stack'[i].name = stack[i].name
  BY <1>1, PopFacts
<1>3. 1 \in 1 .. n BY <1>2
<1>4. stack'[1].name = stack[1].name BY <1>2, <1>3
<1>5. installed /\ refusal = NotYet /\ Going => Going' BY PopGoing DEF Clean
<1> QED BY <1>2, <1>4, <1>5, StillCounting

LEMMA CancelCounting ==
    ASSUME Counting, Cancel PROVE Counting'
<1>1. UNCHANGED <<units, spent, refusal, installed, stack, before>> BY DEF Cancel
<1>2. CASE stack = << >> BY <1>1, <1>2 DEF Counting
<1>3. CASE stack # << >>
  <2>1. ASSUME Going PROVE Going'
    <3>1. PICK after : \E done \in Seq(Stages) : Progressing(done, after)
      BY <2>1 DEF Going
    <3>2. PICK done \in Seq(Stages) : Progressing(done, after) BY <3>1
    <3>3. Progressing(done, after)' BY <1>1, <3>2 DEF Progressing, Under, Owed, Todo, Top
    <3> QED BY <3>3 DEF Going
  <2> QED BY <1>1, <1>3, <2>1, StillCounting
<1> QED BY <1>2, <1>3

\* An operation begins with its own units owed.
LEMMA BeginCounting ==
    ASSUME Sound, NEW op \in Ops, NEW b \in BOOLEAN, Begin(op, b) PROVE Counting'
<1>1. /\ stack = << >> /\ (b => refusal = NotYet)
      /\ stack' = <<Call("op", op, Body[op], FALSE)>>
      /\ installed' = b
      /\ before' = [spent |-> spent, refusal |-> refusal]
      /\ UNCHANGED <<units, spent, refusal>>
  BY DEF Begin
<1>2. PICK c : c = Call("op", op, Body[op], FALSE) OBVIOUS
<1>3. c.kind = "op" /\ c.name = op /\ c.rest = Body[op] BY <1>2 DEF Call
<1>4. stack' = <<c>> BY <1>1, <1>2
<1>5. Len(stack') = 1 /\ stack'[1] = c /\ stack' # << >> BY <1>4
<1>6. Top' = c BY <1>5 DEF Top, Last
<1>7. PICK w \in Seq(Stages) : w = Work[op] /\ Due(Body[op]) = w BY WorkDue
<1>8. Owed' = w /\ Todo' = w BY <1>3, <1>5, <1>6, <1>7 DEF Owed, Todo
<1>9. before'.spent = spent /\ before'.refusal = refusal BY <1>1
<1>10. Going'
  <2>1. PICK z \in Seq(Stages) : z = << >> /\ Len(z) = 0 BY EmptySeq
  <2>2. PICK after : after = [i \in 1 .. 1 |-> z] OBVIOUS
  <2>3. after \in [1 .. 1 -> Seq(Stages)] /\ after[1] = z BY <2>2
  <2>4. Under(after)' BY <1>5, <2>1, <2>3 DEF Under
  <2>5. w = z \o (w \o z)
    <3>1. w \o z = w BY <2>1, UnitsConcat
    <3>2. z \o w = w BY <2>1, UnitsConcat
    <3> QED BY <3>1, <3>2
  <2>6. spent \in Nat BY BodyAssumption DEF Sound, Numbers
  <2>7. spent' = before'.spent + Len(z) BY <1>1, <1>9, <2>1, <2>6
  <2>8. Progressing(z, after)' BY <1>5, <1>8, <2>3, <2>4, <2>5, <2>7 DEF Progressing
  <2> QED BY <2>8 DEF Going
<1>11. b => (refusal = NotYet)' /\ (before.refusal = NotYet)' BY <1>1, <1>9 DEF NotYet
<1>12. b => spent \in 0 .. units BY <1>1, BodyAssumption DEF Sound, Numbers
<1>13. ASSUME b PROVE Counting'
  <2>1. (before.spent \in 0 .. units)' BY <1>1, <1>9, <1>12, <1>13
  <2> QED BY <1>1, <1>10, <1>11, <1>13, <2>1 DEF Counting
<1>14. ASSUME ~b PROVE Counting' BY <1>1, <1>9, <1>14 DEF Counting
<1> QED BY <1>13, <1>14

LEMMA NextCounting ==
    ASSUME Sound, Counting, [Next]_vars PROVE Counting'
<1>1. CASE UNCHANGED vars
  BY <1>1 DEF vars, Counting, RanOut, Stopped, Going, Progressing, Under, Owed, Todo, Top
<1>2. CASE Cancel BY <1>2, CancelCounting
<1>3. CASE NewBudget BY <1>3 DEF NewBudget, Counting
<1>4. ASSUME NEW op \in Ops, StartRefused(op) PROVE Counting'
  BY <1>4 DEF StartRefused, Counting
<1>5. ASSUME NEW op \in Ops, NEW b \in BOOLEAN, Begin(op, b) PROVE Counting'
  BY <1>5, BeginCounting
<1>6. CASE Unit BY <1>6, UnitCounting
<1>7. CASE EndReplay BY <1>7, PopCounting DEF EndReplay
<1>8. CASE EndCompute BY <1>8, PopCounting DEF EndCompute
<1>9. CASE EndOp BY <1>9 DEF EndOp, Counting
<1>10. ASSUME NEW k \in Keys, Hit(k) \/ Miss(k) PROVE Counting' BY <1>10, CallCounting
<1> QED BY <1>1, <1>2, <1>3, <1>4, <1>5, <1>6, <1>7, <1>8, <1>9, <1>10 DEF Next

-----------------------------------------------------------------------------
(* Each step is one of CountedWork's, or one no caller sees.               *)

LEMMA Unseen ==
    ASSUME stack # << >>, stack' # << >>, UNCHANGED <<units, before, result>>
    PROVE  UNCHANGED Counted!vars
<1>1. ~Between /\ ~Between' BY DEF Between
<1> QED BY <1>1 DEF Counted!vars

LEMMA BeginUnseen ==
    ASSUME NEW op \in Ops, NEW b \in BOOLEAN, Begin(op, b)
    PROVE  UNCHANGED Counted!vars
<1>1. /\ stack = << >> /\ stack' = <<Call("op", op, Body[op], FALSE)>>
      /\ before' = [spent |-> spent, refusal |-> refusal]
      /\ UNCHANGED <<units, result>>
  BY DEF Begin
<1>2. stack' # << >> BY <1>1
<1>3. Between /\ ~Between' BY <1>1, <1>2 DEF Between
<1>4. before'.spent = spent /\ before'.refusal = refusal BY <1>1
<1> QED BY <1>1, <1>3, <1>4 DEF Counted!vars

\* What the operation's end shows of what it counted.
LEMMA EndOpSeen ==
    ASSUME Sound, Counting, EndOp PROVE Counted!Next
<1>1. /\ stack # << >> /\ Top.kind = "op" /\ Top.rest = << >> /\ stack' = << >>
      /\ result' = IF installed /\ refusal # NotYet THEN "refused"
                   ELSE IF Top.marred THEN "marred" ELSE "value"
      /\ UNCHANGED <<units, spent, refusal>>
  BY DEF EndOp
<1>2. ~Between /\ Between' BY <1>1 DEF Between
<1>3. Len(stack) = 1 /\ Top = stack[1]
  <2>1. Top = stack[Len(stack)] /\ Len(stack) \in 1 .. Len(stack)
    BY <1>1, StackFacts DEF Sound
  <2> QED BY <1>1, <2>1 DEF Sound, Stacked
<1>4. PICK op \in Ops : op = stack[1].name BY <1>1, OwedTyped DEF Sound
<1>5. PICK w \in Seq(Stages) : w = Owed /\ Work[op] = w /\ Len(w) \in Nat
  BY <1>1, <1>4, OwedTyped, LenProperties DEF Sound, Owed
<1>6. Clean => ~Top.marred BY <1>3 DEF Sound, Sums
<1>7. CASE ~installed
  <2>1. spent = before.spent /\ refusal = before.refusal BY <1>1, <1>7 DEF Counting
  <2>2. result' = "value" BY <1>1, <1>6, <1>7 DEF Clean
  <2>3. Counted!Plain BY <1>1, <1>2, <2>1, <2>2 DEF Counted!Plain
  <2> QED BY <2>3 DEF Counted!Next
<1>8. CASE installed
  <2>1. /\ before.refusal = NotYet /\ before.spent \in 0 .. units
        /\ (refusal = NotYet /\ Going) \/ RanOut \/ Stopped
    BY <1>1, <1>8 DEF Counting
  <2>2. CASE refusal = NotYet /\ Going
    <3>1. PICK after : \E done \in Seq(Stages) : Progressing(done, after)
      BY <2>2 DEF Going
    <3>2. PICK done \in Seq(Stages) : Progressing(done, after) BY <3>1
    <3>3. /\ after[1] = << >> /\ w = done \o (Todo \o after[1])
          /\ spent = before.spent + Len(done)
      BY <1>3, <1>5, <3>2 DEF Progressing, Under
    <3>4. Todo = << >> BY <1>1, DueEmpty DEF Todo
    <3>5. w = done
      <4>1. PICK z \in Seq(Stages) : z = << >> BY EmptySeq
      <4>2. z \o z = z /\ done \o z = done BY <4>1, UnitsConcat
      <4> QED BY <3>3, <3>4, <4>1, <4>2
    <3>6. spent <= units BY <2>2 DEF Sound, Numbers
    <3>7. result' = "value" BY <1>1, <1>6, <2>2 DEF Clean
    <3>8. Counted!Keeps(op)
      BY <1>1, <1>2, <1>5, <2>1, <2>2, <3>3, <3>5, <3>6, <3>7
      DEF Counted!Keeps, Counted!NotYet, NotYet
    <3> QED BY <3>8 DEF Counted!Next
  <2>3. CASE RanOut
    <3>1. refusal # NotYet BY <2>3 DEF RanOut, NotYet
    <3>2. result' = "refused" BY <1>1, <1>8, <3>1
    <3>3. Counted!RunsOut(op)
      BY <1>1, <1>2, <1>5, <2>1, <2>3, <3>2
      DEF Counted!RunsOut, Counted!NotYet, Counted!Refusal, NotYet, RanOut
    <3> QED BY <3>3 DEF Counted!Next
  <2>4. CASE Stopped
    <3>1. refusal # NotYet BY <2>4 DEF Stopped, NotYet, Outside
    <3>2. result' = "refused" BY <1>1, <1>8, <3>1
    <3>3. PICK s \in Stages, c \in Outside :
             /\ refusal = [cause |-> c, stage |-> s, work |-> spent]
             /\ before.spent <= spent /\ spent <= units
             /\ spent <= before.spent + Len(w)
      BY <1>5, <2>4 DEF Stopped
    <3>4. spent \in before.spent .. units
      BY <2>1, <3>3, BodyAssumption DEF Sound, Numbers
    <3>5. Counted!Interrupted(op)
      BY <1>1, <1>2, <1>5, <2>1, <3>2, <3>3, <3>4
      DEF Counted!Interrupted, Counted!NotYet, Counted!Refusal, NotYet, Outside
    <3> QED BY <3>5 DEF Counted!Next
  <2> QED BY <2>1, <2>2, <2>3, <2>4
<1> QED BY <1>7, <1>8

\* A refusal at the start is one that stands, a cancellation or the deadline.
LEMMA StartSeen ==
    ASSUME Sound, NEW op \in Ops, StartRefused(op) PROVE Counted!Next
<1>1. /\ stack = << >> /\ stack' = << >>
      /\ refusal' = IF refusal # NotYet THEN refusal
                    ELSE [cause |-> IF token THEN "Cancelled" ELSE "WallTime",
                          stage |-> Start, work |-> spent]
      /\ result' = "refused"
      /\ UNCHANGED <<units, spent>>
  BY DEF StartRefused
<1>2. Between /\ Between' BY <1>1 DEF Between
<1>3. CASE refusal # NotYet
  <2>1. Counted!Again
    BY <1>1, <1>2, <1>3 DEF Counted!Again, Counted!NotYet, NotYet
  <2> QED BY <2>1 DEF Counted!Next
<1>4. CASE refusal = NotYet
  <2>1. Len(Work[op]) \in Nat BY WorkDue, LenProperties
  <2>2. spent \in spent .. units /\ spent <= spent + Len(Work[op])
    BY <1>4, <2>1, BodyAssumption DEF Sound, Numbers
  <2>3. Start \in Stages \cup {Start} OBVIOUS
  <2>4. Counted!Interrupted(op)
    BY <1>1, <1>2, <1>4, <2>2, <2>3
    DEF Counted!Interrupted, Counted!NotYet, Counted!Refusal, NotYet
  <2> QED BY <2>4 DEF Counted!Next
<1> QED BY <1>3, <1>4

LEMMA NextSeen ==
    ASSUME Sound, Counting, Sound', [Next]_vars
    PROVE  [Counted!Next]_(Counted!vars)
<1>1. CASE UNCHANGED vars
  BY <1>1 DEF vars, Counted!vars, Between
<1>2. CASE Cancel
  BY <1>2 DEF Cancel, Counted!vars, Between
<1>3. CASE NewBudget
  <2>1. /\ Between /\ Between' /\ units' \in Limits /\ spent' = 0 /\ refusal' = NotYet
        /\ UNCHANGED result
    BY <1>3 DEF NewBudget, Between
  <2>2. Counted!NewBudget BY <2>1 DEF Counted!NewBudget, Counted!NotYet, NotYet
  <2> QED BY <2>2 DEF Counted!Next
<1>4. ASSUME NEW op \in Ops, StartRefused(op) PROVE Counted!Next BY <1>4, StartSeen
<1>5. ASSUME NEW op \in Ops, NEW b \in BOOLEAN, Begin(op, b)
      PROVE  UNCHANGED Counted!vars
  BY <1>5, BeginUnseen
<1>6. CASE Unit
  <2>1. stack # << >> /\ Top.rest # << >> /\ UNCHANGED <<units, before, result>>
        /\ UNCHANGED <<token, installed, armed, kept>>
    BY <1>6 DEF Unit
  <2>2. PICK run \in Runs, ok \in BOOLEAN : CountsOne(run, ok)
    BY <1>6, UnitFacts DEF Sound
  <2>3. Len(stack') = Len(stack) BY <2>1, <2>2, UnitMars
  <2>4. Len(stack) > 0 BY <2>1, StackFacts DEF Sound
  <2>5. stack' # << >> BY <2>3, <2>4
  <2> QED BY <2>1, <2>5, Unseen
<1>7. CASE EndReplay \/ EndCompute
  <2>1. /\ stack # << >> /\ Top.kind # "op" /\ Pop /\ UNCHANGED <<units, before, result>>
    BY <1>7 DEF EndReplay, EndCompute
  <2>2. PICK n \in Nat : n + 1 = Len(stack)
    <3>1. Len(stack) \in Nat /\ Len(stack) > 0 BY <2>1, StackFacts DEF Sound
    <3>2. Len(stack) - 1 \in Nat /\ (Len(stack) - 1) + 1 = Len(stack) BY <3>1
    <3> QED BY <3>2
  <2>3. stack' # << >> BY <2>1, <2>2, PopFacts
  <2> QED BY <2>1, <2>3, Unseen
<1>8. CASE EndOp BY <1>8, EndOpSeen
<1>9. ASSUME NEW k \in Keys, Hit(k) \/ Miss(k) PROVE UNCHANGED Counted!vars
  <2>1. /\ stack # << >> /\ Top.kind # "replay" /\ Top.rest # << >> /\ Head(Top.rest) = k
        /\ UNCHANGED <<units, before, result>>
    BY <1>9 DEF Hit, Miss
  <2>2. PICK c \in Calls : c.kind # "op" /\ c.name = k /\ stack' = Append(stack, c)
    BY <1>9, HitCalls, MissCalls
  <2>3. stack' # << >> BY <2>1, <2>2, Calling DEF Sound
  <2> QED BY <2>1, <2>3, Unseen
<1> QED
  BY <1>1, <1>2, <1>3, <1>4, <1>5, <1>6, <1>7, <1>8, <1>9 DEF Next

\* What a caller sees between operations is what CountedWork promises: neither
\* what is kept nor how computations nest and replay shows in the count, in the
\* refusal or in the result.
THEOREM CountsAsPromised == Spec => CountsAlike
<1>1. Init => Sound /\ Counting
  <2>1. Init => Counting BY DEF Init, Counting
  <2> QED BY <2>1, InitSound
<1>2. Sound /\ Counting /\ [Next]_vars => (Sound /\ Counting)' BY NextSound, NextCounting
<1>3. Init => Counted!Init
  BY DEF Init, Between, Counted!Init, Counted!NotYet, NotYet
<1>4. Sound /\ Counting /\ Sound' /\ [Next]_vars => [Counted!Next]_(Counted!vars)
  BY NextSeen
<1> QED BY <1>1, <1>2, <1>3, <1>4, PTL DEF Spec, CountsAlike, Counted!Spec

=============================================================================
