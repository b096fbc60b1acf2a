------------------------ MODULE DocumentUndoProofs -------------------------
(* Proofs about Document, of an application that is careful: that undo and   *)
(* redo find what they expect, and that the document is to its user the pile *)
(* of states that UndoStack describes.                                       *)
EXTENDS DocumentProofs

-----------------------------------------------------------------------------
(* Aborting all that is open, opening, undoing and redoing.                  *)

\* Each abort of what is open makes the next document of the loop.
LEMMA AllAbortedSteps ==
    ASSUME NEW X, NEW D \in X, Len(D.filo) \in Nat, \A E \in X : AbortTransaction(E) \in X
    PROVE  \E g : LET n == Len(D.filo) + 1 IN
              /\ g \in [0 .. n -> X] /\ g[0] = D /\ g[n] = AllAborted(D)
              /\ \A k \in 1 .. n :
                    g[k] = IF k = 1 \/ g[k - 1].filo # << >> THEN AbortTransaction(g[k - 1])
                           ELSE g[k - 1]
<1> DEFINE n == Len(D.filo) + 1
           Rec(g) == [k \in 0 .. n |->
                        IF k = 0 THEN D
                        ELSE IF k = 1 \/ g[k - 1].filo # << >> THEN AbortTransaction(g[k - 1])
                        ELSE g[k - 1]]
<1>1. n \in Nat /\ n # 0 OBVIOUS
<1>2. PICK F : F = [k \in 1 .. n |-> [E \in X |-> IF k = 1 \/ E.filo # << >>
                                                  THEN AbortTransaction(E) ELSE E]]
  OBVIOUS
<1> HIDE DEF n
<1>3. F \in [1 .. n -> [X -> X]] BY <1>2
<1>4. PICK f : Iterates(f, n, X, D, F) BY <1>1, <1>3, PrefixRecursion
<1>5. f \in [0 .. n -> X] /\ f[0] = D /\ \A i \in 1 .. n : f[i] = F[i][f[i - 1]]
  BY <1>4 DEF Iterates
<1>6. ASSUME NEW k \in 0 .. n, k # 0
      PROVE  f[k] = IF k = 1 \/ f[k - 1].filo # << >> THEN AbortTransaction(f[k - 1])
                    ELSE f[k - 1]
  <2>1. k \in 1 .. n /\ k - 1 \in 0 .. n BY <1>1, <1>6
  <2>2. PICK E \in X : E = f[k - 1] BY <1>5, <2>1
  <2>3. F[k][E] = IF k = 1 \/ E.filo # << >> THEN AbortTransaction(E) ELSE E BY <1>2, <2>1
  <2> QED BY <1>5, <2>1, <2>2, <2>3
<1>7. f = Rec(f)
  <2>1. \A k \in 0 .. n : f[k] = IF k = 0 THEN D
                        ELSE IF k = 1 \/ f[k - 1].filo # << >> THEN AbortTransaction(f[k - 1])
                        ELSE f[k - 1]
    BY <1>5, <1>6
  <2> QED BY <1>5, <2>1
<1>8. PICK g : g = CHOOSE h : h = Rec(h) OBVIOUS
<1>9. g = Rec(g)
  <2> HIDE DEF Rec
  <2> QED BY <1>7, <1>8
<1>10. AllAborted(D) = g[n] BY <1>8, Zenon DEF AllAborted, n
<1>11. ASSUME NEW k \in 0 .. n
       PROVE  g[k] = IF k = 0 THEN D
                     ELSE IF k = 1 \/ g[k - 1].filo # << >> THEN AbortTransaction(g[k - 1])
                     ELSE g[k - 1]
  BY <1>9
<1>12. DOMAIN g = 0 .. n /\ g = [k \in 0 .. n |-> g[k]]
  <2>1. \E r : g = [k \in 0 .. n |-> r[k]]
    <3>1. PICK r : r = [k \in 0 .. n |-> IF k = 0 THEN D
                        ELSE IF k = 1 \/ g[k - 1].filo # << >> THEN AbortTransaction(g[k - 1])
                        ELSE g[k - 1]]
      OBVIOUS
    <3>2. g = r BY <1>9, <3>1
    <3> QED BY <3>1, <3>2
  <2> QED BY <2>1
<1> HIDE DEF Rec
<1>13. PICK M : M = {k \in Nat : k <= n => g[k] \in X} OBVIOUS
<1>14. M = Nat
  <2>1. 0 \in M BY <1>1, <1>11, <1>13
  <2>2. ASSUME NEW k \in M PROVE k + 1 \in M
    <3>1. k \in Nat /\ (k <= n => g[k] \in X) BY <1>13
    <3>2. ASSUME k + 1 <= n PROVE g[k + 1] \in X
      <4>1. k + 1 \in 0 .. n /\ k + 1 # 0 /\ (k + 1) - 1 = k /\ g[k] \in X
        BY <1>1, <3>1, <3>2
      <4>2. g[k + 1] \in {AbortTransaction(g[k]), g[k]} BY <1>11, <4>1
      <4> QED BY <4>1, <4>2
    <3> QED BY <1>13, <3>1, <3>2
  <2> QED BY <1>13, <2>1, <2>2, FromZero
<1>15. g \in [0 .. n -> X]
  <2>1. \A k \in 0 .. n : g[k] \in X BY <1>1, <1>13, <1>14
  <2> QED BY <1>12, <2>1
<1>16. g[0] = D BY <1>1, <1>11
<1>17. \A k \in 1 .. n :
          g[k] = IF k = 1 \/ g[k - 1].filo # << >> THEN AbortTransaction(g[k - 1])
                 ELSE g[k - 1]
  BY <1>1, <1>11
<1> QED BY <1>10, <1>15, <1>16, <1>17 DEF n

\* What the outermost command held when it opened is what the others lead to.
LEMMA AbortFoot ==
    ASSUME NEW S \in SUBSET Objects, NEW D \in Kept(S)
    PROVE  LET E == AbortTransaction(D) IN
           Foot(E.filo, Start(E.data)) = Foot(D.filo, Start(D.data))
<1>1. PICK E : E = AbortTransaction(D) OBVIOUS
<1>2. /\ E \in Kept(S)
      /\ D.filo = << >> => E.filo = << >> /\ Visible(E.data) = Start(D.data)
      /\ D.filo # << >> => E.filo = Tail(D.filo) /\ Visible(E.data) = D.filo[1].back
      /\ E.filo = << >> => ~Opened(E)
  BY <1>1, AbortKept
<1>3. E.filo = << >> => Start(E.data) = Visible(E.data)
  <2>1. E.data \in Fine(S) /\ (~Opened(E) => E.data.transaction = 0) BY <1>2, KeptFacts
  <2> QED BY <1>2, <2>1, CleanStart
<1>4. PICK f \in Seq(Stored(S)) : f = D.filo BY KeptFacts
<1>5. PICK g \in Seq(Stored(S)) : g = E.filo BY <1>2, KeptFacts
<1>6. CASE f = << >>
  <2>1. Len(f) = 0 /\ Len(g) = 0 BY <1>2, <1>4, <1>5, <1>6, LenZero
  <2> QED BY <1>1, <1>2, <1>3, <1>4, <1>5, <1>6, <2>1 DEF Foot
<1>7. CASE f # << >>
  <2>1. Slice(g, f, 1) /\ Len(g) + 1 = Len(f) BY <1>2, <1>4, <1>5, <1>7, TailSlice
  <2>2. Len(g) \in Nat /\ Len(f) \in Nat BY LenZero
  <2>3. CASE Len(g) = 0
    <3>1. Len(f) = 1 /\ g = << >> BY <2>1, <2>3, LenZero
    <3> QED BY <1>1, <1>2, <1>3, <1>4, <1>5, <1>7, <2>3, <3>1 DEF Foot
  <2>4. CASE Len(g) # 0
    <3>1. Len(g) \in 1 .. Len(g) /\ Len(f) # 0 BY <2>1, <2>2, <2>4
    <3>2. Twin(g[Len(g)], f[Len(g) + 1]) BY <2>1, <3>1, SliceDelta
    <3> QED BY <1>1, <1>4, <1>5, <2>1, <2>4, <3>1, <3>2 DEF Foot, Twin
  <2> QED BY <2>3, <2>4
<1> QED BY <1>6, <1>7

\* After k aborts.
Emptied(D, E, k) == \/ Len(E.filo) + k = Len(D.filo)
                    \/ k # 0 /\ E.filo = << >> /\ ~Opened(E)

\* All that was open aborted.
LEMMA AllAbortedKept ==
    ASSUME NEW S \in SUBSET Objects, NEW D \in Kept(S)
    PROVE  LET E == AllAborted(D) IN
           /\ E \in Kept(S) /\ Same(D, E) /\ E.filo = << >> /\ ~Opened(E)
           /\ Visible(E.data) = Foot(D.filo, Start(D.data))
<1> DEFINE X == {E \in Kept(S) : Same(D, E)
                                 /\ Foot(E.filo, Start(E.data)) = Foot(D.filo, Start(D.data))}
<1>1. \A E \in X : AbortTransaction(E) \in X BY AbortKept, AbortFoot DEF Same
<1>2. D \in X BY DEF Same
<1>3. Len(D.filo) \in Nat BY KeptFacts
<1> HIDE DEF X
<1>4. PICK n \in Nat : n = Len(D.filo) + 1 BY <1>3
<1>5. PICK g : /\ g \in [0 .. n -> X] /\ g[0] = D /\ g[n] = AllAborted(D)
               /\ \A k \in 1 .. n :
                    g[k] = IF k = 1 \/ g[k - 1].filo # << >> THEN AbortTransaction(g[k - 1])
                           ELSE g[k - 1]
  BY <1>1, <1>2, <1>3, <1>4, AllAbortedSteps
<1>6. PICK M : M = {k \in Nat : k <= n => Emptied(D, g[k], k)} OBVIOUS
<1>7. M = Nat
  <2>1. 0 \in M
    <3>1. Len(D.filo) + 0 = Len(D.filo) BY <1>3
    <3> QED BY <1>5, <1>6, <3>1 DEF Emptied
  <2>2. ASSUME NEW k \in M PROVE k + 1 \in M
    <3>1. k \in Nat /\ (k <= n => Emptied(D, g[k], k)) BY <1>6
    <3>2. ASSUME k + 1 <= n PROVE Emptied(D, g[k + 1], k + 1)
      <4>1. k + 1 \in 1 .. n /\ (k + 1) - 1 = k /\ k \in 0 .. n /\ Emptied(D, g[k], k)
        BY <3>1, <3>2
      <4>2. PICK E \in X : E = g[k] BY <1>5, <4>1
      <4>6. Emptied(D, E, k) /\ k + 1 # 0 BY <3>1, <4>1, <4>2
      <4>3. E \in Kept(S) /\ E.filo \in Seq(Stored(S)) /\ Len(E.filo) \in Nat
        BY KeptFacts DEF X
      <4>4. CASE k + 1 = 1 \/ E.filo # << >>
        <5>1. PICK F : F = AbortTransaction(E) OBVIOUS
        <5>2. g[k + 1] = F BY <1>5, <4>1, <4>2, <4>4, <5>1
        <5>3. /\ E.filo = << >> => F.filo = << >>
              /\ E.filo # << >> => F.filo = Tail(E.filo)
              /\ F.filo = << >> => ~Opened(F)
          BY <4>3, <5>1, AbortKept
        <5>4. CASE E.filo = << >> BY <4>6, <5>2, <5>3, <5>4 DEF Emptied
        <5>5. CASE E.filo # << >>
          <6>1. Len(F.filo) + 1 = Len(E.filo) BY <4>3, <5>3, <5>5, TailSlice
          <6>2. Len(E.filo) + k = Len(D.filo) BY <4>6, <5>5 DEF Emptied
          <6>3. Len(F.filo) \in Nat BY <4>3, <5>3, <5>5, FirstOf, LenZero
          <6>4. Len(F.filo) + (k + 1) = Len(D.filo)
            <7>1. PICK a \in Nat : a = Len(F.filo) BY <6>3
            <7>2. PICK b \in Nat : b = Len(E.filo) BY <4>3
            <7>3. PICK c \in Nat : c = Len(D.filo) BY <1>3
            <7>4. k \in Nat /\ a + 1 = b /\ b + k = c
              BY <3>1, <6>1, <6>2, <7>1, <7>2, <7>3
            <7>5. a + (k + 1) = c BY <7>4
            <7> QED BY <7>1, <7>3, <7>5
          <6> QED BY <5>2, <6>4 DEF Emptied
        <5> QED BY <5>4, <5>5
      <4>5. CASE ~(k + 1 = 1 \/ E.filo # << >>)
        <5>1. g[k + 1] = g[k] BY <1>5, <4>1, <4>2, <4>5
        <5>2. k # 0 BY <3>1, <4>5
        <5>3. Len(E.filo) = 0 BY <4>3, <4>5, LenZero
        <5>4. CASE E.filo = << >> /\ ~Opened(E) BY <4>2, <4>6, <5>1, <5>4 DEF Emptied
        <5>5. CASE Len(E.filo) + k = Len(D.filo)
          <6>1. k = Len(D.filo) BY <3>1, <5>3, <5>5
          <6>2. ~Opened(E)
            <7>1. E.nested => ~Opened(E) BY <4>3, <4>5, KeptFacts DEF Shaped
            <7>2. k \in 1 .. n /\ k - 1 \in 0 .. n BY <3>1, <4>1, <5>2
            <7>3. E.nested
              <8>1. D.filo # << >> BY <1>2, <5>2, <6>1, KeptFacts, LenZero
              <8>2. D.nested BY <8>1, KeptFacts DEF Shaped
              <8> QED BY <8>2 DEF X, Same
            <7> QED BY <7>1, <7>3
          <6> QED BY <4>2, <4>5, <4>6, <5>1, <6>2 DEF Emptied
        <5> QED BY <4>6, <5>4, <5>5 DEF Emptied
      <4> QED BY <4>4, <4>5
    <3> QED BY <1>6, <3>1, <3>2
  <2> QED BY <1>6, <2>1, <2>2, FromZero
<1>8. PICK E \in X : E = AllAborted(D)
  <2>1. n \in 0 .. n OBVIOUS
  <2> QED BY <1>5, <2>1
<1>9. /\ E \in Kept(S) /\ Same(D, E)
      /\ Foot(E.filo, Start(E.data)) = Foot(D.filo, Start(D.data))
  BY DEF X
<1>10. E.filo = << >> /\ ~Opened(E)
  <2>1. Emptied(D, E, n)
    <3>1. n <= n OBVIOUS
    <3> QED BY <3>1, <1>5, <1>6, <1>7, <1>8
  <2>2. Len(E.filo) \in Nat BY <1>9, KeptFacts
  <2>3. Len(E.filo) + n # Len(D.filo)
    <3>1. PICK a \in Nat : a = Len(E.filo) BY <2>2
    <3>2. PICK c \in Nat : c = Len(D.filo) BY <1>3
    <3>3. a + (c + 1) # c OBVIOUS
    <3> QED BY <1>4, <3>1, <3>2, <3>3
  <2> QED BY <2>1, <2>3 DEF Emptied
<1>11. Visible(E.data) = Start(E.data)
  <2>1. E.data \in Fine(S) /\ E.data.transaction = 0 BY <1>9, <1>10, KeptFacts
  <2> QED BY <2>1, CleanStart
<1>12. Foot(E.filo, Start(E.data)) = Start(E.data) BY <1>10, EmptyStacks
<1> QED BY <1>8, <1>9, <1>10, <1>11, <1>12

\* What the innermost command did so far put in its compound delta.
LEMMA SuspendedIdle ==
    ASSUME NEW S \in SUBSET Objects, NEW D \in Kept(S), D.nested, D.data.allow
    PROVE  LET E == Suspended(D, Commit(D.data)) IN
           /\ E \in Idle(S) /\ Same(D, E) /\ Backs(E.filo, D.filo)
           /\ Visible(E.data) = Visible(D.data)
<1>1. PICK E : E = Suspended(D, Commit(D.data)) OBVIOUS
<1>2. PICK d : d = D.data OBVIOUS
<1>3. PICK f \in Seq(Stored(S)) : f = D.filo BY KeptFacts
<1>4. PICK us \in Seq(Stored(S)) : us = D.undos BY KeptFacts
<1>5. PICK rs \in Seq(Stored(S)) : rs = D.redos BY KeptFacts
<1>6. PICK b : b = Start(d) OBVIOUS
<1>7. PICK u : u = d.time OBVIOUS
<1>8. /\ d \in Fine(S) /\ Stacks(d, f, us, rs, Start(d), d.time) /\ D \in Documents(S)
      /\ Tuned(D) /\ Shaped(D) /\ (Opened(D) <=> d.transaction = 1) /\ d.transaction \in 0 .. 1
      /\ Spares(d, f)
  BY <1>2, <1>3, <1>4, <1>5, KeptFacts DEF Piled
<1>9. PICK c : c = Visible(d) OBVIOUS
<1>10. CASE Opened(D)
  <2>1. d.transaction = 1 /\ d.allow /\ d.begin = d.time /\ d.was = Start(d)
    BY <1>2, <1>8, <1>10 DEF Tuned
  <2>2. PICK e : e = Commit(d).data OBVIOUS
  <2>3. PICK x : x = Commit(d).delta OBVIOUS
  <2>4. /\ e \in Fine(S) /\ e.transaction = 0 /\ e.allow /\ x \in Stored(S)
        /\ Visible(e) = c
        /\ Stacks(e, f, us, rs, b, u)
        /\ Flies(e, x, c, e.time, b, u)
        /\ Joins(x, f, us, rs)
    BY <1>6, <1>7, <1>8, <1>9, <2>1, <2>2, <2>3, CommitFlight
  <2>5. f # << >> BY <1>3, <1>8, <1>10 DEF Shaped
  <2>6. PICK m \in Stored(S) : m = AppendDelta(f[1], x) BY <2>4, <2>5, FirstOf, AppendedFacts
  <2>7. PICK h : h = [f EXCEPT ![1] = m] OBVIOUS
  <2>8. h \in Seq(Stored(S)) /\ h # << >> /\ Headed(h, f, m) BY <2>5, <2>7, SwappedHead
  <2>9. PICK t : t = e.time OBVIOUS
  <2>10. Stacks(e, h, us, rs, c, t) BY <2>4, <2>5, <2>6, <2>8, <2>9, Merged
  <2>11. E = WithData([D EXCEPT !.filo = h], e)
    BY <1>1, <1>2, <1>3, <1>8, <1>10, <2>2, <2>3, <2>6, <2>7 DEF Suspended, Documents, Drafts
  <2>12. E \in Documents(S) /\ Same(D, E) /\ E.filo = h /\ E.data = e
    <3>1. e \in Frames(S) BY <2>4, FineFacts
    <3> QED BY <1>8, <2>4, <2>8, <2>11, <3>1, ClosedDocument
  <2>13. E.undos = us /\ E.redos = rs /\ E.nested BY <1>4, <1>5, <2>12 DEF Same
  <2>14. Stacks(e, E.filo, E.undos, E.redos, Visible(e), e.time)
    BY <2>4, <2>9, <2>10, <2>12, <2>13
  <2>15. E \in Idle(S) BY <2>4, <2>12, <2>13, <2>14, MakeIdle
  <2>16. Backs(h, f)
    <3>1. f[1] \in Stored(S) BY <2>5, FirstOf
    <3>2. m.back = f[1].back BY <2>4, <2>6, <3>1, AppendedFacts
    <3> QED BY <2>8, <3>2 DEF Headed, Backs
  <2> QED BY <1>1, <1>2, <1>3, <1>9, <2>4, <2>12, <2>15, <2>16
<1>11. CASE ~Opened(D)
  <2>1. E = D BY <1>1, <1>11 DEF Suspended
  <2>2. d.transaction = 0 BY <1>8, <1>11
  <2>3. b = Visible(d) BY <1>6, <1>8, <2>2, CleanStart
  <2>4. Stacks(d, D.filo, D.undos, D.redos, Visible(d), d.time)
    BY <1>3, <1>4, <1>5, <1>6, <1>8, <2>3
  <2>5. D \in Idle(S) BY <1>2, <1>8, <2>2, <2>4, MakeIdle
  <2> QED BY <1>1, <2>1, <2>5 DEF Same, Backs
<1> QED BY <1>10, <1>11

\* A command opens inside the others, or at the outermost.
LEMMA NestedIdle ==
    ASSUME NEW S \in SUBSET Objects, NEW D \in Idle(S), D.nested,
           NEW c, c = Visible(D.data)
    PROVE  LET E == Nested(D, c) IN
           /\ E \in Idle(S) /\ Same(D, E) /\ E.data = D.data
           /\ Len(E.filo) = Len(D.filo) + 1 /\ E.filo[1].back = c
           /\ \A j \in 1 .. Len(D.filo) : E.filo[j + 1].back = D.filo[j].back
<1>1. PICK E : E = Nested(D, c) OBVIOUS
<1>2. PICK d : d = D.data OBVIOUS
<1>3. PICK f \in Seq(Stored(S)) : f = D.filo BY IdleFacts
<1>4. PICK us \in Seq(Stored(S)) : us = D.undos BY IdleFacts
<1>5. PICK rs \in Seq(Stored(S)) : rs = D.redos BY IdleFacts
<1>6. PICK t : t = d.time OBVIOUS
<1>7. /\ d \in Fine(S) /\ d.transaction = 0 /\ d.allow /\ D \in Documents(S)
      /\ Stacks(d, f, us, rs, c, t)
  BY <1>2, <1>3, <1>4, <1>5, <1>6, IdleFacts DEF Piled
<1>8. c \in Contents /\ t \in Nat
  BY <1>2, <1>6, <1>7, FineFacts, FrameFacts, VisibleContents DEF Framework
<1>9. t = IF f = << >> THEN d.time ELSE f[1].end
  <2>1. CASE f # << >>
    <3>1. Len(f) # 0 BY <2>1, LenZero
    <3> QED BY <1>7, <2>1, <3>1 DEF Stacks, Down, Leads
  <2> QED BY <1>6, <2>1
<1>10. PICK x : x = [NullDelta EXCEPT !.begin = t, !.end = t, !.back = c] OBVIOUS
<1>11. /\ x \in Stored(S) /\ x.parts = {} /\ x.back = c /\ x.begin = t /\ x.end = t
  <2>1. NullDelta \in Delta /\ NullDelta \in Stored(S) /\ NullDelta.parts = {}
    BY NullStored DEF Stored, NullDelta
  <2>2. x \in Delta /\ x.parts = {} /\ x.back = c /\ x.begin = t /\ x.end = t
    BY <1>8, <1>10, <2>1 DEF Delta
  <2> QED BY <2>1, <2>2 DEF Stored
<1>12. PICK g : g = <<x>> \o f OBVIOUS
<1>13. /\ g \in Seq(Stored(S)) /\ Len(g) = Len(f) + 1 /\ g[1] = x /\ Slice(f, g, 1)
  BY <1>11, <1>12, PushGrown
<1>14. Stacks(d, g, us, rs, c, t) BY <1>7, <1>11, <1>12, Layer
<1>15. E = [D EXCEPT !.filo = g]
  BY <1>1, <1>2, <1>3, <1>7, <1>9, <1>10, <1>12 DEF Nested, Documents, Drafts
<1>16. E \in Documents(S) /\ Same(D, E) /\ E.filo = g /\ E.data = d
  <2>1. D.data.transaction = 0 BY <1>2, <1>7
  <2> QED BY <1>2, <1>7, <1>13, <1>15, <2>1, FiloDocument
<1>17. E.undos = us /\ E.redos = rs /\ E.nested BY <1>4, <1>5, <1>16 DEF Same
<1>18. Stacks(d, E.filo, E.undos, E.redos, Visible(d), d.time)
  BY <1>2, <1>6, <1>14, <1>16, <1>17
<1>19. E \in Idle(S) BY <1>7, <1>16, <1>17, <1>18, MakeIdle
<1>20. \A j \in 1 .. Len(f) : g[j + 1].back = f[j].back BY <1>13 DEF Slice, Twin
<1> QED BY <1>1, <1>2, <1>3, <1>11, <1>13, <1>16, <1>19, <1>20

LEMMA OpenKept ==
    ASSUME NEW S \in SUBSET Objects, NEW D \in Kept(S), D.nested \/ ~Opened(D)
    PROVE  LET E == OpenDocument(D) IN
           /\ E \in Kept(S) /\ Same(D, E) /\ Visible(E.data) = Visible(D.data)
           /\ D.nested => /\ Len(E.filo) = Len(D.filo) + 1
                          /\ E.filo[1].back = Visible(D.data)
                          /\ \A j \in 1 .. Len(D.filo) : E.filo[j + 1].back = D.filo[j].back
           /\ ~D.nested => (Opened(E) <=> D.limit # 0)
           /\ Start(E.data) = Visible(D.data)
<1>1. PICK A : A = Allow(D) OBVIOUS
<1>2. /\ A \in Kept(S) /\ Same(D, A) /\ A.filo = D.filo /\ A.data.allow
      /\ Visible(A.data) = Visible(D.data) /\ A.data.transaction = D.data.transaction
  BY <1>1, AllowKept
<1>3. A.nested = D.nested /\ A.limit = D.limit /\ (Opened(A) <=> Opened(D))
  BY <1>2 DEF Same, Opened
<1>4. PICK c : c = Visible(D.data) OBVIOUS
<1>5. PICK C : C = Started(OpenNested(A)) OBVIOUS
<1>6. /\ C \in Kept(S) /\ Same(D, C) /\ Visible(C.data) = c
      /\ D.nested => /\ Len(C.filo) = Len(D.filo) + 1
                     /\ C.filo[1].back = c
                     /\ \A j \in 1 .. Len(D.filo) : C.filo[j + 1].back = D.filo[j].back
      /\ ~D.nested => (Opened(C) <=> D.limit # 0)
      /\ Start(C.data) = c
  <2>1. CASE D.nested
    <3>1. PICK X : X = Suspended(A, Commit(A.data)) OBVIOUS
    <3>2. /\ X \in Idle(S) /\ Same(A, X) /\ Backs(X.filo, A.filo)
          /\ Visible(X.data) = c
      BY <1>2, <1>3, <1>4, <2>1, <3>1, SuspendedIdle
    <3>3. PICK B : B = Nested(X, c) OBVIOUS
    <3>4. /\ B \in Idle(S) /\ Same(X, B) /\ B.data = X.data
          /\ Len(B.filo) = Len(X.filo) + 1 /\ B.filo[1].back = c
          /\ \A j \in 1 .. Len(X.filo) : B.filo[j + 1].back = X.filo[j].back
      <4>1. X.nested BY <1>3, <2>1, <3>2 DEF Same
      <4> QED BY <3>2, <3>3, <4>1, NestedIdle
    <3>5. C = Started(B) BY <1>2, <1>3, <1>4, <1>5, <2>1, <3>1, <3>3 DEF OpenNested
    <3>6. B.limit # 0 /\ B.filo # << >> /\ Same(D, B)
      <4>1. B.limit # 0 /\ B.nested BY <1>2, <2>1, <3>2, <3>4, IdleFacts DEF Same
      <4>2. Len(X.filo) \in Nat /\ B.filo \in Seq(Stored(S)) BY <3>2, <3>4, IdleFacts
      <4>3. Len(B.filo) # 0 BY <3>4, <4>2
      <4> QED BY <1>2, <3>2, <3>4, <4>1, <4>2, <4>3, LenZero DEF Same
    <3>7. C = Begun(B) BY <3>5, <3>6 DEF Started
    <3>8. C \in Kept(S) /\ Same(B, C) /\ C.filo = B.filo /\ Visible(C.data) = Visible(B.data)
          /\ Start(C.data) = Visible(B.data)
      BY <3>4, <3>6, <3>7, BegunKept
    <3>9. Len(X.filo) = Len(D.filo) /\ \A j \in 1 .. Len(D.filo) : X.filo[j].back = D.filo[j].back
      BY <1>2, <3>2 DEF Backs
    <3> QED BY <2>1, <3>2, <3>4, <3>6, <3>8, <3>9 DEF Same
  <2>2. CASE ~D.nested
    <3>1. C = Started(A) BY <1>3, <1>5, <2>2 DEF OpenNested
    <3>2. /\ A.data \in Fine(S) /\ A \in Documents(S) /\ A.data.transaction = 0
          /\ A.filo = << >> /\ Piled(A)
      BY <1>2, <1>3, <2>2, KeptFacts DEF Shaped
    <3>3. Start(A.data) = Visible(A.data) BY <3>2, CleanStart
    <3>4. A \in Idle(S) BY <1>2, <3>2 DEF Idle
    <3>5. CASE D.limit # 0
      <4>1. C = Begun(A) BY <1>3, <3>1, <3>5 DEF Started
      <4>2. /\ C \in Kept(S) /\ Same(A, C) /\ Visible(C.data) = Visible(A.data)
            /\ C.data.transaction = 1 /\ Start(C.data) = Visible(A.data)
        BY <1>3, <2>2, <3>4, <3>5, <4>1, BegunKept
      <4> QED BY <1>2, <1>4, <2>2, <3>5, <4>2 DEF Same, Opened
    <3>6. CASE D.limit = 0
      <4>1. C = A BY <1>3, <3>1, <3>6 DEF Started
      <4>2. ~Opened(A) BY <3>2 DEF Opened
      <4> QED BY <1>2, <1>4, <2>2, <3>3, <3>6, <4>1, <4>2
    <3> QED BY <3>5, <3>6
  <2> QED BY <2>1, <2>2
<1>7. PICK E : E = Deny(C) OBVIOUS
<1>8. /\ E \in Kept(S) /\ Same(C, E) /\ E.filo = C.filo
      /\ E.data.transaction = C.data.transaction
      /\ Visible(E.data) = Visible(C.data) /\ Start(E.data) = Start(C.data)
  BY <1>6, <1>7, DenyKept
<1>9. Opened(E) <=> Opened(C) BY <1>8 DEF Opened
<1>10. E = OpenDocument(D) BY <1>1, <1>5, <1>7 DEF OpenDocument
<1>11. Same(D, E) BY <1>6, <1>8 DEF Same
<1> QED BY <1>4, <1>6, <1>8, <1>9, <1>10, <1>11

\* After a step a new command opens in the stead of those that were.
LEMMA ReopenedKept ==
    ASSUME NEW S \in SUBSET Objects, NEW D \in Idle(S), D.filo = << >>,
           NEW opened \in BOOLEAN, opened => D.limit # 0
    PROVE  LET E == Reopened(D, opened) IN
           /\ E \in Kept(S) /\ Same(D, E) /\ Visible(E.data) = Visible(D.data)
           /\ Opened(E) <=> opened
           /\ Start(E.data) = Visible(D.data)
           /\ ~(opened /\ D.nested) => E.filo = << >>
           /\ opened /\ D.nested => Len(E.filo) = 1 /\ E.filo[1].back = Visible(D.data)
<1>1. PICK C : C = IF opened THEN OpenDocument(D) ELSE D OBVIOUS
<1>2. D \in Kept(S) /\ ~Opened(D) /\ Start(D.data) = Visible(D.data) BY IdleKept, IdleFacts
<1>3. PICK c : c = Visible(D.data) OBVIOUS
<1>4. /\ C \in Kept(S) /\ Same(D, C) /\ Visible(C.data) = c
      /\ Opened(C) <=> opened
      /\ Start(C.data) = c
      /\ ~(opened /\ D.nested) => C.filo = << >>
      /\ opened /\ D.nested => Len(C.filo) = 1 /\ C.filo[1].back = c
  <2>1. CASE ~opened
    <3>1. C = D BY <1>1, <2>1
    <3> QED BY <1>2, <1>3, <2>1, <3>1 DEF Same
  <2>2. CASE opened
    <3>1. C = OpenDocument(D) BY <1>1, <2>2
    <3>2. /\ C \in Kept(S) /\ Same(D, C) /\ Visible(C.data) = c
          /\ D.nested => Len(C.filo) = Len(D.filo) + 1 /\ C.filo[1].back = c
          /\ ~D.nested => (Opened(C) <=> D.limit # 0)
          /\ Start(C.data) = c
      BY <1>2, <1>3, <3>1, OpenKept
    <3>3. C.nested = D.nested BY <3>2 DEF Same
    <3>4. CASE D.nested
      <4>1. Len(C.filo) = 1
        <5>1. Len(D.filo) = 0 BY IdleFacts, LenZero
        <5> QED BY <3>2, <3>4, <5>1
      <4>2. Opened(C)
        <5>1. C.filo # << >> BY <4>1, EmptySeq
        <5> QED BY <3>2, <3>3, <3>4, <5>1, KeptFacts DEF Shaped
      <4> QED BY <2>2, <3>2, <3>4, <4>1, <4>2
    <3>5. CASE ~D.nested
      <4>1. C.filo = << >> BY <3>2, <3>3, <3>5, KeptFacts DEF Shaped
      <4> QED BY <2>2, <3>2, <3>5, <4>1
    <3> QED BY <3>4, <3>5
  <2> QED BY <2>1, <2>2
<1>5. PICK E : E = Deny(C) OBVIOUS
<1>6. /\ E \in Kept(S) /\ Same(C, E) /\ E.filo = C.filo
      /\ E.data.transaction = C.data.transaction
      /\ Visible(E.data) = Visible(C.data) /\ Start(E.data) = Start(C.data)
  BY <1>4, <1>5, DenyKept
<1>7. Opened(E) <=> Opened(C) BY <1>6 DEF Opened
<1>8. E = Reopened(D, opened) BY <1>1, <1>5 DEF Reopened
<1>9. Same(D, E) BY <1>4, <1>6 DEF Same
<1> QED BY <1>3, <1>4, <1>6, <1>7, <1>8, <1>9

\* An undo of the last stored step, the document being idle.
LEMMA UndidIdle ==
    ASSUME NEW S \in SUBSET Objects, NEW D \in Kept(S), D.filo = << >>, ~Opened(D),
           D.undos # << >>
    PROVE  LET E == Undid(D) IN
           /\ E \in Idle(S) /\ Stays(D, E) /\ E.filo = << >>
           /\ Visible(E.data) = Last(D.undos).back
           /\ E.undos = Front(D.undos)
           /\ \E x \in Stored(S) : x.back = Visible(D.data) /\ E.redos = <<x>> \o D.redos
<1>1. PICK A : A = Allow(D) OBVIOUS
<1>2. PICK d : d = A.data OBVIOUS
<1>3. /\ A \in Kept(S) /\ Same(D, A) /\ A.filo = << >> /\ d.allow
      /\ d.transaction = D.data.transaction /\ Visible(d) = Visible(D.data)
  BY <1>1, <1>2, AllowKept
<1>4. PICK us \in Seq(Stored(S)) : us = D.undos BY KeptFacts
<1>5. PICK rs \in Seq(Stored(S)) : rs = D.redos BY KeptFacts
<1>6. /\ d \in Fine(S) /\ d.transaction = 0 /\ D \in Documents(S)
      /\ Stacks(d, << >>, us, rs, Start(d), d.time)
  BY <1>2, <1>3, <1>4, <1>5, KeptFacts DEF Piled, Same
<1>7. PICK c \in Contents : c = Visible(d) BY <1>6, FineFacts, FrameFacts, VisibleContents
<1>8. PICK t : t = d.time OBVIOUS
<1>9. us # << >> /\ Stacks(d, << >>, us, rs, c, t) BY <1>4, <1>6, <1>7, <1>8, CleanStart
<1>10. PICK y : y = Last(us) OBVIOUS
<1>11. PICK fs : fs = Front(us) OBVIOUS
<1>12. /\ y \in Stored(S) /\ Leads(d, y, c, t)
       /\ Mentions(y.parts) \cap Everything(<< >>, fs, rs) = {}
       /\ Everything(<< >>, fs, rs) \subseteq Everything(<< >>, us, rs)
       /\ ToRedone(S, d, us, rs, c, t, y, fs)
  BY <1>9, <1>10, <1>11, UndoneStacks
<1>13. PICK e : e = Undo(d, y).data OBVIOUS
<1>14. PICK x : x = Undo(d, y).delta OBVIOUS
<1>15. /\ e \in Fine(S) /\ e.transaction = 0 /\ e.allow /\ x \in Stored(S)
       /\ e.time = y.begin /\ Visible(e) = y.back
       /\ x.begin = y.end /\ x.end = y.begin /\ x.back = c
       /\ Fits(e, x.parts, y.back, c) /\ Whole(e, x.parts)
       /\ \A o \in Objects : ~d.attr[o].on /\ o \notin Mentions(y.parts) =>
                                e.attr[o] = d.attr[o]
       /\ \A o \in Mentions(x.parts) : o \in Objects /\ d.attr[o].on
  <2>1. Fits(d, y.parts, Visible(d), y.back) /\ Whole(d, y.parts) BY <1>7, <1>12 DEF Leads
  <2> QED BY <1>3, <1>6, <1>7, <1>12, <1>13, <1>14, <2>1, UndoEffect
<1>16. Stacks(e, << >>, fs, <<x>> \o rs, y.back, y.begin)
  <2>1. \A o \in Everything(<< >>, us, rs) : o \in Objects /\ ~d.attr[o].on
    <3>1. << >> \in Seq(Stored(S)) BY EmptySeq
    <3> QED BY <1>9, <3>1, EverythingOff
  <2>2. \A o \in Everything(<< >>, fs, rs) : e.attr[o] = d.attr[o] BY <1>12, <1>15, <2>1
  <2>3. Mentions(x.parts) \cap Everything(<< >>, us, rs) = {} BY <1>15, <2>1
  <2>4. x.begin = t /\ Leads(e, x, y.back, y.begin) BY <1>12, <1>15 DEF Leads
  <2> QED BY <1>12, <1>15, <2>2, <2>3, <2>4 DEF ToRedone
<1>17. PICK rs2 : rs2 = <<x>> \o rs OBVIOUS
<1>18. fs \in Seq(Stored(S)) /\ rs2 \in Seq(Stored(S))
  BY <1>9, <1>11, <1>15, <1>17, FirstOf, PushGrown
<1>19. PICK E : E = Undid(D) OBVIOUS
<1>20. Stepped(D, y) = [data |-> e, delta |-> x]
  <2>1. IsApplicable(d, y) BY <1>8, <1>12 DEF Leads, IsApplicable
  <2>2. Stepped(D, y) = Undo(d, y) BY <1>1, <1>2, <2>1 DEF Stepped, Step
  <2> QED BY <1>13, <1>14, <2>2 DEF Undo, Undone
<1>21. E = [WithData(D, e) EXCEPT !.undos = fs, !.redos = rs2]
  <2>1. E = [WithData(D, e) EXCEPT !.undos = Front(@), !.redos = <<x>> \o @]
    BY <1>4, <1>10, <1>19, <1>20 DEF Undid, ToRedos
  <2> QED BY <1>4, <1>5, <1>6, <1>11, <1>17, <2>1 DEF WithData, Documents, Drafts
<1>22. E \in Documents(S)
  <2>1. e \in Frames(S) /\ e.transaction \in {0, D.data.transaction} BY <1>15, FineFacts
  <2> QED BY <1>6, <1>18, <1>21, <2>1, MovedDocument
<1>23. /\ E.data = e /\ E.undos = fs /\ E.redos = rs2 /\ E.filo = << >>
       /\ E.limit = D.limit /\ E.nested = D.nested
  BY <1>6, <1>21 DEF WithData, Documents, Drafts
<1>24. Stacks(e, E.filo, E.undos, E.redos, Visible(e), e.time)
  BY <1>15, <1>16, <1>17, <1>23
<1>25. E \in Idle(S) BY <1>15, <1>22, <1>23, <1>24, MakeIdle
<1> QED BY <1>3, <1>4, <1>5, <1>7, <1>10, <1>11, <1>15, <1>17, <1>19, <1>23, <1>25 DEF Stays

\* A redo of the next stored step, the document being idle.
LEMMA RedidIdle ==
    ASSUME NEW S \in SUBSET Objects, NEW D \in Kept(S), D.filo = << >>, ~Opened(D),
           D.redos # << >>
    PROVE  LET E == Redid(D) IN
           /\ E \in Idle(S) /\ Stays(D, E) /\ E.filo = << >>
           /\ Visible(E.data) = Head(D.redos).back
           /\ E.redos = Tail(D.redos)
           /\ \E x \in Stored(S) : x.back = Visible(D.data) /\ E.undos = Append(D.undos, x)
<1>1. PICK A : A = Allow(D) OBVIOUS
<1>2. PICK d : d = A.data OBVIOUS
<1>3. /\ A \in Kept(S) /\ Same(D, A) /\ A.filo = << >> /\ d.allow
      /\ d.transaction = D.data.transaction /\ Visible(d) = Visible(D.data)
  BY <1>1, <1>2, AllowKept
<1>4. PICK us \in Seq(Stored(S)) : us = D.undos BY KeptFacts
<1>5. PICK rs \in Seq(Stored(S)) : rs = D.redos BY KeptFacts
<1>6. /\ d \in Fine(S) /\ d.transaction = 0 /\ D \in Documents(S)
      /\ Stacks(d, << >>, us, rs, Start(d), d.time)
  BY <1>2, <1>3, <1>4, <1>5, KeptFacts DEF Piled, Same
<1>7. PICK c \in Contents : c = Visible(d) BY <1>6, FineFacts, FrameFacts, VisibleContents
<1>8. PICK t : t = d.time OBVIOUS
<1>9. rs # << >> /\ Stacks(d, << >>, us, rs, c, t) BY <1>5, <1>6, <1>7, <1>8, CleanStart
<1>10. PICK y : y = Head(rs) OBVIOUS
<1>11. PICK ts : ts = Tail(rs) OBVIOUS
<1>12. /\ y \in Stored(S) /\ Leads(d, y, c, t)
       /\ Mentions(y.parts) \cap Everything(<< >>, us, ts) = {}
       /\ Everything(<< >>, us, ts) \subseteq Everything(<< >>, us, rs)
       /\ ToUndone(S, d, us, rs, c, t, y, ts)
  <2>1. Headless(rs, y, ts) BY <1>10, <1>11 DEF Headless
  <2> QED BY <1>9, <2>1, RedoneStacks
<1>13. PICK e : e = Undo(d, y).data OBVIOUS
<1>14. PICK x : x = Undo(d, y).delta OBVIOUS
<1>15. /\ e \in Fine(S) /\ e.transaction = 0 /\ e.allow /\ x \in Stored(S)
       /\ e.time = y.begin /\ Visible(e) = y.back
       /\ x.begin = y.end /\ x.end = y.begin /\ x.back = c
       /\ Fits(e, x.parts, y.back, c) /\ Whole(e, x.parts)
       /\ \A o \in Objects : ~d.attr[o].on /\ o \notin Mentions(y.parts) =>
                                e.attr[o] = d.attr[o]
       /\ \A o \in Mentions(x.parts) : o \in Objects /\ d.attr[o].on
  <2>1. Fits(d, y.parts, Visible(d), y.back) /\ Whole(d, y.parts) BY <1>7, <1>12 DEF Leads
  <2> QED BY <1>3, <1>6, <1>7, <1>12, <1>13, <1>14, <2>1, UndoEffect
<1>16. Stacks(e, << >>, Append(us, x), ts, y.back, y.begin)
  <2>1. \A o \in Everything(<< >>, us, rs) : o \in Objects /\ ~d.attr[o].on
    <3>1. << >> \in Seq(Stored(S)) BY EmptySeq
    <3> QED BY <1>9, <3>1, EverythingOff
  <2>2. \A o \in Everything(<< >>, us, ts) : e.attr[o] = d.attr[o] BY <1>12, <1>15, <2>1
  <2>3. Mentions(x.parts) \cap Everything(<< >>, us, rs) = {} BY <1>15, <2>1
  <2>4. x.begin = t /\ Leads(e, x, y.back, y.begin) BY <1>12, <1>15 DEF Leads
  <2> QED BY <1>12, <1>15, <2>2, <2>3, <2>4 DEF ToUndone
<1>17. PICK us2 : us2 = Append(us, x) OBVIOUS
<1>18. ts \in Seq(Stored(S)) /\ us2 \in Seq(Stored(S))
  <2>1. ts \in Seq(Stored(S)) BY <1>9, <1>11, FirstOf
  <2> QED BY <1>15, <1>17, <2>1, AppendProperties
<1>19. PICK E : E = Redid(D) OBVIOUS
<1>20. Stepped(D, y) = [data |-> e, delta |-> x]
  <2>1. IsApplicable(d, y) BY <1>8, <1>12 DEF Leads, IsApplicable
  <2>2. Stepped(D, y) = Undo(d, y) BY <1>1, <1>2, <2>1 DEF Stepped, Step
  <2> QED BY <1>13, <1>14, <2>2 DEF Undo, Undone
<1>21. E = [WithData(D, e) EXCEPT !.undos = us2, !.redos = ts]
  <2>1. E = [WithData(D, e) EXCEPT !.undos = Append(@, x), !.redos = Tail(@)]
    <3>1. y = Head(D.redos) BY <1>5, <1>10
    <3>2. E = ToUndos(D, [data |-> e, delta |-> x]) BY <1>19, <1>20, <3>1 DEF Redid
    <3> QED BY <3>2 DEF ToUndos
  <2> QED BY <1>4, <1>5, <1>6, <1>11, <1>17, <2>1 DEF WithData, Documents, Drafts
<1>22. E \in Documents(S)
  <2>1. e \in Frames(S) /\ e.transaction \in {0, D.data.transaction} BY <1>15, FineFacts
  <2> QED BY <1>6, <1>18, <1>21, <2>1, MovedDocument
<1>23. /\ E.data = e /\ E.undos = us2 /\ E.redos = ts /\ E.filo = << >>
       /\ E.limit = D.limit /\ E.nested = D.nested
  BY <1>6, <1>21 DEF WithData, Documents, Drafts
<1>24. Stacks(e, E.filo, E.undos, E.redos, Visible(e), e.time)
  BY <1>15, <1>16, <1>17, <1>23
<1>25. E \in Idle(S) BY <1>15, <1>22, <1>23, <1>24, MakeIdle
<1> QED BY <1>3, <1>4, <1>5, <1>7, <1>10, <1>11, <1>15, <1>17, <1>19, <1>23, <1>25 DEF Stays

\* An undo, whatever is open.
LEMMA UndoStepKept ==
    ASSUME NEW S \in SUBSET Objects, NEW D \in Kept(S), D.undos # << >>
    PROVE  LET E == UndoStep(D) IN
           /\ E \in Kept(S) /\ Stays(D, E) /\ (Opened(E) <=> Opened(D))
           /\ Visible(E.data) = Last(D.undos).back /\ Start(E.data) = Last(D.undos).back
           /\ E.undos = Front(D.undos)
           /\ \E x \in Stored(S) : /\ x.back = Foot(D.filo, Start(D.data))
                                   /\ E.redos = <<x>> \o D.redos
           /\ ~(Opened(D) /\ D.nested) => E.filo = << >>
           /\ Opened(D) /\ D.nested => Len(E.filo) = 1 /\ E.filo[1].back = Last(D.undos).back
<1>1. PICK A : A = AllAborted(D) OBVIOUS
<1>2. /\ A \in Kept(S) /\ Same(D, A) /\ A.filo = << >> /\ ~Opened(A)
      /\ Visible(A.data) = Foot(D.filo, Start(D.data))
  BY <1>1, AllAbortedKept
<1>3. PICK B : B = Undid(A) OBVIOUS
<1>4. A.undos = D.undos /\ A.redos = D.redos /\ A.limit = D.limit /\ A.nested = D.nested
  BY <1>2 DEF Same
<1>5. A.undos # << >> BY <1>4
<1>6. /\ B \in Idle(S) /\ Stays(A, B) /\ B.filo = << >>
      /\ Visible(B.data) = Last(A.undos).back
      /\ B.undos = Front(A.undos)
      /\ \E x \in Stored(S) : x.back = Visible(A.data) /\ B.redos = <<x>> \o A.redos
  BY <1>2, <1>3, <1>5, UndidIdle
<1>7. PICK opened \in BOOLEAN : opened = Opened(D) BY DEF Opened
<1>8. opened => B.limit # 0 BY <1>4, <1>6, <1>7, KeptFacts DEF Tuned, Stays
<1>9. PICK E : E = Reopened(B, opened) OBVIOUS
<1>10. /\ E \in Kept(S) /\ Same(B, E) /\ Visible(E.data) = Visible(B.data)
       /\ (Opened(E) <=> opened)
       /\ Start(E.data) = Visible(B.data)
       /\ (~(opened /\ B.nested) => E.filo = << >>)
       /\ (opened /\ B.nested => Len(E.filo) = 1 /\ E.filo[1].back = Visible(B.data))
  BY <1>6, <1>8, <1>9, ReopenedKept
<1>11. E = UndoStep(D) BY <1>1, <1>3, <1>7, <1>9 DEF UndoStep
<1>12. B.nested = D.nested /\ B.limit = D.limit BY <1>4, <1>6 DEF Stays
<1>13. E.undos = B.undos /\ E.redos = B.redos /\ Stays(D, E) BY <1>10, <1>12 DEF Same, Stays
<1> QED BY <1>2, <1>4, <1>6, <1>7, <1>10, <1>11, <1>12, <1>13

\* A redo, whatever is open.
LEMMA RedoStepKept ==
    ASSUME NEW S \in SUBSET Objects, NEW D \in Kept(S), D.redos # << >>
    PROVE  LET E == RedoStep(D) IN
           /\ E \in Kept(S) /\ Stays(D, E) /\ (Opened(E) <=> Opened(D))
           /\ Visible(E.data) = Head(D.redos).back /\ Start(E.data) = Head(D.redos).back
           /\ E.redos = Tail(D.redos)
           /\ \E x \in Stored(S) : /\ x.back = Foot(D.filo, Start(D.data))
                                   /\ E.undos = Append(D.undos, x)
           /\ ~(Opened(D) /\ D.nested) => E.filo = << >>
           /\ Opened(D) /\ D.nested => Len(E.filo) = 1 /\ E.filo[1].back = Head(D.redos).back
<1>1. PICK A : A = AllAborted(D) OBVIOUS
<1>2. /\ A \in Kept(S) /\ Same(D, A) /\ A.filo = << >> /\ ~Opened(A)
      /\ Visible(A.data) = Foot(D.filo, Start(D.data))
  BY <1>1, AllAbortedKept
<1>3. PICK B : B = Redid(A) OBVIOUS
<1>4. A.undos = D.undos /\ A.redos = D.redos /\ A.limit = D.limit /\ A.nested = D.nested
  BY <1>2 DEF Same
<1>5. A.redos # << >> BY <1>4
<1>6. /\ B \in Idle(S) /\ Stays(A, B) /\ B.filo = << >>
      /\ Visible(B.data) = Head(A.redos).back
      /\ B.redos = Tail(A.redos)
      /\ \E x \in Stored(S) : x.back = Visible(A.data) /\ B.undos = Append(A.undos, x)
  BY <1>2, <1>3, <1>5, RedidIdle
<1>7. PICK opened \in BOOLEAN : opened = Opened(D) BY DEF Opened
<1>8. opened => B.limit # 0 BY <1>4, <1>6, <1>7, KeptFacts DEF Tuned, Stays
<1>9. PICK E : E = Reopened(B, opened) OBVIOUS
<1>10. /\ E \in Kept(S) /\ Same(B, E) /\ Visible(E.data) = Visible(B.data)
       /\ (Opened(E) <=> opened)
       /\ Start(E.data) = Visible(B.data)
       /\ (~(opened /\ B.nested) => E.filo = << >>)
       /\ (opened /\ B.nested => Len(E.filo) = 1 /\ E.filo[1].back = Visible(B.data))
  BY <1>6, <1>8, <1>9, ReopenedKept
<1>11. E = RedoStep(D) BY <1>1, <1>3, <1>7, <1>9 DEF RedoStep
<1>12. B.nested = D.nested /\ B.limit = D.limit BY <1>4, <1>6 DEF Stays
<1>13. E.undos = B.undos /\ E.redos = B.redos /\ Stays(D, E) BY <1>10, <1>12 DEF Same, Stays
<1> QED BY <1>2, <1>4, <1>6, <1>7, <1>10, <1>11, <1>12, <1>13

-----------------------------------------------------------------------------
\* The lists shortened where they lead to last, and the marks changed.
LEMMA ThinKept ==
    ASSUME NEW S \in SUBSET Objects, NEW D \in Kept(S), NEW E \in Documents(S),
           E.data = D.data, E.filo = D.filo, Stays(D, E),
           NEW k, Slice(E.undos, D.undos, k), Len(E.undos) + k = Len(D.undos),
           Slice(E.redos, D.redos, 0)
    PROVE  E \in Kept(S)
<1>1. PICK d : d = D.data OBVIOUS
<1>2. PICK f : f = D.filo OBVIOUS
<1>3. PICK us : us = D.undos OBVIOUS
<1>4. PICK rs : rs = D.redos OBVIOUS
<1>5. PICK vs : vs = E.undos OBVIOUS
<1>6. PICK qs : qs = E.redos OBVIOUS
<1>7. Stacks(d, f, us, rs, Start(d), d.time) BY <1>1, <1>2, <1>3, <1>4, KeptFacts DEF Piled
<1>8. Slice(vs, us, k) /\ Len(vs) + k = Len(us) /\ Slice(qs, rs, 0)
  BY <1>3, <1>4, <1>5, <1>6
<1>9. Stacks(d, f, vs, qs, Start(d), d.time) BY <1>7, <1>8, Thinned
<1>10. Piled(E) BY <1>1, <1>2, <1>5, <1>6, <1>9 DEF Piled
<1>11. D.data \in Fine(S) /\ Tuned(D) /\ Spares(D.data, D.filo) /\ Shaped(D) BY KeptFacts
<1>12. Tuned(E) /\ Shaped(E) BY <1>11 DEF Tuned, Shaped, Stays, Opened
<1> QED BY <1>10, <1>11, <1>12 DEF Kept

\* The invariant: what is stored leads back to what it promises.
Keeping == doc \in Kept(Slotted(doc.data))

\* What a stored delta refers to is held.
LEMMA NamedHeld ==
    ASSUME NEW S, NEW f \in Seq(Stored(S)), NEW o \in Named(f)
    PROVE  \E delta \in Range(f) : \E p \in delta.parts : p.obj = o
<1>1. PICK i \in 1 .. Len(f) : o \in Mentions(f[i].parts) BY DEF Named
<1>2. f[i] \in Range(f)
  <2>1. DOMAIN f = 1 .. Len(f) BY LenProperties
  <2> QED BY <2>1 DEF Range
<1> QED BY <1>1, <1>2 DEF Mentions, Removals

LEMMA EverythingHeld ==
    ASSUME NEW S, NEW D \in Documents(S),
           NEW o \in Objects, o \in Everything(D.filo, D.undos, D.redos)
    PROVE  o \in Held(D)
<1>1. /\ D.undos \in Seq(Stored(S)) /\ D.redos \in Seq(Stored(S)) /\ D.filo \in Seq(Stored(S))
  BY DEF Documents, Drafts
<1>2. \E delta \in Deltas(D) : \E p \in delta.parts : p.obj = o
  <2>1. CASE o \in Named(D.filo) BY <1>1, <2>1, NamedHeld DEF Deltas
  <2>2. CASE o \in Named(D.undos) BY <1>1, <2>2, NamedHeld DEF Deltas
  <2>3. CASE o \in Named(D.redos) BY <1>1, <2>3, NamedHeld DEF Deltas
  <2> QED BY <2>1, <2>2, <2>3 DEF Everything
<1> QED BY <1>2 DEF Held

\* Of the objects that nothing holds nothing remains.
LEMMA RecycledSeen ==
    ASSUME NEW d, NEW e, \A o \in Objects : e.attr[o].on <=> d.attr[o].on,
           \A o \in Objects : d.attr[o].on => e.attr[o] = d.attr[o]
    PROVE  Visible(e) = Visible(d) /\ Start(e) = Start(d)
<1>1. ASSUME NEW s PROVE Find(e, s) = Find(d, s) /\ Prior(e, s) = Prior(d, s)
  BY DEF Find, Prior
<1>2. ASSUME NEW s \in Slots PROVE Visible(e)[s] = Visible(d)[s]
  <2>1. PICK F : F = Find(d, s) OBVIOUS
  <2>2. Find(e, s) = F BY <1>1, <2>1
  <2>3. \A o \in F : e.attr[o] = d.attr[o] BY <2>1 DEF Find
  <2>4. F # {} => (CHOOSE o \in F : TRUE) \in F OBVIOUS
  <2> QED BY <2>1, <2>2, <2>3, <2>4 DEF Visible
<1>3. ASSUME NEW s \in Slots PROVE Start(e)[s] = Start(d)[s]
  <2>1. PICK F : F = Prior(d, s) OBVIOUS
  <2>2. Prior(e, s) = F BY <1>1, <2>1
  <2>3. \A o \in F : e.attr[o] = d.attr[o] BY <2>1 DEF Prior
  <2>4. F # {} => (CHOOSE o \in F : TRUE) \in F OBVIOUS
  <2> QED BY <2>1, <2>2, <2>3, <2>4 DEF Start
<1>4. Visible(e) = Visible(d)
  <2>1. Visible(e) = [s \in Slots |-> Visible(e)[s]] BY DEF Visible
  <2>2. Visible(d) = [s \in Slots |-> Visible(d)[s]] BY DEF Visible
  <2> QED BY <1>2, <2>1, <2>2
<1>5. Start(e) = Start(d)
  <2>1. Start(e) = [s \in Slots |-> Start(e)[s]] BY DEF Start
  <2>2. Start(d) = [s \in Slots |-> Start(d)[s]] BY DEF Start
  <2> QED BY <1>3, <2>1, <2>2
<1> QED BY <1>4, <1>5

\* What a call leaves, the document keeps.
LEMMA BecomeKept ==
    ASSUME NEW S \in SUBSET Objects, NEW D \in Kept(S), Become(D)
    PROVE  /\ Keeping'
           /\ doc'.undos = D.undos /\ doc'.redos = D.redos /\ doc'.filo = D.filo
           /\ doc'.nested = D.nested /\ doc'.limit = D.limit
           /\ doc'.data.transaction = D.data.transaction /\ doc'.data.was = D.data.was
           /\ doc'.data.fault = "none"
           /\ Visible(doc'.data) = Visible(D.data) /\ Start(doc'.data) = Start(D.data)
<1>1. D \in Documents(S) /\ D.data \in Fine(S) BY KeptFacts
<1>2. PICK H : H = Held(D) OBVIOUS
<1>3. PICK attr : attr = [o \in Objects |-> IF o \in H THEN D.data.attr[o] ELSE NoAttribute]
  OBVIOUS
<1>4. PICK c : c = D.data OBVIOUS
<1>5. PICK d : d = [c EXCEPT !.attr = attr] OBVIOUS
<1>6. c \in Framework /\ c \in Fine(S) /\ c.fault = "none" BY <1>1, <1>4, FineFacts, FrameFacts
<1>7. /\ d.attr = attr /\ d.transaction = c.transaction /\ d.begin = c.begin
      /\ d.time = c.time /\ d.allow = c.allow /\ d.was = c.was /\ d.fault = c.fault
  BY <1>5, <1>6 DEF Framework
<1>8. PICK E : E = doc' OBVIOUS
<1>9. E = [D EXCEPT !.data = d]
  BY <1>1, <1>2, <1>3, <1>4, <1>5, <1>8 DEF Become, Documents, Drafts
<1>10. /\ E.data = d /\ E.undos = D.undos /\ E.redos = D.redos /\ E.filo = D.filo
       /\ E.nested = D.nested /\ E.limit = D.limit
  BY <1>1, <1>9 DEF Documents, Drafts
<1>11. PICK T : T = Slotted(d) OBVIOUS
<1>12. E \in Documents(T) /\ T \in SUBSET Objects
  <2>1. Inv' BY <1>1, BecomeInv
  <2>2. doc' \in Documents(Slotted(doc'.data)) BY <2>1 DEF Inv
  <2> QED BY <1>8, <1>10, <1>11, <2>2, SlottedObjects
<1>13. \A o \in Objects : c.attr[o].on => o \in H BY <1>2, <1>4 DEF Held
<1>14. \A o \in Objects : d.attr[o] = IF o \in H THEN c.attr[o] ELSE NoAttribute
  BY <1>3, <1>4, <1>7
<1>15. /\ \A o \in Objects : d.attr[o].on <=> c.attr[o].on
       /\ \A o \in Objects : c.attr[o].on => d.attr[o] = c.attr[o]
  BY <1>13, <1>14 DEF NoAttribute
<1>16. Visible(d) = Visible(c) /\ Start(d) = Start(c) BY <1>15, RecycledSeen
<1>17. d \in Fine(T)
  <2>1. d \in Frames(T) BY <1>10, <1>12, DocumentFacts
  <2>2. Distinct(d)
    <3>1. Distinct(c) BY <1>6, FineFacts
    <3> QED BY <1>15, <3>1 DEF Distinct
  <2>3. Valued(d)
    <3> SUFFICES ASSUME NEW o \in Objects, d.attr[o].slot \in Slots
                 PROVE  d.attr[o].val \in Values
      BY DEF Valued
    <3>1. o \in H BY <1>14, TreeAssumption DEF NoAttribute
    <3>2. Valued(c) /\ d.attr[o] = c.attr[o] BY <1>6, <1>14, <3>1, FineFacts
    <3> QED BY <3>2 DEF Valued
  <2> QED BY <1>6, <1>7, <2>1, <2>2, <2>3 DEF Fine
<1>18. PICK f \in Seq(Stored(S)) : f = D.filo BY KeptFacts
<1>19. PICK us \in Seq(Stored(S)) : us = D.undos BY KeptFacts
<1>20. PICK rs \in Seq(Stored(S)) : rs = D.redos BY KeptFacts
<1>21. PICK b : b = Start(c) OBVIOUS
<1>22. Stacks(c, f, us, rs, b, c.time)
  BY <1>4, <1>18, <1>19, <1>20, <1>21, KeptFacts DEF Piled
<1>23. Stacks(d, f, us, rs, b, c.time)
  <2>1. \A o \in Everything(f, us, rs) : d.attr[o] = c.attr[o]
    <3> SUFFICES ASSUME NEW o \in Everything(f, us, rs) PROVE d.attr[o] = c.attr[o] OBVIOUS
    <3>1. o \in Objects BY <1>22, EverythingOff
    <3>2. o \in H BY <1>1, <1>2, <1>18, <1>19, <1>20, <3>1, EverythingHeld
    <3> QED BY <1>14, <3>1, <3>2
  <2>2. Len(f) \in Nat /\ Len(us) \in Nat /\ Len(rs) \in Nat BY LenProperties
  <2> QED BY <1>22, <2>1, <2>2, StacksOver
<1>24. Piled(E) BY <1>7, <1>10, <1>16, <1>18, <1>19, <1>20, <1>21, <1>23 DEF Piled
<1>25. Tuned(D) /\ Spares(D.data, D.filo) /\ Shaped(D) BY KeptFacts
<1>26. Tuned(E) /\ Shaped(E) BY <1>4, <1>7, <1>10, <1>16, <1>25 DEF Tuned, Shaped, Opened
<1>27. Spares(E.data, E.filo) BY <1>4, <1>10, <1>15, <1>25 DEF Spares
<1>28. E \in Kept(T) BY <1>10, <1>12, <1>17, <1>24, <1>26, <1>27 DEF Kept
<1>29. Keeping' BY <1>8, <1>10, <1>11, <1>28 DEF Keeping
<1> QED BY <1>4, <1>6, <1>7, <1>8, <1>10, <1>16, <1>29

-----------------------------------------------------------------------------
(* The lists edited.                                                         *)

LEMMA KeepingFacts ==
    ASSUME Keeping, NEW S, S = Slotted(doc.data)
    PROVE  S \in SUBSET Objects /\ doc \in Kept(S) /\ doc \in Documents(S)
BY SlottedObjects, KeptFacts DEF Keeping

\* The same commands open, ...
Alongside(D, E) == /\ E.filo = D.filo /\ E.nested = D.nested
                   /\ (Opened(E) <=> Opened(D)) /\ Start(E.data) = Start(D.data)

\* ... the document seen as it was, and the far ends of both lists dropped, but
\* for marks.
Shortened(D, E, k) == /\ Alongside(D, E) /\ Visible(E.data) = Visible(D.data)
                      /\ Slice(E.undos, D.undos, k) /\ Len(E.undos) + k = Len(D.undos)
                      /\ Slice(E.redos, D.redos, 0)

\* Dropped once, and again.
LEMMA SliceTwice ==
    ASSUME NEW f, NEW g, NEW h, NEW k, NEW j, Slice(g, f, k), Slice(h, g, j)
    PROVE  Slice(h, f, j + k)
<1>1. PICK n \in Nat : n = Len(h) BY DEF Slice
<1>2. PICK m \in Nat : m = Len(g) BY DEF Slice
<1>3. /\ j \in Nat /\ k \in Nat /\ n + j =< m /\ Len(f) \in Nat /\ m + k =< Len(f)
  BY <1>1, <1>2 DEF Slice
<1>4. \A i \in 1 .. n : Twin(h[i], f[i + (j + k)])
  <2> SUFFICES ASSUME NEW i \in 1 .. n PROVE Twin(h[i], f[i + (j + k)]) OBVIOUS
  <2>1. PICK l \in 1 .. m : l = i + j BY <1>3
  <2>2. Twin(h[i], g[l]) BY <1>1, <2>1 DEF Slice
  <2>3. Twin(g[l], f[l + k]) BY <1>2 DEF Slice
  <2>4. l + k = i + (j + k) BY <1>3, <2>1
  <2> QED BY <2>2, <2>3, <2>4 DEF Twin
<1> QED BY <1>1, <1>2, <1>3, <1>4 DEF Slice

\* The lists and the marks replaced.
LEMMA EditedKept ==
    ASSUME NEW S \in SUBSET Objects, NEW D \in Kept(S),
           NEW undos \in Seq(Stored(S)), NEW redos \in Seq(Stored(S)),
           NEW k, Slice(undos, D.undos, k), Len(undos) + k = Len(D.undos),
           Slice(redos, D.redos, 0),
           NEW from \in BOOLEAN, NEW fromRedo \in BOOLEAN
    PROVE  LET E == [D EXCEPT !.undos = undos, !.redos = redos, !.from = from,
                              !.fromRedo = fromRedo] IN
           E \in Kept(S) /\ Shortened(D, E, k)
<1>1. PICK E : E = [D EXCEPT !.undos = undos, !.redos = redos, !.from = from,
                             !.fromRedo = fromRedo]
  OBVIOUS
<1>2. D \in Documents(S) BY KeptFacts
<1>3. E \in Documents(S) /\ Stays(D, E) BY <1>1, <1>2, EditedDocument
<1>4. E.undos = undos /\ E.redos = redos /\ E.data = D.data /\ E.filo = D.filo
  BY <1>1, <1>2 DEF Documents, Drafts
<1>5. Slice(E.undos, D.undos, k) /\ Len(E.undos) + k = Len(D.undos)
      /\ Slice(E.redos, D.redos, 0)
  BY <1>4
<1>6. E \in Kept(S) BY <1>3, <1>4, <1>5, ThinKept
<1>7. Shortened(D, E, k) BY <1>3, <1>4, <1>5 DEF Shortened, Alongside, Stays, Opened
<1> QED BY <1>1, <1>6, <1>7

\* The whole of a list, or nothing of it.
LEMMA WholeSlice ==
    ASSUME NEW X, NEW f \in Seq(X)
    PROVE  /\ Slice(f, f, 0) /\ Len(f) + 0 = Len(f) /\ Len(f) \in Nat
           /\ Slice(<< >>, f, 0) /\ Slice(<< >>, f, Len(f)) /\ Len(<< >>) + Len(f) = Len(f)
<1>1. Len(f) \in Nat /\ Len(<< >>) = 0 BY LenProperties, EmptySeq
<1> QED BY <1>1, EmptySlice DEF Slice, Twin

LEMMA ClearsMade ==
    ASSUME Keeping, ClearUndos \/ ClearRedos \/ RemoveFirstUndo
    PROVE  \E S \in SUBSET Objects : \E E \in Kept(S) :
              doc \in Kept(S) /\ Become(E) /\ \E k : Shortened(doc, E, k)
<1>1. PICK S : S = Slotted(doc.data) OBVIOUS
<1>2. S \in SUBSET Objects /\ doc \in Kept(S) /\ doc \in Documents(S) BY <1>1, KeepingFacts
<1>3. PICK us \in Seq(Stored(S)) : us = doc.undos BY <1>2, KeptFacts
<1>4. PICK rs \in Seq(Stored(S)) : rs = doc.redos BY <1>2, KeptFacts
<1>5. PICK from \in BOOLEAN : from = doc.from BY <1>2, DocumentFacts
<1>6. PICK fromRedo \in BOOLEAN : fromRedo = doc.fromRedo BY <1>2, DocumentFacts
<1>7. << >> \in Seq(Stored(S)) /\ FALSE \in BOOLEAN BY EmptySeq
<1>8. PICK e : e = << >> OBVIOUS
<1>9. PICK no \in BOOLEAN : no = FALSE OBVIOUS
<1>10. PICK n : n = Len(us) OBVIOUS
<1>11. /\ Slice(us, us, 0) /\ Len(us) + 0 = Len(us) /\ Slice(rs, rs, 0)
       /\ Slice(e, us, n) /\ Len(e) + n = Len(us) /\ Slice(e, rs, 0)
       /\ e \in Seq(Stored(S))
  BY <1>7, <1>8, <1>10, WholeSlice
<1>12. CASE ClearUndos
  <2>1. PICK E : E = [doc EXCEPT !.undos = e, !.redos = e, !.from = no, !.fromRedo = no]
    OBVIOUS
  <2>2. E \in Kept(S) /\ Shortened(doc, E, n)
    BY <1>2, <1>3, <1>4, <1>11, <2>1, EditedKept
  <2>3. Become(E) BY <1>8, <1>9, <1>12, <2>1 DEF ClearUndos
  <2> QED BY <1>2, <2>2, <2>3
<1>13. CASE ClearRedos
  <2>1. PICK E : E = [doc EXCEPT !.undos = us, !.redos = e, !.from = from, !.fromRedo = no]
    OBVIOUS
  <2>2. E \in Kept(S) /\ Shortened(doc, E, 0)
    BY <1>2, <1>3, <1>4, <1>11, <2>1, EditedKept
  <2>3. E = [doc EXCEPT !.redos = << >>, !.fromRedo = FALSE]
    BY <1>2, <1>3, <1>5, <1>8, <1>9, <2>1 DEF Documents, Drafts
  <2>4. Become(E) BY <1>13, <2>3 DEF ClearRedos
  <2> QED BY <1>2, <2>2, <2>4
<1>14. CASE RemoveFirstUndo
  <2>1. us # << >> BY <1>3, <1>14 DEF RemoveFirstUndo
  <2>2. PICK g : g = Tail(us) OBVIOUS
  <2>3. g \in Seq(Stored(S)) /\ Slice(g, us, 1) /\ Len(g) + 1 = Len(us)
    BY <2>1, <2>2, TailSlice, FirstOf
  <2>4. PICK E : E = [doc EXCEPT !.undos = g, !.redos = rs, !.from = from,
                                 !.fromRedo = fromRedo]
    OBVIOUS
  <2>5. E \in Kept(S) /\ Shortened(doc, E, 1)
    BY <1>2, <1>3, <1>4, <1>11, <2>3, <2>4, EditedKept
  <2>6. E = [doc EXCEPT !.undos = Tail(@)]
    BY <1>2, <1>3, <1>4, <1>5, <1>6, <2>2, <2>4 DEF Documents, Drafts
  <2>7. Become(E) BY <1>14, <2>6 DEF RemoveFirstUndo
  <2> QED BY <1>2, <2>5, <2>7
<1> QED BY <1>12, <1>13, <1>14

\* The last elements of a list.
Lasts(g, f, n, k) == g = SubSeq(f, k + 1, n)

LEMMA SuffixSlice ==
    ASSUME NEW X, NEW f \in Seq(X), NEW n \in Nat, n = Len(f), NEW k \in 0 .. n,
           NEW g, Lasts(g, f, n, k)
    PROVE  g \in Seq(X) /\ Slice(g, f, k) /\ Len(g) + k = Len(f)
<1>0. g = SubSeq(f, k + 1, n) BY DEF Lasts
<1>1. k \in Nat /\ k + 1 \in Int /\ n \in Int /\ n - k \in Nat OBVIOUS
<1>2. PICK m \in Nat : m = n - k BY <1>1
<1>3. m + k = n /\ n - (k + 1) + 1 = m /\ (k + 1 =< n <=> m # 0) BY <1>1, <1>2
<1>4. \A i \in k + 1 .. n : f[i] \in X
  <2>1. \A i \in 1 .. n : f[i] \in X BY ElementOfSeq
  <2> QED BY <1>1, <2>1
<1>5. PICK h : h = SubSeq(f, k + 1, n) OBVIOUS
<1>6. /\ h \in Seq(X) /\ Len(h) = (IF k + 1 <= n THEN n - (k + 1) + 1 ELSE 0)
      /\ \A i \in 1 .. n - (k + 1) + 1 : h[i] = f[(k + 1) + i - 1]
  BY <1>1, <1>4, <1>5, SubSeqProperties
<1>7. Len(h) = m BY <1>3, <1>6
<1>8. \A i \in 1 .. m : h[i] = f[i + k]
  <2> SUFFICES ASSUME NEW i \in 1 .. m PROVE h[i] = f[i + k] OBVIOUS
  <2>1. (k + 1) + i - 1 = i + k BY <1>1
  <2>2. i \in 1 .. n - (k + 1) + 1 BY <1>3
  <2> QED BY <1>6, <2>1, <2>2
<1>9. Slice(h, f, k) BY <1>1, <1>3, <1>7, <1>8 DEF Slice, Twin
<1> QED BY <1>0, <1>3, <1>5, <1>6, <1>7, <1>9

\* The first elements of a list.
LEMMA PrefixSlice ==
    ASSUME NEW X, NEW f \in Seq(X), NEW m \in 0 .. Len(f), NEW g, g = SubSeq(f, 1, m)
    PROVE  g \in Seq(X) /\ Slice(g, f, 0) /\ Len(g) = m
<1>1. Len(f) \in Nat /\ m \in Nat /\ m =< Len(f) BY LenProperties
<1>2. \A i \in 1 .. m : f[i] \in X
  <2>1. \A i \in 1 .. Len(f) : f[i] \in X BY ElementOfSeq
  <2> QED BY <1>1, <2>1
<1>3. g \in Seq(X) BY <1>1, <1>2, SubSeqProperties
<1>4. Len(g) = m
  <2>1. Len(g) = IF 1 <= m THEN m - 1 + 1 ELSE 0 BY <1>1, <1>2, SubSeqProperties
  <2> QED BY <1>1, <2>1
<1>5. \A i \in 1 .. m : g[i] = f[i]
  <2> SUFFICES ASSUME NEW i \in 1 .. m PROVE g[i] = f[i] OBVIOUS
  <2>1. \A j \in 1 .. Len(g) : g[j] = f[1 + j - 1] BY <1>1, <1>2, SubSeqProperties
  <2> QED BY <1>1, <1>4, <2>1
<1> QED BY <1>1, <1>3, <1>4, <1>5 DEF Slice, Twin

\* The oldest undos dropped.
LEMMA LimitedKept ==
    ASSUME NEW S \in SUBSET Objects, NEW D \in Kept(S)
    PROVE  Limited(D) \in Kept(S) /\ \E k : Shortened(D, Limited(D), k)
<1>1. PICK us \in Seq(Stored(S)) : us = D.undos BY KeptFacts
<1>2. PICK rs \in Seq(Stored(S)) : rs = D.redos BY KeptFacts
<1>3. D \in Documents(S) /\ D.limit \in Nat BY KeptFacts, DocumentFacts
<1>4. PICK n \in Nat : n = Len(us) BY LenProperties
<1>5. PICK k \in 0 .. n : k = IF n > D.limit THEN n - D.limit ELSE 0 BY <1>3
<1>7. PICK g : g = SubSeq(us, k + 1, n) OBVIOUS
<1>8. g \in Seq(Stored(S)) /\ Slice(g, us, k) /\ Len(g) + k = Len(us)
  <2>1. Lasts(g, us, n, k) BY <1>7 DEF Lasts
  <2> QED BY <1>4, <2>1, SuffixSlice
<1>9. PICK from \in BOOLEAN : from = D.from BY <1>3, DocumentFacts
<1>10. PICK fromRedo \in BOOLEAN : fromRedo = D.fromRedo BY <1>3, DocumentFacts
<1>11. Slice(rs, rs, 0) BY WholeSlice
<1>12. PICK E : E = [D EXCEPT !.undos = g, !.redos = rs, !.from = from,
                              !.fromRedo = fromRedo]
  OBVIOUS
<1>13. E \in Kept(S) /\ Shortened(D, E, k) BY <1>1, <1>2, <1>8, <1>11, <1>12, EditedKept
<1>14. Limited(D) = [D EXCEPT !.undos = g]
  BY <1>1, <1>4, <1>5, <1>7 DEF Limited
<1>15. E = [D EXCEPT !.undos = g]
  BY <1>2, <1>3, <1>9, <1>10, <1>12 DEF Documents, Drafts
<1> QED BY <1>13, <1>14, <1>15

\* The limit replaced, when no transaction is open but nested ones.
LEMMA LimitKept ==
    ASSUME NEW S \in SUBSET Objects, NEW D \in Kept(S), ~D.nested => ~Opened(D),
           NEW L \in Nat, D.nested => L # 0
    PROVE  LET E == [D EXCEPT !.limit = L] IN
           /\ E \in Kept(S) /\ E.data = D.data /\ E.filo = D.filo /\ E.nested = D.nested
           /\ E.undos = D.undos /\ E.redos = D.redos
<1>1. PICK E : E = [D EXCEPT !.limit = L] OBVIOUS
<1>2. D \in Documents(S) BY KeptFacts
<1>3. /\ E.data = D.data /\ E.undos = D.undos /\ E.redos = D.redos /\ E.filo = D.filo
      /\ E.nested = D.nested /\ E.limit = L
  BY <1>1, <1>2 DEF Documents, Drafts
<1>4. E \in Documents(S) BY <1>1, <1>2, <1>3 DEF Documents, Drafts
<1>5. Piled(E)
  <2>1. Piled(D) BY KeptFacts
  <2> QED BY <1>3, <2>1 DEF Piled
<1>6. D.data \in Fine(S) /\ Tuned(D) /\ Spares(D.data, D.filo) /\ Shaped(D) BY KeptFacts
<1>7. Tuned(E) /\ Shaped(E) BY <1>3, <1>6 DEF Tuned, Shaped, Opened
<1> QED BY <1>1, <1>3, <1>4, <1>5, <1>6, <1>7 DEF Kept

LEMMA SetUndoLimitMade ==
    ASSUME Keeping, NEW L \in Limits, SetUndoLimit(L)
    PROVE  \E S \in SUBSET Objects : \E A \in Kept(S), E \in Kept(S) :
              /\ doc \in Kept(S) /\ Become(E)
              /\ \E k : Shortened(CommitTransaction(A), E, k)
              /\ Alongside(doc, A) /\ Visible(A.data) = Visible(doc.data)
              /\ A.undos = doc.undos /\ A.redos = doc.redos
<1>1. PICK S : S = Slotted(doc.data) OBVIOUS
<1>2. S \in SUBSET Objects /\ doc \in Kept(S) /\ doc \in Documents(S) BY <1>1, KeepingFacts
<1>3. PICK A : A = [doc EXCEPT !.from = FALSE, !.fromRedo = FALSE] OBVIOUS
<1>4. PICK D : D = CommitTransaction(A) OBVIOUS
<1>5. PICK n : n = Clamped(L) OBVIOUS
<1>6. PICK E : E = [D EXCEPT !.limit = n] OBVIOUS
<1>7. (doc.nested => L > 0) /\ Become(Deny(Limited(E)))
  BY <1>3, <1>4, <1>5, <1>6 DEF SetUndoLimit
<1>8. n \in Nat /\ (doc.nested => n # 0) BY <1>5, <1>7, DocumentAssumption DEF Clamped
<1>9. /\ A \in Kept(S) /\ A.nested = doc.nested /\ A.data = doc.data /\ A.filo = doc.filo
      /\ A.undos = doc.undos /\ A.redos = doc.redos
  <2>1. PICK us \in Seq(Stored(S)) : us = doc.undos BY <1>2, KeptFacts
  <2>2. PICK rs \in Seq(Stored(S)) : rs = doc.redos BY <1>2, KeptFacts
  <2>3. PICK no \in BOOLEAN : no = FALSE OBVIOUS
  <2>4. Slice(us, us, 0) /\ Len(us) + 0 = Len(us) /\ Slice(rs, rs, 0) BY WholeSlice
  <2>5. PICK B : B = [doc EXCEPT !.undos = us, !.redos = rs, !.from = no, !.fromRedo = no]
    OBVIOUS
  <2>6. B \in Kept(S) BY <1>2, <2>1, <2>2, <2>4, <2>5, EditedKept
  <2>7. A = B BY <1>2, <1>3, <2>1, <2>2, <2>3, <2>5 DEF Documents, Drafts
  <2>8. /\ A.nested = doc.nested /\ A.data = doc.data /\ A.filo = doc.filo
        /\ A.undos = doc.undos /\ A.redos = doc.redos
    BY <1>2, <1>3 DEF Documents, Drafts
  <2> QED BY <2>6, <2>7, <2>8
<1>10. D \in Kept(S) /\ D.nested = doc.nested /\ (~D.nested => ~Opened(D))
  BY <1>2, <1>4, <1>9, CommitKept DEF Stays
<1>11. /\ E \in Kept(S) /\ E.data = D.data /\ E.filo = D.filo /\ E.nested = D.nested
       /\ E.undos = D.undos /\ E.redos = D.redos
  BY <1>2, <1>6, <1>8, <1>10, LimitKept
<1>12. PICK F : F = Limited(E) OBVIOUS
<1>13. F \in Kept(S) BY <1>2, <1>11, <1>12, LimitedKept
<1>14. PICK k : Shortened(E, F, k) BY <1>2, <1>11, <1>12, LimitedKept
<1>15. PICK G : G = Deny(F) OBVIOUS
<1>16. /\ G \in Kept(S) /\ Same(F, G) /\ G.filo = F.filo
       /\ G.data.transaction = F.data.transaction
       /\ Visible(G.data) = Visible(F.data) /\ Start(G.data) = Start(F.data)
  BY <1>2, <1>13, <1>15, DenyKept
<1>17. Opened(G) <=> Opened(F) BY <1>16 DEF Opened
<1>18. Shortened(D, G, k)
  BY <1>11, <1>14, <1>16, <1>17 DEF Shortened, Alongside, Same, Opened
<1>19. Alongside(doc, A) BY <1>9 DEF Alongside, Opened
<1>20. Become(G) BY <1>7, <1>12, <1>15
<1> QED BY <1>2, <1>4, <1>9, <1>16, <1>18, <1>19, <1>20

\* The marks taken off.
LEMMA UnmarkedAlike ==
    ASSUME NEW S, NEW f \in Seq(Stored(S))
    PROVE  LET g == Unmarked(f) IN g \in Seq(Stored(S)) /\ Alike(g, f)
<1>1. PICK g : g = Unmarked(f) OBVIOUS
<1>2. g \in Seq(Stored(S)) /\ Len(g) = Len(f) /\ Len(f) \in Nat
  BY <1>1, UnmarkedStored, LenProperties
<1>3. DOMAIN f = 1 .. Len(f) BY LenProperties
<1>4. ASSUME NEW i \in 1 .. Len(f) PROVE Twin(g[i], f[i])
  <2>1. PICK x \in Stored(S) : x = f[i] BY ElementOfSeq
  <2>2. g[i] = [x EXCEPT !.mark = FALSE] BY <1>1, <1>3, <2>1 DEF Unmarked
  <2> QED BY <2>1, <2>2 DEF Twin, Stored, Delta
<1> QED BY <1>1, <1>2, <1>4 DEF Alike, Slice

LEMMA ShortenedTwice ==
    ASSUME NEW D, NEW E, NEW F, Shortened(D, E, 0), Shortened(E, F, 0)
    PROVE  Shortened(D, F, 0)
<1>1. /\ Alongside(D, F) /\ Visible(F.data) = Visible(D.data) BY DEF Shortened, Alongside
<1>2. Slice(F.undos, D.undos, 0) /\ Slice(F.redos, D.redos, 0)
  BY SliceTwice DEF Shortened
<1>3. Len(F.undos) + 0 = Len(D.undos) BY DEF Shortened, Slice
<1> QED BY <1>1, <1>2, <1>3 DEF Shortened

LEMMA InitDeltaCompactionMade ==
    ASSUME Keeping, InitDeltaCompaction
    PROVE  \E S \in SUBSET Objects : \E E \in Kept(S) :
              doc \in Kept(S) /\ Become(E) /\ \E k : Shortened(doc, E, k)
<1>1. PICK S : S = Slotted(doc.data) OBVIOUS
<1>2. S \in SUBSET Objects /\ doc \in Kept(S) /\ doc \in Documents(S) BY <1>1, KeepingFacts
<1>3. PICK us0 \in Seq(Stored(S)) : us0 = doc.undos BY <1>2, KeptFacts
<1>4. PICK rs0 \in Seq(Stored(S)) : rs0 = doc.redos BY <1>2, KeptFacts
<1>5. PICK us : us = Unmarked(us0) OBVIOUS
<1>6. PICK rs : rs = Unmarked(rs0) OBVIOUS
<1>7. /\ us \in Seq(Stored(S)) /\ Slice(us, us0, 0) /\ Len(us) + 0 = Len(us0)
      /\ rs \in Seq(Stored(S)) /\ Slice(rs, rs0, 0)
  BY <1>5, <1>6, UnmarkedAlike, LenProperties DEF Alike
<1>8. PICK no \in BOOLEAN : no = FALSE OBVIOUS
<1>9. PICK yes \in BOOLEAN : yes = TRUE OBVIOUS
<1>10. PICK D : D = [doc EXCEPT !.undos = us, !.redos = rs, !.from = no, !.fromRedo = no]
  OBVIOUS
<1>11. D \in Kept(S) /\ Shortened(doc, D, 0)
  BY <1>2, <1>3, <1>4, <1>7, <1>10, EditedKept
<1>12. D \in Documents(S) /\ D.undos = us /\ D.redos = rs
  BY <1>2, <1>10, <1>11, KeptFacts DEF Documents, Drafts
<1>13. PICK E : E = [D EXCEPT !.undos[Len(us)].mark = TRUE, !.from = TRUE,
                       !.redos = IF rs = << >> THEN rs ELSE [rs EXCEPT ![1].mark = TRUE],
                       !.fromRedo = rs # << >>]
  OBVIOUS
<1>14. Become(IF doc.limit = 0 \/ us = << >> THEN D ELSE E)
  BY <1>3, <1>4, <1>5, <1>6, <1>8, <1>10, <1>13 DEF InitDeltaCompaction
<1>15. ASSUME us # << >> PROVE E \in Kept(S) /\ Shortened(doc, E, 0)
  <2>1. PICK vs : vs = [us EXCEPT ![Len(us)].mark = TRUE] OBVIOUS
  <2>2. PICK qs : qs = IF rs = << >> THEN rs ELSE [rs EXCEPT ![1].mark = TRUE] OBVIOUS
  <2>3. vs \in Seq(Stored(S)) /\ Slice(vs, us, 0) /\ Len(vs) + 0 = Len(us)
    <3>1. Len(us) \in 1 .. Len(us) BY <1>7, <1>15, EmptySeq
    <3>2. vs \in Seq(Stored(S)) /\ Alike(vs, us) BY <1>7, <2>1, <3>1, MarkAlike
    <3> QED BY <1>7, <3>2, LenProperties DEF Alike
  <2>4. qs \in Seq(Stored(S)) /\ Slice(qs, rs, 0)
    <3>1. CASE rs = << >> BY <1>7, <2>2, <3>1, WholeSlice
    <3>2. CASE rs # << >>
      <4>1. 1 \in 1 .. Len(rs) BY <1>7, <3>2, EmptySeq
      <4>2. qs = [rs EXCEPT ![1].mark = TRUE] BY <2>2, <3>2
      <4>3. qs \in Seq(Stored(S)) /\ Alike(qs, rs) BY <1>7, <4>1, <4>2, MarkAlike
      <4> QED BY <4>3 DEF Alike
    <3> QED BY <3>1, <3>2
  <2>5. PICK fromRedo \in BOOLEAN : fromRedo = (rs # << >>) OBVIOUS
  <2>6. D \in Drafts(S) BY <1>12 DEF Documents
  <2>7. PICK F : F = [D EXCEPT !.undos = vs, !.redos = qs, !.from = yes, !.fromRedo = fromRedo]
    OBVIOUS
  <2>8. E = F BY <1>9, <1>12, <1>13, <2>1, <2>2, <2>5, <2>6, <2>7 DEF Drafts
  <2>9. F \in Kept(S) /\ Shortened(D, F, 0) BY <1>2, <1>11, <1>12, <2>3, <2>4, <2>7, EditedKept
  <2>10. Shortened(doc, F, 0) BY <1>11, <2>9, ShortenedTwice
  <2> QED BY <2>8, <2>9, <2>10
<1>16. CASE doc.limit = 0 \/ us = << >> BY <1>2, <1>11, <1>14, <1>16
<1>17. CASE ~(doc.limit = 0 \/ us = << >>) BY <1>2, <1>14, <1>15, <1>17
<1> QED BY <1>16, <1>17

-----------------------------------------------------------------------------
(* Commands.                                                                 *)

LEMMA CommandsKept ==
    ASSUME Keeping, \/ OpenCommand \/ CommitCommand \/ NewCommand \/ AbortCommand
                    \/ UndoCommand \/ RedoCommand
    PROVE  Keeping'
<1>1. PICK S : S = Slotted(doc.data) OBVIOUS
<1>2. S \in SUBSET Objects /\ doc \in Kept(S) /\ doc \in Documents(S) BY <1>1, KeepingFacts
<1>3. CASE OpenCommand
  <2>1. doc.nested \/ ~Opened(doc) BY <1>3 DEF OpenCommand
  <2>2. OpenDocument(doc) \in Kept(S) BY <1>2, <2>1, OpenKept
  <2> QED BY <1>2, <1>3, <2>2, BecomeKept DEF OpenCommand
<1>4. CASE CommitCommand
  <2>1. CommitTransaction(doc) \in Kept(S) BY <1>2, CommitKept
  <2> QED BY <1>2, <1>4, <2>1, BecomeKept DEF CommitCommand
<1>5. CASE NewCommand
  <2>1. PICK D : D = CommitTransaction(doc) OBVIOUS
  <2>2. D \in Kept(S) /\ Stays(doc, D) /\ (~doc.nested => ~Opened(D))
    BY <1>2, <2>1, CommitKept
  <2>3. D.nested \/ ~Opened(D) BY <1>2, <2>2, DocumentFacts DEF Stays
  <2>4. OpenDocument(D) \in Kept(S) BY <1>2, <2>2, <2>3, OpenKept
  <2> QED BY <1>2, <1>5, <2>1, <2>4, BecomeKept DEF NewCommand
<1>6. CASE AbortCommand
  <2>1. AbortTransaction(doc) \in Kept(S) BY <1>2, AbortKept
  <2> QED BY <1>2, <1>6, <2>1, BecomeKept DEF AbortCommand
<1>7. CASE UndoCommand
  <2>1. doc.undos # << >> /\ Become(UndoStep(doc)) BY <1>7 DEF UndoCommand
  <2>2. UndoStep(doc) \in Kept(S) BY <1>2, <2>1, UndoStepKept
  <2> QED BY <1>2, <2>1, <2>2, BecomeKept
<1>8. CASE RedoCommand
  <2>1. doc.redos # << >> /\ Become(RedoStep(doc)) BY <1>8 DEF RedoCommand
  <2>2. RedoStep(doc) \in Kept(S) BY <1>2, <2>1, RedoStepKept
  <2> QED BY <1>2, <2>1, <2>2, BecomeKept
<1> QED BY <1>3, <1>4, <1>5, <1>6, <1>7, <1>8

-----------------------------------------------------------------------------
(* Edits, inside a command.                                                  *)

\* The same commands open, and nothing stored touched.
Edited(D, E) == Opened(D) /\ Alongside(D, E) /\ E.undos = D.undos /\ E.redos = D.redos

\* An attribute to which no stored delta refers altered.
LEMMA EditKept ==
    ASSUME NEW S \in SUBSET Objects, NEW D \in Kept(S), Opened(D),
           NEW e \in Fine(S), NEW o \in Objects, Alters(D.data, e, o),
           o \notin Everything(D.filo, D.undos, D.redos),
           Start(e) = Start(D.data), Spares(e, D.filo)
    PROVE  /\ WithData(D, e) \in Kept(S) /\ WithData(D, e).data = e
           /\ Edited(D, WithData(D, e))
<1>1. D \in Documents(S) /\ Tuned(D) /\ Shaped(D) BY KeptFacts
<1>2. PICK E : E = WithData(D, e) OBVIOUS
<1>3. PICK d : d = D.data OBVIOUS
<1>4. /\ e.transaction = d.transaction /\ e.begin = d.begin /\ e.time = d.time
      /\ e.allow = d.allow /\ e.was = d.was
      /\ \A p \in Objects \ {o} : e.attr[p] = d.attr[p]
  BY <1>3 DEF Alters, Aside
<1>5. /\ E \in Documents(S) /\ E.data = e
      /\ E.undos = D.undos /\ E.redos = D.redos /\ E.filo = D.filo
      /\ E.limit = D.limit /\ E.nested = D.nested
  BY <1>1, <1>2, <1>3, <1>4, FineFacts, DataDocument
<1>6. PICK f \in Seq(Stored(S)) : f = D.filo BY KeptFacts
<1>7. PICK us \in Seq(Stored(S)) : us = D.undos BY KeptFacts
<1>8. PICK rs \in Seq(Stored(S)) : rs = D.redos BY KeptFacts
<1>9. PICK b : b = Start(d) OBVIOUS
<1>10. Stacks(d, f, us, rs, b, d.time) BY <1>3, <1>6, <1>7, <1>8, <1>9, KeptFacts DEF Piled
<1>11. Stacks(e, f, us, rs, b, d.time)
  <2>1. \A p \in Everything(f, us, rs) : e.attr[p] = d.attr[p]
    <3> SUFFICES ASSUME NEW p \in Everything(f, us, rs) PROVE e.attr[p] = d.attr[p] OBVIOUS
    <3>1. p \in Objects BY <1>10, EverythingOff
    <3> QED BY <1>4, <1>6, <1>7, <1>8, <3>1
  <2>2. Len(f) \in Nat /\ Len(us) \in Nat /\ Len(rs) \in Nat BY LenProperties
  <2> QED BY <1>10, <2>1, <2>2, StacksOver
<1>12. Piled(E) BY <1>3, <1>4, <1>5, <1>6, <1>7, <1>8, <1>9, <1>11 DEF Piled
<1>13. Tuned(E) /\ Shaped(E) BY <1>1, <1>3, <1>4, <1>5 DEF Tuned, Shaped, Opened
<1>14. Edited(D, E) BY <1>3, <1>4, <1>5 DEF Edited, Alongside, Opened
<1> QED BY <1>2, <1>5, <1>12, <1>13, <1>14 DEF Kept

\* An attribute of an open command's slots is not one that deltas bring back.
LEMMA FoundApart ==
    ASSUME Keeping, NEW S, S = Slotted(doc.data), NEW s \in Slots, NEW o \in Find(doc.data, s)
    PROVE  /\ S \in SUBSET Objects /\ doc \in Kept(S) /\ doc.data \in Fine(S)
           /\ o \in Objects /\ doc.data.attr[o].on /\ doc.data.attr[o].slot = s
           /\ o \notin Everything(doc.filo, doc.undos, doc.redos)
<1>1. S \in SUBSET Objects /\ doc \in Kept(S) /\ doc \in Documents(S) BY KeepingFacts
<1>2. doc.data \in Fine(S) BY <1>1, KeptFacts
<1>3. o \in Objects /\ doc.data.attr[o].on /\ doc.data.attr[o].slot = s BY DEF Find
<1>4. PICK f \in Seq(Stored(S)) : f = doc.filo BY <1>1, KeptFacts
<1>5. PICK us \in Seq(Stored(S)) : us = doc.undos BY <1>1, KeptFacts
<1>6. PICK rs \in Seq(Stored(S)) : rs = doc.redos BY <1>1, KeptFacts
<1>7. PICK d : d = doc.data OBVIOUS
<1>8. PICK b : b = Start(d) OBVIOUS
<1>9. Stacks(d, f, us, rs, b, d.time) BY <1>1, <1>4, <1>5, <1>6, <1>7, <1>8, KeptFacts DEF Piled
<1>10. \A q \in Everything(f, us, rs) : ~d.attr[q].on
  <2> SUFFICES ASSUME NEW q \in Everything(f, us, rs) PROVE ~d.attr[q].on OBVIOUS
  <2> QED BY <1>1, <1>9, EverythingOff
<1> QED BY <1>1, <1>2, <1>3, <1>4, <1>5, <1>6, <1>7, <1>10

LEMMA ChangeMade ==
    ASSUME Keeping, NEW s \in Slots, NEW v \in Values, Change(s, v)
    PROVE  \E S \in SUBSET Objects : \E E \in Kept(S) : Become(E) /\ Edited(doc, E)
<1>1. PICK o \in Find(doc.data, s) : Become(WithData(doc, Modify(doc.data, o, v)))
  BY DEF Change
<1>2. PICK S : S = Slotted(doc.data) OBVIOUS
<1>3. PICK d : d = doc.data OBVIOUS
<1>4. PICK e : e = Modify(d, o, v) OBVIOUS
<1>5. /\ S \in SUBSET Objects /\ doc \in Kept(S) /\ d \in Fine(S)
      /\ o \in Objects /\ d.attr[o].on /\ d.attr[o].slot = s /\ o \in Find(d, s)
      /\ o \notin Everything(doc.filo, doc.undos, doc.redos)
  BY <1>2, <1>3, FoundApart
<1>6. Opened(doc) /\ d.transaction = 1 /\ d.allow
  BY <1>3, <1>5, KeptFacts DEF Change, Editing, Tuned, Opened
<1>7. /\ e \in Fine(S) /\ Alters(d, e, o) /\ Start(e) = Start(d)
      /\ ~e.attr[o].forgotten /\ (New(e.attr[o]) <=> New(d.attr[o]))
  BY <1>4, <1>5, <1>6, ModifyEffect
<1>8. Spares(e, doc.filo)
  <2>1. Spares(d, doc.filo) BY <1>3, <1>5, KeptFacts
  <2>2. \A p \in Objects \ {o} : e.attr[p] = d.attr[p] BY <1>7 DEF Alters
  <2>3. e.attr[o].slot = d.attr[o].slot BY <1>7 DEF Alters
  <2>4. ASSUME NEW p \in Objects, e.attr[p].on
        PROVE  /\ d.attr[p].on /\ e.attr[p].slot = d.attr[p].slot
               /\ e.attr[p].forgotten => d.attr[p].forgotten
               /\ New(e.attr[p]) => New(d.attr[p])
    BY <1>5, <1>7, <2>2, <2>3, <2>4
  <2> QED BY <2>1, <2>4 DEF Spares
<1>9. WithData(doc, e) \in Kept(S) /\ Edited(doc, WithData(doc, e))
  BY <1>3, <1>5, <1>6, <1>7, <1>8, EditKept
<1> QED BY <1>1, <1>3, <1>4, <1>5, <1>9

\* What the open commands did to a slot allows the attribute to be forgotten.
LEMMA NotLost ==
    ASSUME NEW S, doc \in Documents(S), NEW s, ~Loses(s),
           NEW j \in 1 .. Len(doc.filo), NEW p \in doc.filo[j].parts, p.slot = s
    PROVE  p.kind = "addition"
<1>1. doc.filo \in Seq(Stored(S)) BY DEF Documents, Drafts
<1>2. DOMAIN doc.filo = 1 .. Len(doc.filo) BY <1>1, LenProperties
<1>3. doc.filo[j] \in Range(doc.filo) BY <1>2 DEF Range
<1> QED BY <1>3 DEF Loses

LEMMA ForgetAttributeMade ==
    ASSUME Careful, Keeping, NEW s \in Slots, ForgetAttribute(s)
    PROVE  \E S \in SUBSET Objects : \E E \in Kept(S) : Become(E) /\ Edited(doc, E)
<1>1. PICK o \in Find(doc.data, s) : Become(WithData(doc, Forget(doc.data, o)))
  BY DEF ForgetAttribute
<1>2. PICK S : S = Slotted(doc.data) OBVIOUS
<1>3. PICK d : d = doc.data OBVIOUS
<1>4. PICK e : e = Forget(d, o) OBVIOUS
<1>5. /\ S \in SUBSET Objects /\ doc \in Kept(S) /\ d \in Fine(S)
      /\ o \in Objects /\ d.attr[o].on /\ d.attr[o].slot = s /\ o \in Find(d, s)
      /\ o \notin Everything(doc.filo, doc.undos, doc.redos)
  BY <1>2, <1>3, FoundApart
<1>6. Opened(doc) /\ d.transaction = 1 /\ d.allow
  BY <1>3, <1>5, KeptFacts DEF ForgetAttribute, Editing, Tuned, Opened
<1>7. /\ e \in Fine(S) /\ Alters(d, e, o) /\ Start(e) = Start(d)
  BY <1>4, <1>5, <1>6, ForgetEffect
<1>8. Spares(e, doc.filo)
  <2>1. Spares(d, doc.filo) /\ doc \in Documents(S) BY <1>3, <1>5, KeptFacts
  <2>2. \A p \in Objects \ {o} : e.attr[p] = d.attr[p] BY <1>7 DEF Alters
  <2>3. e.attr[o].slot = s BY <1>5, <1>7 DEF Alters
  <2>4. ~Loses(s) BY DEF ForgetAttribute
  <2>5. \A j \in 1 .. Len(doc.filo) : \A p \in doc.filo[j].parts :
            p.slot = s => p.kind = "addition"
    BY <2>1, <2>4, NotLost
  <2>6. ASSUME NEW j \in 1 .. Len(doc.filo), NEW p \in doc.filo[j].parts, NEW q \in Objects,
               p.kind # "addition", e.attr[q].on, e.attr[q].slot = p.slot
        PROVE  ~e.attr[q].forgotten /\ ~New(e.attr[q])
    <3>1. q # o BY <2>3, <2>5, <2>6
    <3>2. e.attr[q] = d.attr[q] BY <2>2, <3>1
    <3> QED BY <2>1, <2>6, <3>2 DEF Spares
  <2> QED BY <2>6 DEF Spares
<1>9. WithData(doc, e) \in Kept(S) /\ Edited(doc, WithData(doc, e))
  BY <1>3, <1>5, <1>6, <1>7, <1>8, EditKept
<1> QED BY <1>1, <1>3, <1>4, <1>5, <1>9

\* A new object, of a slot and with a value, not yet attached.
LEMMA CreatedKept ==
    ASSUME NEW S \in SUBSET Objects, NEW D \in Kept(S), NEW o \in Objects,
           ~D.data.attr[o].on, o \notin Everything(D.filo, D.undos, D.redos),
           NEW a \in Attribute, a.slot \in Slots, a.val \in Values,
           ~a.on, a.trans = 0, a.backup = None, ~a.forgotten,
           NEW T, T = S \cup {o}
    PROVE  LET e == With(D.data, o, a)
               E == WithData(D, e) IN
           /\ E \in Kept(T) /\ e \in Fine(T) /\ E.data = e /\ e.attr[o] = a
           /\ E.filo = D.filo /\ E.undos = D.undos /\ E.redos = D.redos
           /\ e.transaction = D.data.transaction /\ e.allow = D.data.allow
           /\ Visible(e) = Visible(D.data) /\ Start(e) = Start(D.data)
<1>1. D \in Documents(S) /\ D.data \in Fine(S) /\ Tuned(D) /\ Shaped(D) BY KeptFacts
<1>2. PICK d : d = D.data OBVIOUS
<1>3. PICK e : e = With(d, o, a) OBVIOUS
<1>4. PICK E : E = WithData(D, e) OBVIOUS
<1>5. d \in Fine(S) /\ d \in Frames(S) /\ T \in SUBSET Objects BY <1>1, <1>2, FineFacts
<1>6. /\ e \in Framework /\ e.attr[o] = a
      /\ \A p \in Objects \ {o} : e.attr[p] = d.attr[p]
      /\ e.transaction = d.transaction /\ e.attMod = d.attMod /\ e.mayMod = d.mayMod
      /\ e.allow = d.allow /\ e.time = d.time /\ e.begin = d.begin /\ e.was = d.was
      /\ e.fault = d.fault
  BY <1>3, <1>5, FrameFacts, WithFacts
<1>7. Sound(e)
  <2>1. AttributeSound(e, o) BY <1>6 DEF AttributeSound
  <2>2. Sound(d) /\ Chain(e.mayMod) BY <1>5, <1>6, FrameFacts
  <2> QED BY <1>6, <2>1, <2>2, OthersSound
<1>8. Slotted(e) = T
  <2>1. \A p \in Objects \ {o} : e.attr[p].slot \in Slots <=> p \in S
    BY <1>5, <1>6, FrameFacts
  <2> QED BY <1>6, <2>1 DEF Slotted
<1>9. e \in Fine(T)
  <2>1. Distinct(d) /\ Valued(d) /\ d.fault = "none" BY <1>5, FineFacts
  <2>2. Distinct(e) BY <1>6, <2>1 DEF Distinct
  <2>3. Valued(e) BY <1>6, <2>1 DEF Valued
  <2> QED BY <1>6, <1>7, <1>8, <2>1, <2>2, <2>3 DEF Fine, Frames
<1>10. /\ \A p \in Objects : e.attr[p].on <=> d.attr[p].on
       /\ \A p \in Objects : d.attr[p].on => e.attr[p] = d.attr[p]
  BY <1>2, <1>6
<1>11. Visible(e) = Visible(d) /\ Start(e) = Start(d) BY <1>10, RecycledSeen
<1>12. D.undos \in Seq(Stored(T)) /\ D.redos \in Seq(Stored(T)) /\ D.filo \in Seq(Stored(T))
  <2>1. D.undos \in Seq(Stored(S)) /\ D.redos \in Seq(Stored(S)) /\ D.filo \in Seq(Stored(S))
    BY <1>1, DocumentFacts
  <2>2. Stored(S) \subseteq Stored(T) BY DEF Stored, Parts
  <2> QED BY <2>1, <2>2, SeqMonotonic
<1>13. /\ E.data = e /\ E.undos = D.undos /\ E.redos = D.redos /\ E.filo = D.filo
       /\ E.limit = D.limit /\ E.nested = D.nested
  BY <1>1, <1>4 DEF WithData, Documents, Drafts
<1>14. E \in Documents(T)
  <2>1. e \in Frames(T) BY <1>9, FineFacts
  <2>2. E \in Drafts(T) BY <1>1, <1>4, <1>12, <2>1 DEF WithData, Documents, Drafts
  <2> QED BY <1>1, <1>2, <1>6, <1>13, <2>2 DEF Documents
<1>15. PICK f \in Seq(Stored(S)) : f = D.filo BY KeptFacts
<1>16. PICK us \in Seq(Stored(S)) : us = D.undos BY KeptFacts
<1>17. PICK rs \in Seq(Stored(S)) : rs = D.redos BY KeptFacts
<1>18. PICK b : b = Start(d) OBVIOUS
<1>19. Stacks(d, f, us, rs, b, d.time) BY <1>2, <1>15, <1>16, <1>17, <1>18, KeptFacts DEF Piled
<1>20. Stacks(e, f, us, rs, b, d.time)
  <2>1. \A p \in Everything(f, us, rs) : e.attr[p] = d.attr[p]
    <3> SUFFICES ASSUME NEW p \in Everything(f, us, rs) PROVE e.attr[p] = d.attr[p] OBVIOUS
    <3>1. p \in Objects BY <1>19, EverythingOff
    <3> QED BY <1>6, <1>15, <1>16, <1>17, <3>1
  <2>2. Len(f) \in Nat /\ Len(us) \in Nat /\ Len(rs) \in Nat BY LenProperties
  <2> QED BY <1>19, <2>1, <2>2, StacksOver
<1>21. Piled(E) BY <1>6, <1>11, <1>13, <1>15, <1>16, <1>17, <1>18, <1>20 DEF Piled
<1>22. Tuned(E) /\ Shaped(E) BY <1>1, <1>2, <1>6, <1>11, <1>13 DEF Tuned, Shaped, Opened
<1>23. Spares(E.data, E.filo)
  <2>1. Spares(d, D.filo) BY <1>2, KeptFacts
  <2> QED BY <1>10, <1>13, <2>1 DEF Spares
<1>24. E \in Kept(T) BY <1>9, <1>13, <1>14, <1>21, <1>22, <1>23 DEF Kept
<1> QED BY <1>2, <1>3, <1>4, <1>6, <1>9, <1>11, <1>13, <1>24

LEMMA AddAttributeMade ==
    ASSUME Careful, Keeping, NEW s \in Slots, NEW v \in Values, AddAttribute(s, v)
    PROVE  \E S \in SUBSET Objects : \E E \in Kept(S) : Become(E) /\ Edited(doc, E)
<1> DEFINE least == Min(Objects \ Held(doc))
<1>1. PICK S : S = Slotted(doc.data) OBVIOUS
<1>2. S \in SUBSET Objects /\ doc \in Kept(S) /\ doc \in Documents(S) BY <1>1, KeepingFacts
<1>3. least \in Objects /\ least \notin Held(doc)
  <2>1. PICK K : K = Objects \ Held(doc) OBVIOUS
  <2>2. K \in SUBSET Nat /\ K # {} BY <2>1, TreeAssumption DEF AddAttribute
  <2> QED BY <2>1, <2>2, LeastOf
<1>4. PICK a : a = [NoAttribute EXCEPT !.slot = s, !.val = v] OBVIOUS
<1>5. /\ a \in Attribute /\ a.slot = s /\ a.val = v /\ ~a.on /\ a.trans = 0
      /\ a.backup = None /\ ~a.forgotten
  <2>1. PICK n : n = NoAttribute OBVIOUS
  <2>2. /\ n \in Attribute /\ ~n.on /\ n.trans = 0 /\ n.backup = None /\ ~n.forgotten
    BY <2>1 DEF NoAttribute, Attribute
  <2>3. a = [n EXCEPT !.slot = s, !.val = v] BY <1>4, <2>1
  <2>4. a \in Attribute BY <2>2, <2>3 DEF Attribute
  <2> QED BY <2>2, <2>3, <2>4 DEF Attribute
<1>6. PICK d : d = With(doc.data, least, a) OBVIOUS
<1>7. Become(WithData(doc, AddTo(d, least))) BY <1>4, <1>6 DEF AddAttribute, With
<1> HIDE DEF least
<1>8. PICK o : o = least OBVIOUS
<1>9. o \in Objects /\ ~doc.data.attr[o].on /\ o \notin Everything(doc.filo, doc.undos, doc.redos)
  BY <1>2, <1>3, <1>8, EverythingHeld DEF Held
<1>10. PICK T : T = S \cup {o} OBVIOUS
<1>11. PICK E : E = WithData(doc, d) OBVIOUS
<1>12. /\ E \in Kept(T) /\ d \in Fine(T) /\ E.data = d /\ d.attr[o] = a
       /\ E.filo = doc.filo /\ E.undos = doc.undos /\ E.redos = doc.redos
       /\ d.transaction = doc.data.transaction /\ d.allow = doc.data.allow
       /\ Visible(d) = Visible(doc.data) /\ Start(d) = Start(doc.data)
  BY <1>2, <1>5, <1>6, <1>8, <1>9, <1>10, <1>11, CreatedKept
<1>13. T \in SUBSET Objects /\ o \in T BY <1>2, <1>9, <1>10
<1>14. Opened(doc) /\ doc.data.transaction = 1 /\ doc.data.allow
  BY <1>2, KeptFacts DEF AddAttribute, Editing, Tuned, Opened
<1>15. Find(d, s) = {}
  <2>1. Find(doc.data, s) = {} BY DEF AddAttribute
  <2>2. Visible(doc.data)[s] = None
    BY <1>2, <2>1, Seen, KeptFacts
  <2>3. \A p \in Find(d, s) : Visible(d)[s] \in Values BY <1>12, <1>13, Seen
  <2> QED BY <1>12, <2>2, <2>3, TreeAssumption
<1>16. PICK e : e = AddTo(d, o) OBVIOUS
<1>17. /\ e \in Fine(T) /\ Alters(d, e, o) /\ Start(e) = Start(d) /\ Visible(e)[s] = v
  BY <1>5, <1>12, <1>13, <1>14, <1>15, <1>16, AddToEffect
<1>18. Spares(e, E.filo)
  <2>1. Spares(d, E.filo) BY <1>12, <1>13, KeptFacts
  <2>2. \A p \in Objects \ {o} : e.attr[p] = d.attr[p] BY <1>17 DEF Alters
  <2>3. e.attr[o].slot = s BY <1>5, <1>12, <1>17 DEF Alters
  <2>4. ~Loses(s) BY DEF AddAttribute
  <2>5. \A j \in 1 .. Len(doc.filo) : \A p \in doc.filo[j].parts :
            p.slot = s => p.kind = "addition"
    BY <1>2, <2>4, NotLost
  <2>6. ASSUME NEW j \in 1 .. Len(E.filo), NEW p \in E.filo[j].parts, NEW q \in Objects,
               p.kind # "addition", e.attr[q].on, e.attr[q].slot = p.slot
        PROVE  ~e.attr[q].forgotten /\ ~New(e.attr[q])
    <3>1. q # o BY <1>12, <2>3, <2>5, <2>6
    <3>2. e.attr[q] = d.attr[q] BY <2>2, <3>1
    <3> QED BY <2>1, <2>6, <3>2 DEF Spares
  <2> QED BY <2>6 DEF Spares
<1>19. Opened(E) BY <1>12, <1>14 DEF Opened
<1>20. WithData(E, e) \in Kept(T) /\ Edited(E, WithData(E, e))
  BY <1>9, <1>12, <1>13, <1>17, <1>18, <1>19, EditKept
<1>21. WithData(E, e) = WithData(doc, e)
  BY <1>2, <1>11 DEF WithData, Documents, Drafts
<1>22. Become(WithData(doc, e)) BY <1>7, <1>8, <1>16
<1>23. E.nested = doc.nested /\ E.data.transaction = doc.data.transaction
  BY <1>2, <1>11, <1>12 DEF WithData, Documents, Drafts
<1>24. Edited(doc, WithData(doc, e))
  BY <1>12, <1>20, <1>21, <1>23 DEF Edited, Alongside, Opened
<1> QED BY <1>13, <1>20, <1>21, <1>22, <1>24

-----------------------------------------------------------------------------
(* Compactions.                                                              *)

\* Of each slot of some deltas one part, of the first delta about it.
Firsts(ds, P) ==
    /\ \A i \in 1 .. Len(ds) : \A p \in ds[i].parts : \E q \in P : q.slot = p.slot
    /\ \A p \in P : \E i \in 1 .. Len(ds) :
          /\ p \in ds[i].parts
          /\ \A j \in 1 .. Len(ds) : \A q \in ds[j].parts : q.slot = p.slot => i =< j
    /\ \A p, q \in P : p.slot = q.slot => p = q

LEMMA FirstPartsFirsts ==
    ASSUME NEW S, NEW ds \in Seq(Stored(S)), NEW slots,
           slots = {p.slot : p \in UNION {x.parts : x \in Range(ds)}},
           NEW P \in FirstParts(ds, slots)
    PROVE  Firsts(ds, P)
<1>1. Len(ds) \in Nat /\ DOMAIN ds = 1 .. Len(ds) BY LenProperties
<1>2. \A i \in 1 .. Len(ds) : \A p \in ds[i].parts : p.slot \in slots
  BY <1>1 DEF Range
<1>3. ASSUME NEW s \in slots
      PROVE  \E q \in P : /\ q.slot = s
                          /\ \A r \in P : r.slot = s => r = q
                          /\ \E i \in 1 .. Len(ds) :
                                /\ q \in ds[i].parts
                                /\ \A j \in 1 .. Len(ds) : \A r \in ds[j].parts :
                                      r.slot = s => i =< j
  <2>1. PICK K : K = {i \in DOMAIN ds : \E p \in ds[i].parts : p.slot = s} OBVIOUS
  <2>2. PICK here : here = {p \in P : p.slot = s} OBVIOUS
  <2>3. PICK first : first = Min(K) OBVIOUS
  <2>4. Cardinality(here) = 1 /\ here \subseteq ds[first].parts
    BY <2>1, <2>2, <2>3 DEF FirstParts
  <2>5. K \in SUBSET Nat /\ K # {} BY <1>1, <2>1 DEF Range
  <2>6. first \in K /\ \A y \in K : first =< y BY <2>3, <2>5, LeastOf
  <2>7. IsFiniteSet(here)
    <3>1. PICK U : U = UNION {ds[i].parts : i \in DOMAIN ds} OBVIOUS
    <3>2. IsFiniteSet(U) BY <3>1, PartsFinite
    <3>3. here \subseteq U BY <2>2, <3>1 DEF FirstParts
    <3> QED BY <3>2, <3>3, FS_Subset
  <2>8. PICK q : here = {q} BY <2>4, <2>7, FS_Singleton
  <2>9. q \in P /\ q.slot = s /\ \A r \in P : r.slot = s => r = q BY <2>2, <2>8
  <2>10. first \in 1 .. Len(ds) /\ q \in ds[first].parts BY <1>1, <2>1, <2>4, <2>6, <2>8
  <2>11. ASSUME NEW j \in 1 .. Len(ds), NEW r \in ds[j].parts, r.slot = s PROVE first =< j
    <3>1. j \in K BY <1>1, <2>1, <2>11
    <3> QED BY <2>6, <3>1
  <2> QED BY <2>9, <2>10, <2>11
<1>4. ASSUME NEW p \in P PROVE p.slot \in slots
  <2>1. PICK i \in DOMAIN ds : p \in ds[i].parts BY DEF FirstParts
  <2> QED BY <1>1, <1>2, <2>1
<1>5. \A i \in 1 .. Len(ds) : \A p \in ds[i].parts : \E q \in P : q.slot = p.slot
  BY <1>2, <1>3
<1>6. ASSUME NEW p \in P
      PROVE  /\ \A r \in P : p.slot = r.slot => p = r
             /\ \E i \in 1 .. Len(ds) :
                  /\ p \in ds[i].parts
                  /\ \A j \in 1 .. Len(ds) : \A q \in ds[j].parts : q.slot = p.slot => i =< j
  <2>1. PICK s \in slots : s = p.slot BY <1>4
  <2>2. PICK q \in P : /\ q.slot = s
                       /\ \A r \in P : r.slot = s => r = q
                       /\ \E i \in 1 .. Len(ds) :
                            /\ q \in ds[i].parts
                            /\ \A j \in 1 .. Len(ds) : \A r \in ds[j].parts :
                                  r.slot = s => i =< j
    BY <1>3
  <2>3. p = q BY <2>1, <2>2
  <2> QED BY <2>1, <2>2, <2>3
<1> QED BY <1>5, <1>6 DEF Firsts

\* The parts that the first j deltas give.
Upto(ds, P, j) == {p \in P : \E i \in 1 .. j : p \in ds[i].parts}

\* In each delta a slot has one part.
Single(ds) == \A i \in 1 .. Len(ds) : \A p, q \in ds[i].parts : p.slot = q.slot => p = q

LEMMA UptoStep ==
    ASSUME NEW ds, Len(ds) \in Nat, NEW P, Firsts(ds, P), Single(ds),
           NEW j \in Nat, NEW k, k = j + 1, k \in 1 .. Len(ds)
    PROVE  Upto(ds, P, k) = Blended(Upto(ds, P, j), ds[k].parts)
<1>1. PICK older : older = Upto(ds, P, j) OBVIOUS
<1>2. PICK newer : newer = ds[k].parts OBVIOUS
<1>3. ASSUME NEW p \in Upto(ds, P, k) PROVE p \in Blended(older, newer)
  <2>1. p \in P BY DEF Upto
  <2>2. PICK i \in 1 .. k : p \in ds[i].parts BY DEF Upto
  <2>3. CASE i \in 1 .. j
    <3>1. p \in older BY <1>1, <2>1, <2>2, <2>3 DEF Upto
    <3> QED BY <3>1 DEF Blended
  <2>4. CASE i = k
    <3>1. p \in newer BY <1>2, <2>2, <2>4
    <3>2. CASE \E q \in older : q.slot = p.slot
      <4>1. PICK q \in older : q.slot = p.slot BY <3>2
      <4>2. q \in P BY <1>1 DEF Upto
      <4>3. q = p BY <2>1, <4>1, <4>2 DEF Firsts
      <4> QED BY <4>1, <4>3 DEF Blended
    <3> QED BY <3>1, <3>2 DEF Blended
  <2>5. i \in 1 .. j \/ i = k OBVIOUS
  <2> QED BY <2>3, <2>4, <2>5
<1>4. ASSUME NEW p \in Blended(older, newer) PROVE p \in Upto(ds, P, k)
  <2>1. CASE p \in older
    <3>1. p \in P BY <1>1, <2>1 DEF Upto
    <3>2. PICK i \in 1 .. j : p \in ds[i].parts BY <1>1, <2>1 DEF Upto
    <3>3. i \in 1 .. k OBVIOUS
    <3> QED BY <3>1, <3>2, <3>3 DEF Upto
  <2>2. CASE p \in newer /\ \A q \in older : q.slot # p.slot
    <3>1. p \in ds[k].parts BY <1>2, <2>2
    <3>2. PICK q \in P : q.slot = p.slot BY <3>1 DEF Firsts
    <3>3. PICK i \in 1 .. Len(ds) :
             /\ q \in ds[i].parts
             /\ \A l \in 1 .. Len(ds) : \A r \in ds[l].parts : r.slot = q.slot => i =< l
      BY DEF Firsts
    <3>4. i =< k BY <3>1, <3>2, <3>3
    <3>5. i \notin 1 .. j
      <4> SUFFICES ASSUME i \in 1 .. j PROVE FALSE OBVIOUS
      <4>1. q \in older BY <1>1, <3>3 DEF Upto
      <4> QED BY <2>2, <3>2, <4>1
    <3>6. i = k BY <3>4, <3>5
    <3>7. q = p BY <3>1, <3>2, <3>3, <3>6 DEF Single
    <3>8. k \in 1 .. k OBVIOUS
    <3> QED BY <3>1, <3>7, <3>8 DEF Upto
  <2> QED BY <2>1, <2>2 DEF Blended
<1> QED BY <1>1, <1>2, <1>3, <1>4

LEMMA MergeableSingle ==
    ASSUME NEW S, NEW ds \in Seq(Stored(S)), Mergeable(ds),
           \A i \in 1 .. Len(ds) : Uniform(ds[i].parts)
    PROVE  Single(ds)
<1>1. DOMAIN ds = 1 .. Len(ds) /\ Len(ds) \in Nat BY LenProperties
<1> SUFFICES ASSUME NEW i \in 1 .. Len(ds), NEW p \in ds[i].parts, NEW q \in ds[i].parts,
                    p.slot = q.slot, p # q
             PROVE  FALSE
  BY DEF Single
<1>2. i =< i BY <1>1
<1>3. p.kind = "modification" /\ q.kind = "modification" BY <1>1, <1>2 DEF Mergeable
<1> QED BY <1>3 DEF Uniform

\* What came before blends with the next delta.
LEMMA UptoBlends ==
    ASSUME NEW S, NEW ds \in Seq(Stored(S)), Mergeable(ds), Apart(ds), NEW P,
           NEW j \in Nat, NEW k, k = j + 1, k \in 1 .. Len(ds)
    PROVE  Blends(Upto(ds, P, j), ds[k].parts)
<1>1. DOMAIN ds = 1 .. Len(ds) /\ Len(ds) \in Nat BY LenProperties
<1> SUFFICES ASSUME NEW p \in Upto(ds, P, j), NEW q \in ds[k].parts,
                    p.kind # "addition", p.slot = q.slot
             PROVE  q.kind = "modification"
  BY DEF Blends
<1>2. PICK i \in 1 .. j : p \in ds[i].parts BY DEF Upto
<1>3. i \in 1 .. Len(ds) /\ i =< k /\ i # k BY <1>1
<1>4. CASE p # q BY <1>1, <1>2, <1>3, <1>4 DEF Mergeable
<1>5. CASE p = q
  <2>1. p.kind \in {"addition", "modification", "removal"}
    <3>1. ds[i] \in Stored(S) BY <1>3, ElementOfSeq
    <3> QED BY <1>2, <3>1 DEF Stored, Parts, AttributeDelta
  <2>2. p.kind # "removal"
    <3> SUFFICES ASSUME p.kind = "removal" PROVE FALSE OBVIOUS
    <3>1. p.obj \in Mentions(ds[i].parts) /\ p.obj \in Mentions(ds[k].parts)
      BY <1>2, <1>5 DEF Mentions, Removals
    <3> QED BY <1>3, <3>1 DEF Apart
  <2> QED BY <1>5, <2>1, <2>2
<1> QED BY <1>4, <1>5

\* What the document holds when the first j deltas are left to be undone.
After(ds, c, j) == IF j = Len(ds) THEN c ELSE ds[j + 1].back

\* One delta for many: their first parts lead from what the last one undoes to
\* what the first one brings back.
LEMMA CompactedFits ==
    ASSUME NEW S, NEW ds \in Seq(Stored(S)), ds # << >>, Mergeable(ds), Apart(ds),
           NEW d, NEW c, NEW t, Up(d, ds, c, t),
           NEW P \in SUBSET Parts(S), Firsts(ds, P)
    PROVE  Fits(d, P, c, ds[1].back) /\ Whole(d, P)
<1>1. PICK n \in Nat : n = Len(ds) BY LenProperties
<1>2. n # 0 BY <1>1, EmptySeq
<1>3. PICK a : a = ds[1].back OBVIOUS
<1>4. ASSUME NEW i \in 1 .. n
      PROVE  /\ ds[i] \in Stored(S)
             /\ Fits(d, ds[i].parts, After(ds, c, i), ds[i].back) /\ Whole(d, ds[i].parts)
  <2>1. ds[i] \in Stored(S) BY <1>1, ElementOfSeq
  <2>2. CASE i = n BY <1>1, <1>2, <2>1, <2>2 DEF Up, Leads, After
  <2>3. CASE i # n
    <3>1. i + 1 =< Len(ds) /\ i \in 1 .. Len(ds) BY <1>1, <2>3
    <3>2. Leads(d, ds[i], ds[i + 1].back, ds[i + 1].begin) BY <3>1 DEF Up
    <3> QED BY <1>1, <2>1, <2>3, <3>2 DEF Leads, After
  <2> QED BY <2>2, <2>3
<1>5. Single(ds)
  <2>1. \A i \in 1 .. Len(ds) : Uniform(ds[i].parts) BY <1>1, <1>4 DEF Fits
  <2> QED BY <2>1, MergeableSingle
<1>6. PICK J : J = {j \in Nat : j =< n => Fits(d, Upto(ds, P, j), After(ds, c, j), a)
                                          /\ Whole(d, Upto(ds, P, j))}
  OBVIOUS
<1>7. 0 \in J
  <2>1. Upto(ds, P, 0) = {} BY DEF Upto
  <2>2. After(ds, c, 0) = a BY <1>1, <1>2, <1>3 DEF After
  <2>3. Fits(d, {}, a, a) /\ Whole(d, {}) BY DEF Fits, Here, Uniform, Whole
  <2> QED BY <1>6, <2>1, <2>2, <2>3
<1>8. ASSUME NEW j \in J PROVE j + 1 \in J
  <2>1. j \in Nat BY <1>6
  <2>2. PICK k \in Nat : k = j + 1 BY <2>1
  <2>3. CASE k =< n
    <3>1. k \in 1 .. n /\ j =< n /\ j # n BY <1>1, <2>1, <2>2, <2>3
    <3>2. PICK A : A = Upto(ds, P, j) OBVIOUS
    <3>3. PICK B : B = ds[k].parts OBVIOUS
    <3>4. PICK b : b = ds[k].back OBVIOUS
    <3>5. PICK e : e = After(ds, c, k) OBVIOUS
    <3>6. Fits(d, A, b, a) /\ Whole(d, A)
      <4>1. After(ds, c, j) = b BY <1>1, <2>2, <3>1, <3>4 DEF After
      <4> QED BY <1>6, <3>1, <3>2, <4>1
    <3>7. Fits(d, B, e, b) /\ Whole(d, B) BY <1>4, <3>1, <3>3, <3>4, <3>5
    <3>8. A \in SUBSET Parts(S) /\ B \in SUBSET Parts(S)
      BY <1>4, <3>1, <3>2, <3>3 DEF Upto, Stored
    <3>9. Blends(A, B) BY <1>1, <2>1, <2>2, <3>1, <3>2, <3>3, UptoBlends
    <3>10. Fits(d, Blended(A, B), e, a) /\ Whole(d, Blended(A, B))
      BY <3>6, <3>7, <3>8, <3>9, BlendedFits
    <3>11. Upto(ds, P, k) = Blended(A, B)
      BY <1>1, <1>5, <2>1, <2>2, <3>1, <3>2, <3>3, UptoStep
    <3> QED BY <1>6, <2>2, <3>5, <3>10, <3>11
  <2>4. CASE ~(k =< n) BY <1>6, <2>2, <2>4
  <2> QED BY <2>2, <2>3, <2>4
<1>9. J = Nat
  <2>1. J \in SUBSET Nat BY <1>6
  <2> QED BY <1>7, <1>8, <2>1, FromZero
<1>10. Fits(d, Upto(ds, P, n), After(ds, c, n), a) /\ Whole(d, Upto(ds, P, n))
  BY <1>1, <1>6, <1>9
<1>11. Upto(ds, P, n) = P BY <1>1 DEF Upto, Firsts
<1>12. After(ds, c, n) = c BY <1>1 DEF After
<1> QED BY <1>3, <1>10, <1>11, <1>12

\* The last undos made one, and the redos shortened.
LEMMA CompactedStacks ==
    ASSUME NEW S \in SUBSET Objects, NEW d, NEW f, NEW us \in Seq(Stored(S)), NEW rs,
           NEW c, NEW t, Stacks(d, f, us, rs, c, t),
           NEW ds \in Seq(Stored(S)), ds # << >>, NEW m, Slice(ds, us, m),
           Len(ds) + m = Len(us), Mergeable(ds),
           NEW x \in Stored(S), Firsts(ds, x.parts),
           x.back = ds[1].back, x.begin = ds[1].begin, x.end = ds[Len(ds)].end,
           NEW g \in Seq(Stored(S)), Slice(g, us, 0), Len(g) = m,
           NEW qs, Slice(qs, rs, 0)
    PROVE  Stacks(d, f, Append(g, x), qs, c, t)
<1>1. PICK b : b = Foot(f, c) OBVIOUS
<1>2. PICK u : u = FootTime(f, t) OBVIOUS
<1>3. Up(d, us, b, u) /\ Down(d, rs, b, u) /\ Apart(us) BY <1>1, <1>2 DEF Stacks
<1>4. Up(d, ds, b, u) BY <1>3, UpSuffix
<1>5. Apart(ds) /\ Named(ds) \subseteq Named(us) BY <1>3, NamedSlice
<1>6. Apart(g) /\ Named(g) \subseteq Named(us) BY <1>3, NamedSlice
<1>7. PICK n \in Nat : n = Len(ds) BY LenProperties
<1>8. n # 0 /\ m \in Nat /\ n + m = Len(us) BY <1>7, EmptySeq DEF Slice
<1>9. Leads(d, x, b, u)
  <2>1. PICK P : P = x.parts OBVIOUS
  <2>2. P \in SUBSET Parts(S) /\ Firsts(ds, P) BY <2>1 DEF Stored
  <2>3. Fits(d, P, b, ds[1].back) /\ Whole(d, P) BY <1>4, <1>5, <2>2, CompactedFits
  <2>4. ds[n].end = u BY <1>4, <1>7, <1>8 DEF Up, Leads
  <2> QED BY <1>7, <2>1, <2>3, <2>4 DEF Leads
<1>10. Up(d, g, x.back, x.begin)
  <2>1. PICK k : k = m + 1 OBVIOUS
  <2>2. k = Len(g) + 1 /\ k =< Len(us) BY <1>8, <2>1
  <2>3. Up(d, g, us[k].back, us[k].begin) BY <1>3, <2>2, UpPrefix
  <2>4. Twin(ds[1], us[k])
    <3>1. 1 \in 1 .. Len(ds) /\ 1 + m = k BY <1>7, <1>8, <2>1
    <3> QED BY <3>1, SliceDelta
  <2> QED BY <2>3, <2>4 DEF Twin
<1>11. PICK h : h = Append(g, x) OBVIOUS
<1>12. Len(h) = Len(g) + 1 /\ Slice(g, h, 0) /\ Twin(h[Len(h)], x) /\ Grown(h, g, x, Len(h))
  BY <1>11, AppendGrown
<1>13. Up(d, h, b, u) BY <1>9, <1>10, <1>12, UpGrown
<1>14. ASSUME NEW o \in Mentions(x.parts)
       PROVE  \E i \in 1 .. Len(ds) : o \in Mentions(ds[i].parts)
  <2>1. PICK p \in x.parts : p.kind = "removal" /\ p.obj = o BY DEF Mentions, Removals
  <2>2. PICK i \in 1 .. Len(ds) : p \in ds[i].parts BY DEF Firsts
  <2> QED BY <2>1, <2>2 DEF Mentions, Removals
<1>15. Mentions(x.parts) \subseteq Named(us) BY <1>5, <1>14 DEF Named
<1>16. Mentions(x.parts) \cap Named(g) = {}
  <2> SUFFICES ASSUME NEW o \in Mentions(x.parts), NEW j \in 1 .. Len(g),
                      o \in Mentions(g[j].parts)
               PROVE  FALSE
    BY DEF Named
  <2>1. PICK i \in 1 .. Len(ds) : o \in Mentions(ds[i].parts) BY <1>14
  <2>2. i + m \in 1 .. Len(us) /\ Twin(ds[i], us[i + m]) BY SliceDelta
  <2>3. j + 0 \in 1 .. Len(us) /\ Twin(g[j], us[j + 0]) BY SliceDelta
  <2>4. j + 0 = j /\ j # i + m BY <1>7, <1>8
  <2> QED BY <1>3, <2>1, <2>2, <2>3, <2>4 DEF Apart, Twin
<1>17. Apart(h) /\ Named(h) \subseteq Named(us) BY <1>6, <1>12, <1>15, <1>16, NamedGrown
<1>18. Down(d, qs, b, u) /\ Apart(qs) /\ Named(qs) \subseteq Named(rs)
  BY <1>3, DownPrefix, NamedSlice DEF Stacks
<1> QED BY <1>1, <1>2, <1>11, <1>13, <1>17, <1>18 DEF Stacks

\* The undos and redos replaced, the rest as it was.
Relisted(D, E, undos, redos) == E = [D EXCEPT !.redos = redos, !.undos = undos]

LEMMA ListsKept ==
    ASSUME NEW S \in SUBSET Objects, NEW D \in Kept(S),
           NEW undos \in Seq(Stored(S)), NEW redos \in Seq(Stored(S)),
           Stacks(D.data, D.filo, undos, redos, Start(D.data), D.data.time),
           NEW E, Relisted(D, E, undos, redos)
    PROVE  /\ E \in Kept(S) /\ E.data = D.data /\ E.undos = undos /\ E.redos = redos
           /\ E.filo = D.filo /\ E.nested = D.nested
<1>1. E = [D EXCEPT !.redos = redos, !.undos = undos] BY DEF Relisted
<1>2. D \in Documents(S) BY KeptFacts
<1>3. /\ E.data = D.data /\ E.undos = undos /\ E.redos = redos /\ E.filo = D.filo
      /\ E.nested = D.nested /\ E.limit = D.limit
  BY <1>1, <1>2 DEF Documents, Drafts
<1>4. E \in Documents(S) BY <1>1, <1>2, <1>3 DEF Documents, Drafts
<1>5. Piled(E) BY <1>3 DEF Piled
<1>6. D.data \in Fine(S) /\ Tuned(D) /\ Spares(D.data, D.filo) /\ Shaped(D) BY KeptFacts
<1>7. Tuned(E) /\ Shaped(E) BY <1>3, <1>6 DEF Tuned, Shaped, Opened
<1> QED BY <1>3, <1>4, <1>5, <1>6, <1>7 DEF Kept

\* The undos after the first ones made one, and the redos shortened.
Compacted(S, D, E) == /\ Alongside(D, E) /\ Visible(E.data) = Visible(D.data)
                   /\ Slice(E.redos, D.redos, 0)
                   /\ \E g \in Seq(Stored(S)), x \in Stored(S) :
                         /\ Slice(g, D.undos, 0) /\ Len(g) < Len(D.undos)
                         /\ x.back = D.undos[Len(g) + 1].back
                         /\ E.undos = Append(g, x)

LEMMA PerformDeltaCompactionMade ==
    ASSUME Careful, Keeping, PerformDeltaCompaction
    PROVE  \E S \in SUBSET Objects : \E E \in Kept(S) :
              doc \in Kept(S) /\ Become(E) /\ Compacted(S, doc, E)
<1> DEFINE marked == Marked(doc.undos)
           merged == SubSeq(doc.undos, marked + 1, Len(doc.undos))
           times == IF merged = << >> THEN NullDelta
                    ELSE [NullDelta EXCEPT !.begin = merged[1].begin, !.end = Last(merged).end,
                                           !.back = merged[1].back]
           rest == IF doc.fromRedo THEN SubSeq(doc.redos, 1, Marked(doc.redos)) ELSE << >>
           slots == {p.slot : p \in UNION {ds.parts : ds \in Range(merged)}}
<1>1. PICK S : S = Slotted(doc.data) OBVIOUS
<1>2. S \in SUBSET Objects /\ doc \in Kept(S) /\ doc \in Documents(S) BY <1>1, KeepingFacts
<1>3. merged # << >> /\ Mergeable(merged) BY DEF PerformDeltaCompaction
<1>4. PICK P \in FirstParts(merged, slots) :
          Become([doc EXCEPT !.redos = rest,
                     !.undos = Append(SubSeq(doc.undos, 1, marked), [times EXCEPT !.parts = P])])
  BY DEF PerformDeltaCompaction
<1>5. PICK us \in Seq(Stored(S)) : us = doc.undos BY <1>2, KeptFacts
<1>6. PICK rs \in Seq(Stored(S)) : rs = doc.redos BY <1>2, KeptFacts
<1>7. PICK n \in Nat : n = Len(us) BY LenProperties
<1>8. PICK m \in 0 .. n : m = marked BY <1>5, <1>7, MarkedBound
<1>9. PICK ds : ds = SubSeq(us, m + 1, n) OBVIOUS
<1>10. ds = merged BY <1>5, <1>7, <1>8, <1>9
<1>11. ds \in Seq(Stored(S)) /\ Slice(ds, us, m) /\ Len(ds) + m = Len(us)
  <2>1. Lasts(ds, us, n, m) BY <1>9 DEF Lasts
  <2> QED BY <1>7, <2>1, SuffixSlice
<1>12. ds # << >> /\ Mergeable(ds) BY <1>3, <1>10
<1>13. PICK g : g = SubSeq(us, 1, m) OBVIOUS
<1>14. g \in Seq(Stored(S)) /\ Slice(g, us, 0) /\ Len(g) = m
  BY <1>7, <1>13, PrefixSlice
<1>15. PICK qs : qs = rest OBVIOUS
<1>16. qs \in Seq(Stored(S)) /\ Slice(qs, rs, 0)
  <2>1. CASE doc.fromRedo
    <3>1. PICK k \in 0 .. Len(rs) : k = Marked(rs) BY MarkedBound
    <3>2. qs = SubSeq(rs, 1, k) BY <1>6, <1>15, <2>1, <3>1
    <3> QED BY <3>2, PrefixSlice
  <2>2. CASE ~doc.fromRedo
    <3>1. qs = << >> BY <1>15, <2>2
    <3> QED BY <3>1, WholeSlice, EmptySeq
  <2> QED BY <2>1, <2>2
<1>17. PICK x : x = [times EXCEPT !.parts = P] OBVIOUS
<1>18. Become([doc EXCEPT !.redos = qs, !.undos = Append(g, x)])
  BY <1>4, <1>5, <1>8, <1>13, <1>15, <1>17
<1>19. times = [NullDelta EXCEPT !.begin = ds[1].begin, !.end = Last(ds).end, !.back = ds[1].back]
  BY <1>3, <1>10
<1>20. PICK names : names = slots OBVIOUS
<1>21. names = {p.slot : p \in UNION {y.parts : y \in Range(ds)}} BY <1>10, <1>20
<1>22. P \in FirstParts(ds, names) BY <1>4, <1>10, <1>20
<1> HIDE DEF marked, merged, rest, slots, times
<1>23. Firsts(ds, P) BY <1>11, <1>21, <1>22, FirstPartsFirsts
<1>24. P \subseteq Parts(S) /\ IsFiniteSet(P)
  <2>1. PICK U : U = UNION {ds[i].parts : i \in DOMAIN ds} OBVIOUS
  <2>2. IsFiniteSet(U) /\ U \subseteq Parts(S) BY <1>11, <2>1, PartsFinite
  <2>3. P \subseteq U BY <1>22, <2>1 DEF FirstParts
  <2> QED BY <2>2, <2>3, FS_Subset
<1>25. /\ x \in Stored(S) /\ x.parts = P /\ x.begin = ds[1].begin /\ x.end = ds[Len(ds)].end
       /\ x.back = ds[1].back
  <2>1. NullDelta \in Delta BY NullStored DEF Stored
  <2>2. ds[1] \in Stored(S) /\ ds[Len(ds)] \in Stored(S) /\ Last(ds) = ds[Len(ds)]
    BY <1>11, <1>12, FirstOf
  <2>3. PICK begin \in Nat : begin = ds[1].begin BY <2>2 DEF Stored, Delta
  <2>4. PICK end \in Nat : end = ds[Len(ds)].end BY <2>2 DEF Stored, Delta
  <2>5. PICK back \in Contents : back = ds[1].back BY <2>2 DEF Stored, Delta
  <2>6. PICK e : e = times OBVIOUS
  <2>7. e = [NullDelta EXCEPT !.begin = begin, !.end = end, !.back = back]
    BY <1>19, <2>2, <2>3, <2>4, <2>5, <2>6
  <2>8. e \in Delta /\ e.begin = begin /\ e.end = end /\ e.back = back
    BY <2>1, <2>7 DEF Delta
  <2>9. x = [e EXCEPT !.parts = P] BY <1>17, <2>6
  <2>10. P \in SUBSET AttributeDelta BY <1>24 DEF Parts
  <2>11. /\ x \in Delta /\ x.parts = P /\ x.begin = begin /\ x.end = end /\ x.back = back
    BY <2>8, <2>9, <2>10 DEF Delta
  <2> QED BY <1>24, <2>3, <2>4, <2>5, <2>11 DEF Stored
<1>26. PICK h : h = Append(g, x) OBVIOUS
<1>27. h \in Seq(Stored(S)) BY <1>14, <1>25, <1>26, AppendProperties
<1>28. PICK d : d = doc.data OBVIOUS
<1>29. PICK f : f = doc.filo OBVIOUS
<1>30. PICK c : c = Start(d) OBVIOUS
<1>31. PICK t : t = d.time OBVIOUS
<1>32. Stacks(d, f, us, rs, c, t)
  BY <1>2, <1>5, <1>6, <1>28, <1>29, <1>30, <1>31, KeptFacts DEF Piled
<1>33. Firsts(ds, x.parts) BY <1>23, <1>25
<1>34. Stacks(d, f, h, qs, c, t)
  BY <1>2, <1>11, <1>12, <1>14, <1>16, <1>25, <1>26, <1>32, <1>33, CompactedStacks
<1>35. PICK E : E = [doc EXCEPT !.redos = qs, !.undos = h] OBVIOUS
<1>36. /\ E \in Kept(S) /\ E.data = doc.data /\ E.undos = h /\ E.redos = qs
       /\ E.filo = doc.filo /\ E.nested = doc.nested
  <2>1. Stacks(doc.data, doc.filo, h, qs, Start(doc.data), doc.data.time)
    BY <1>28, <1>29, <1>30, <1>31, <1>34
  <2>2. PICK D \in Kept(S) : D = doc BY <1>2
  <2>3. Relisted(D, E, h, qs) BY <1>35, <2>2 DEF Relisted
  <2>4. Stacks(D.data, D.filo, h, qs, Start(D.data), D.data.time) BY <2>1, <2>2
  <2> QED BY <1>2, <1>16, <1>27, <2>2, <2>3, <2>4, ListsKept
<1>37. Len(g) < Len(us) /\ x.back = us[Len(g) + 1].back
  <2>1. Len(ds) \in Nat \ {0} BY <1>11, <1>12, FirstOf
  <2>2. Twin(ds[1], us[1 + m]) BY <1>11, <2>1 DEF Slice
  <2>3. Len(g) + 1 = 1 + m BY <1>14
  <2> QED BY <1>7, <1>11, <1>14, <1>25, <2>1, <2>2, <2>3 DEF Twin
<1>38. Compacted(S, doc, E)
  <2>1. Alongside(doc, E) /\ Visible(E.data) = Visible(doc.data)
    BY <1>36 DEF Alongside, Opened
  <2>2. /\ Slice(E.redos, doc.redos, 0) /\ Slice(g, doc.undos, 0) /\ E.undos = Append(g, x)
        /\ Len(g) < Len(doc.undos) /\ x.back = doc.undos[Len(g) + 1].back
    BY <1>5, <1>6, <1>14, <1>16, <1>26, <1>36, <1>37
  <2> QED BY <1>14, <1>25, <2>1, <2>2 DEF Compacted
<1> QED BY <1>2, <1>18, <1>26, <1>35, <1>36, <1>38

-----------------------------------------------------------------------------

LEMMA InitKept == ASSUME Init PROVE Keeping
<1>1. Inv BY InitInv
<1>2. PICK S : S = Slotted(doc.data) OBVIOUS
<1>3. doc \in Documents(S) /\ S \in SUBSET Objects BY <1>1, <1>2, SlottedObjects DEF Inv
<1>4. PICK nested \in Modes, only \in Denials, limit \in Limits :
        /\ nested => limit > 0
        /\ doc = [data |-> [NewData EXCEPT !.allow = ~only], undos |-> << >>,
                  redos |-> << >>, filo |-> << >>, limit |-> Clamped(limit),
                  nested |-> nested, only |-> only, from |-> FALSE, fromRedo |-> FALSE]
  BY DEF Init
<1>5. PICK d : d = doc.data OBVIOUS
<1>6. d.attr = [o \in Objects |-> NoAttribute] /\ d.transaction = 0 /\ d.fault = "none"
  BY <1>4, <1>5 DEF NewData
<1>7. doc.undos = << >> /\ doc.redos = << >> /\ doc.filo = << >> BY <1>4
<1>8. d \in Fine(S)
  <2>1. d \in Frames(S) BY <1>3, <1>5, DocumentFacts
  <2>2. Distinct(d) BY <1>6 DEF Distinct, NoAttribute
  <2>3. Valued(d) BY <1>6, TreeAssumption DEF Valued, NoAttribute
  <2> QED BY <1>6, <2>1, <2>2, <2>3 DEF Fine
<1>9. Piled(doc)
  <2>1. PICK c : c = Start(d) OBVIOUS
  <2>2. PICK t : t = d.time OBVIOUS
  <2>3. PICK e : e = << >> OBVIOUS
  <2>4. /\ Down(d, e, c, t) /\ Up(d, e, c, t) /\ Apart(e) /\ Named(e) = {} /\ Layered(e)
        /\ Foot(e, c) = c /\ FootTime(e, t) = t
    BY <2>3, EmptyStacks
  <2>5. Stacks(d, e, e, e, c, t) BY <2>4 DEF Stacks
  <2> QED BY <1>5, <1>7, <2>1, <2>2, <2>3, <2>5 DEF Piled
<1>10. ~Opened(doc) BY <1>5, <1>6 DEF Opened
<1>11. Tuned(doc) /\ Shaped(doc) BY <1>7, <1>10 DEF Tuned, Shaped
<1>12. Spares(doc.data, doc.filo) BY <1>3, <1>5, <1>6, <1>8, SparesClean
<1> QED BY <1>2, <1>3, <1>5, <1>8, <1>9, <1>11, <1>12 DEF Keeping, Kept

LEMMA NextKept == Careful /\ Keeping /\ [Next]_doc => Keeping'
<1> SUFFICES ASSUME Careful, Keeping, [Next]_doc PROVE Keeping' OBVIOUS
<1>1. CASE \E s \in Slots, v \in Values : AddAttribute(s, v) \/ Change(s, v)
  <2>1. \E S \in SUBSET Objects : \E E \in Kept(S) : Become(E) BY <1>1, AddAttributeMade, ChangeMade
  <2> QED BY <2>1, BecomeKept
<1>2. CASE \E s \in Slots : ForgetAttribute(s)
  <2>1. \E S \in SUBSET Objects : \E E \in Kept(S) : Become(E) BY <1>2, ForgetAttributeMade
  <2> QED BY <2>1, BecomeKept
<1>3. CASE \/ OpenCommand \/ CommitCommand \/ NewCommand \/ AbortCommand
           \/ UndoCommand \/ RedoCommand
  BY <1>3, CommandsKept
<1>4. CASE \E L \in Limits : SetUndoLimit(L)
  <2>1. \E S \in SUBSET Objects : \E E \in Kept(S) : Become(E) BY <1>4, SetUndoLimitMade
  <2> QED BY <2>1, BecomeKept
<1>5. CASE ClearUndos \/ ClearRedos \/ RemoveFirstUndo
  <2>1. \E S \in SUBSET Objects : \E E \in Kept(S) : Become(E) BY <1>5, ClearsMade
  <2> QED BY <2>1, BecomeKept
<1>6. CASE InitDeltaCompaction
  <2>1. \E S \in SUBSET Objects : \E E \in Kept(S) : Become(E) BY <1>6, InitDeltaCompactionMade
  <2> QED BY <2>1, BecomeKept
<1>7. CASE PerformDeltaCompaction
  <2>1. \E S \in SUBSET Objects : \E E \in Kept(S) : Become(E) BY <1>7, PerformDeltaCompactionMade
  <2> QED BY <2>1, BecomeKept
<1>8. CASE UNCHANGED doc BY <1>8 DEF Keeping
<1> QED BY <1>1, <1>2, <1>3, <1>4, <1>5, <1>6, <1>7, <1>8 DEF Next

LEMMA KeepingNeverFails == Keeping => NeverFails
<1> SUFFICES ASSUME Keeping PROVE NeverFails OBVIOUS
<1>1. PICK S : S = Slotted(doc.data) OBVIOUS
<1>2. S \in SUBSET Objects /\ doc \in Kept(S) BY <1>1, KeepingFacts
<1> QED BY <1>2, KeptFacts, FineFacts DEF NeverFails

\* Whatever a careful application does, in either mode and under any limit, no
\* undo, redo or abort throws or finds a delta that does not apply: what is
\* stored leads back, step by step, from what the document holds
\* (TDocStd_Document::Undo, Redo, AbortTransaction, TDF_Delta::Apply).
THEOREM NeverFailing == ASSUME Careful PROVE Spec => []NeverFails
<1>1. Careful OBVIOUS
<1>2. Keeping /\ [Next]_doc => Keeping' BY <1>1, NextKept
<1>3. Spec => []Keeping BY <1>2, InitKept, PTL DEF Spec
<1> QED BY <1>3, KeepingNeverFails, PTL

-----------------------------------------------------------------------------
(* The document as UndoStack sees it.                                        *)

\* What the open commands started from, the outermost first, and what stored
\* deltas bring back.
Opens(D) == IF D.nested THEN [i \in 1 .. Depth(D) |-> Reverse(D.filo)[i].back]
            ELSE [i \in 1 .. Depth(D) |-> D.data.was]
Backing(f) == [i \in DOMAIN f |-> f[i].back]

\* What the outermost command started from.
Outermost(D) == IF Opens(D) = << >> THEN Visible(D.data) ELSE Opens(D)[1]

\* UndoStack's operators on sequences are those of Document.
LEMMA SameOperators ==
    \A f, g : /\ Promise!Front(f) = Front(f) /\ Promise!Last(f) = Last(f)
              /\ Promise!IsPrefix(f, g) = IsPrefix(f, g)
              /\ Promise!IsSuffix(f, g) = IsSuffix(f, g)
BY DEF Promise!Front, Promise!Last, Promise!IsPrefix, Promise!IsSuffix, Promise!Reverse, Front,
       Last, IsPrefix, IsSuffix, Reverse

LEMMA ShownUndo ==
    ASSUME Backing(doc.undos) # << >>,
           Visible(doc.data)' = Last(Backing(doc.undos)),
           Backing(doc.undos)' = Front(Backing(doc.undos)),
           Backing(doc.redos)' = <<Outermost(doc)>> \o Backing(doc.redos),
           Opens(doc)' = IF Opens(doc) = << >> THEN << >> ELSE <<Last(Backing(doc.undos))>>
    PROVE  Promise!Undo
BY SameOperators DEF Promise!Undo, Promise!Reopened, Promise!Base, Outermost, Backing, Opens

LEMMA ShownMerge ==
    ASSUME NEW k \in 1 .. Len(Backing(doc.undos)),
           Backing(doc.undos)' = SubSeq(Backing(doc.undos), 1, k),
           IsPrefix(Backing(doc.redos)', Backing(doc.redos)),
           Visible(doc.data)' = Visible(doc.data),
           Opens(doc)' = Opens(doc)
    PROVE  Promise!Merge
BY SameOperators DEF Promise!Merge, Backing, Opens

-----------------------------------------------------------------------------
(* What lists of deltas bring back.                                          *)

LEMMA SingleSeq ==
    ASSUME NEW X, NEW a \in Seq(X), Len(a) = 1, NEW c, a[1] = c
    PROVE  a = <<c>> /\ Front(a) = << >> /\ Last(a) = c /\ a # << >>
<1>1. c \in X BY ElementOfSeq
<1>2. PICK b \in Seq(X) : b = <<c>> BY <1>1
<1>3. Len(b) = 1 /\ b[1] = c BY <1>2
<1>4. \A i \in 1 .. Len(a) : a[i] = b[i] BY <1>3
<1>5. a = b BY <1>3, <1>4, SeqEqual
<1>6. Front(a) = SubSeq(a, 1, 0) /\ Last(a) = c BY DEF Front, Last
<1>7. a # << >>
  <2>1. a = << >> <=> Len(a) = 0 BY LenZero
  <2> QED BY <2>1
<1> QED BY <1>2, <1>5, <1>6, <1>7, SubSeqEmpty

LEMMA BackingForm ==
    ASSUME NEW S, NEW f \in Seq(Stored(S))
    PROVE  /\ Backing(f) \in Seq(Contents) /\ Len(Backing(f)) = Len(f) /\ Len(f) \in Nat
           /\ \A i \in 1 .. Len(f) : Backing(f)[i] = f[i].back
           /\ Backing(f) = << >> <=> f = << >>
<1>1. Len(f) \in Nat /\ DOMAIN f = 1 .. Len(f) BY LenProperties
<1>2. \A i \in 1 .. Len(f) : f[i].back \in Contents
  <2> SUFFICES ASSUME NEW i \in 1 .. Len(f) PROVE f[i].back \in Contents OBVIOUS
  <2>1. f[i] \in Delta BY ElementOfSeq DEF Stored
  <2> QED BY <2>1 DEF Delta
<1>3. PICK g : g = [i \in 1 .. Len(f) |-> f[i].back] OBVIOUS
<1>4. g \in [1 .. Len(f) -> Contents] BY <1>2, <1>3
<1>5. g \in Seq(Contents) BY <1>1, <1>4, IsASeq
<1>6. Len(g) = Len(f) BY <1>1, <1>4, <1>5, LenProperties
<1>7. g = << >> <=> f = << >>
  <2>1. g = << >> <=> Len(g) = 0 BY <1>5, EmptySeq
  <2>2. f = << >> <=> Len(f) = 0 BY EmptySeq
  <2> QED BY <1>6, <2>1, <2>2
<1>8. g = Backing(f) BY <1>1, <1>3 DEF Backing
<1> QED BY <1>1, <1>3, <1>5, <1>6, <1>7, <1>8

\* Lists that bring back the same contents.
LEMMA BackingSame ==
    ASSUME NEW S, NEW f \in Seq(Stored(S)), NEW T, NEW g \in Seq(Stored(T)), Len(g) = Len(f),
           \A i \in 1 .. Len(f) : g[i].back = f[i].back
    PROVE  Backing(g) = Backing(f)
<1>1. PICK b \in Seq(Contents) : b = Backing(f) BY BackingForm
<1>2. PICK h \in Seq(Contents) : h = Backing(g) BY BackingForm
<1>3. Len(b) = Len(f) /\ \A i \in 1 .. Len(f) : b[i] = f[i].back BY <1>1, BackingForm
<1>4. Len(h) = Len(g) /\ \A i \in 1 .. Len(g) : h[i] = g[i].back BY <1>2, BackingForm
<1>5. \A i \in 1 .. Len(b) : b[i] = h[i] BY <1>3, <1>4
<1>6. b = h BY <1>3, <1>4, <1>5, SeqEqual
<1> QED BY <1>1, <1>2, <1>6

LEMMA BackingAlike ==
    ASSUME NEW S, NEW f \in Seq(Stored(S)), NEW g \in Seq(Stored(S)), Alike(g, f)
    PROVE  Backing(g) = Backing(f)
<1>1. Slice(g, f, 0) /\ Len(g) = Len(f) BY DEF Alike
<1>2. \A i \in 1 .. Len(f) : g[i].back = f[i].back
  <2> SUFFICES ASSUME NEW i \in 1 .. Len(f) PROVE g[i].back = f[i].back OBVIOUS
  <2>1. i + 0 = i OBVIOUS
  <2>2. Twin(g[i], f[i]) BY <1>1, <2>1 DEF Slice
  <2> QED BY <2>2 DEF Twin
<1> QED BY <1>1, <1>2, BackingSame

LEMMA BackingAppend ==
    ASSUME NEW S, NEW f \in Seq(Stored(S)), NEW x \in Stored(S)
    PROVE  Backing(Append(f, x)) = Append(Backing(f), x.back)
<1>1. PICK g \in Seq(Stored(S)) : g = Append(f, x) BY AppendProperties
<1>2. Len(g) = Len(f) + 1 /\ g[Len(f) + 1] = x /\ \A i \in 1 .. Len(f) : g[i] = f[i]
  BY <1>1, AppendProperties
<1>3. PICK b \in Seq(Contents) : b = Backing(f) BY BackingForm
<1>4. Len(b) = Len(f) /\ Len(f) \in Nat /\ \A i \in 1 .. Len(f) : b[i] = f[i].back
  BY <1>3, BackingForm
<1>5. PICK c \in Contents : c = x.back BY DEF Stored, Delta
<1>6. PICK a \in Seq(Contents) : a = Append(b, c) BY AppendProperties
<1>7. Len(a) = Len(b) + 1 /\ a[Len(b) + 1] = c /\ \A i \in 1 .. Len(b) : a[i] = b[i]
  BY <1>6, AppendProperties
<1>8. PICK h \in Seq(Contents) : h = Backing(g) BY BackingForm
<1>9. Len(h) = Len(g) /\ \A i \in 1 .. Len(g) : h[i] = g[i].back BY <1>8, BackingForm
<1>10. \A i \in 1 .. Len(h) : h[i] = a[i]
  <2> SUFFICES ASSUME NEW i \in 1 .. Len(h) PROVE h[i] = a[i] OBVIOUS
  <2>1. i \in 1 .. Len(f) \/ i = Len(f) + 1 BY <1>2, <1>4, <1>9
  <2>2. h[i] = g[i].back BY <1>9
  <2>3. CASE i \in 1 .. Len(f) BY <1>2, <1>4, <1>7, <2>2, <2>3
  <2>4. CASE i = Len(f) + 1 BY <1>2, <1>4, <1>5, <1>7, <2>2, <2>4
  <2> QED BY <2>1, <2>3, <2>4
<1>11. h = a BY <1>2, <1>4, <1>7, <1>9, <1>10, SeqEqual
<1> QED BY <1>1, <1>3, <1>5, <1>6, <1>8, <1>11

LEMMA BackingPush ==
    ASSUME NEW S, NEW f \in Seq(Stored(S)), NEW x \in Stored(S)
    PROVE  Backing(<<x>> \o f) = <<x.back>> \o Backing(f)
<1>1. PICK b \in Seq(Contents) : b = Backing(f) BY BackingForm
<1>2. Len(b) = Len(f) /\ Len(f) \in Nat /\ \A i \in 1 .. Len(f) : b[i] = f[i].back
  BY <1>1, BackingForm
<1>3. PICK c \in Contents : c = x.back BY DEF Stored, Delta
<1>4. PICK g \in Seq(Stored(S)) : g = <<x>> \o f BY PushGrown
<1>5. Len(g) = Len(f) + 1 /\ g[1] = x /\ \A i \in 1 .. Len(f) : g[i + 1].back = f[i].back
  <2>1. Len(g) = Len(f) + 1 /\ Slice(f, g, 1) BY <1>4, PushGrown, Zenon
  <2>2. g[1] = x BY <1>4, PushGrown, Zenon
  <2>3. \A i \in 1 .. Len(f) : Twin(f[i], g[i + 1]) BY <2>1 DEF Slice
  <2> QED BY <2>1, <2>2, <2>3 DEF Twin
<1>6. PICK a \in Seq(Contents) : a = <<c>> \o b
  <2>1. <<c>> \in Seq(Contents) OBVIOUS
  <2> QED BY <2>1, ConcatProperties
<1>7. Len(a) = Len(b) + 1 /\ a[1] = c /\ \A i \in 1 .. Len(b) : a[i + 1] = b[i]
  <2>1. <<c>> \in Seq(Contents) /\ Len(<<c>>) = 1 /\ <<c>>[1] = c OBVIOUS
  <2>2. Len(a) = 1 + Len(b) BY <1>6, <2>1, ConcatProperties
  <2>3. \A i \in 1 .. Len(a) : a[i] = IF i =< 1 THEN <<c>>[i] ELSE b[i - 1]
    BY <1>6, <2>1, <2>2, ConcatProperties
  <2> QED BY <1>2, <2>1, <2>2, <2>3
<1>8. PICK h \in Seq(Contents) : h = Backing(g) BY BackingForm
<1>9. Len(h) = Len(g) /\ \A i \in 1 .. Len(g) : h[i] = g[i].back BY <1>8, BackingForm
<1>10. \A i \in 1 .. Len(h) : h[i] = a[i]
  <2> SUFFICES ASSUME NEW i \in 1 .. Len(h) PROVE h[i] = a[i] OBVIOUS
  <2>1. h[i] = g[i].back BY <1>9
  <2>2. CASE i = 1 BY <1>3, <1>5, <1>7, <2>1, <2>2
  <2>3. CASE i # 1
    <3>1. PICK j \in 1 .. Len(f) : i = j + 1
      <4>1. i - 1 \in 1 .. Len(f) /\ i = (i - 1) + 1 BY <1>2, <1>5, <1>9, <2>3
      <4> QED BY <4>1
    <3> QED BY <1>2, <1>5, <1>7, <2>1, <3>1
  <2> QED BY <2>2, <2>3
<1>11. h = a BY <1>2, <1>5, <1>7, <1>9, <1>10, SeqEqual
<1> QED BY <1>1, <1>3, <1>4, <1>6, <1>8, <1>11

LEMMA BackingFront ==
    ASSUME NEW S, NEW f \in Seq(Stored(S)), f # << >>
    PROVE  Backing(Front(f)) = Front(Backing(f)) /\ Last(f).back = Last(Backing(f))
<1>1. PICK b \in Seq(Contents) : b = Backing(f) BY BackingForm
<1>2. /\ Len(b) = Len(f) /\ Len(f) \in Nat /\ b # << >>
      /\ \A i \in 1 .. Len(f) : b[i] = f[i].back
  BY <1>1, BackingForm
<1>3. Len(f) # 0 BY EmptySeq
<1>4. PICK g \in Seq(Stored(S)) : g = Front(f) BY FirstOf
<1>5. Len(g) = Len(f) - 1 /\ \A i \in 1 .. Len(f) - 1 : g[i] = f[i]
  BY <1>2, <1>3, <1>4, SubSeqProperties DEF Front
<1>6. PICK a \in Seq(Contents) : a = Front(b) BY <1>2, FirstOf
<1>7. Len(a) = Len(b) - 1 /\ \A i \in 1 .. Len(b) - 1 : a[i] = b[i]
  BY <1>2, <1>3, <1>6, SubSeqProperties DEF Front
<1>8. PICK h \in Seq(Contents) : h = Backing(g) BY BackingForm
<1>9. Len(h) = Len(g) /\ \A i \in 1 .. Len(g) : h[i] = g[i].back BY <1>8, BackingForm
<1>10. \A i \in 1 .. Len(h) : h[i] = a[i]
  <2> SUFFICES ASSUME NEW i \in 1 .. Len(h) PROVE h[i] = a[i] OBVIOUS
  <2>1. i \in 1 .. Len(f) - 1 /\ i \in 1 .. Len(f) BY <1>2, <1>3, <1>5, <1>9
  <2> QED BY <1>2, <1>5, <1>7, <1>9, <2>1
<1>11. h = a BY <1>2, <1>3, <1>5, <1>7, <1>9, <1>10, SeqEqual
<1>12. Last(f).back = Last(b) BY <1>2, <1>3 DEF Last
<1> QED BY <1>1, <1>4, <1>6, <1>8, <1>11, <1>12

LEMMA BackingTail ==
    ASSUME NEW S, NEW f \in Seq(Stored(S)), f # << >>
    PROVE  Backing(Tail(f)) = Tail(Backing(f)) /\ Head(f).back = Head(Backing(f))
<1>1. PICK b \in Seq(Contents) : b = Backing(f) BY BackingForm
<1>2. /\ Len(b) = Len(f) /\ Len(f) \in Nat /\ b # << >>
      /\ \A i \in 1 .. Len(f) : b[i] = f[i].back
  BY <1>1, BackingForm
<1>3. Len(f) # 0 BY EmptySeq
<1>4. PICK g \in Seq(Stored(S)) : g = Tail(f) BY FirstOf
<1>5. Len(g) = Len(f) - 1 /\ \A i \in 1 .. Len(f) - 1 : g[i] = f[i + 1]
  BY <1>4, HeadTailProperties
<1>6. PICK a \in Seq(Contents) : a = Tail(b) BY <1>2, FirstOf
<1>7. Len(a) = Len(b) - 1 /\ \A i \in 1 .. Len(b) - 1 : a[i] = b[i + 1]
  BY <1>2, <1>6, HeadTailProperties
<1>8. PICK h \in Seq(Contents) : h = Backing(g) BY BackingForm
<1>9. Len(h) = Len(g) /\ \A i \in 1 .. Len(g) : h[i] = g[i].back BY <1>8, BackingForm
<1>10. \A i \in 1 .. Len(h) : h[i] = a[i]
  <2> SUFFICES ASSUME NEW i \in 1 .. Len(h) PROVE h[i] = a[i] OBVIOUS
  <2>1. i \in 1 .. Len(f) - 1 /\ i + 1 \in 1 .. Len(f) BY <1>2, <1>3, <1>5, <1>9
  <2> QED BY <1>2, <1>5, <1>7, <1>9, <2>1
<1>11. h = a BY <1>2, <1>3, <1>5, <1>7, <1>9, <1>10, SeqEqual
<1>12. Head(f) = f[1] /\ Head(b) = b[1] BY <1>2, FirstOf
<1>13. Head(f).back = Head(b) BY <1>2, <1>3, <1>12
<1> QED BY <1>1, <1>4, <1>6, <1>8, <1>11, <1>13

\* The first elements of a list, or its last.
LEMMA PrefixForm ==
    ASSUME NEW X, NEW f \in Seq(X), NEW g \in Seq(X), Len(g) =< Len(f),
           \A i \in 1 .. Len(g) : g[i] = f[i]
    PROVE  IsPrefix(g, f)
<1>1. PICK n \in Nat : n = Len(g) BY LenProperties
<1>2. Len(f) \in Nat BY LenProperties
<1>3. PICK a \in Seq(X) : a = SubSeq(g, 1, n) BY <1>1, SubSeqProperties
<1>4. Len(a) = n /\ \A i \in 1 .. n : a[i] = g[i] BY <1>1, <1>3, SubSeqProperties
<1>5. PICK b \in Seq(X) : b = SubSeq(f, 1, n) BY <1>1, <1>2, SubSeqProperties
<1>6. Len(b) = n /\ \A i \in 1 .. n : b[i] = f[i] BY <1>1, <1>2, <1>5, SubSeqProperties
<1>7. a = b BY <1>1, <1>4, <1>6, SeqEqual
<1> QED BY <1>1, <1>3, <1>5, <1>7 DEF IsPrefix

LEMMA ReverseForm ==
    ASSUME NEW X, NEW f \in Seq(X)
    PROVE  /\ Reverse(f) \in Seq(X) /\ Len(Reverse(f)) = Len(f)
           /\ \A i \in 1 .. Len(f) : Reverse(f)[i] = f[Len(f) - i + 1]
<1>1. Len(f) \in Nat BY LenProperties
<1>2. PICK g : g = Reverse(f) OBVIOUS
<1>3. \A i \in 1 .. Len(f) : Len(f) - i + 1 \in 1 .. Len(f) BY <1>1
<1>4. \A i \in 1 .. Len(f) : f[Len(f) - i + 1] \in X BY <1>3, ElementOfSeq
<1>5. g \in [1 .. Len(f) -> X] BY <1>2, <1>4 DEF Reverse
<1>6. g \in Seq(X) BY <1>1, <1>5, IsASeq
<1>7. Len(g) = Len(f) BY <1>1, <1>5, <1>6, LenProperties
<1>8. \A i \in 1 .. Len(f) : g[i] = f[Len(f) - i + 1] BY <1>2 DEF Reverse
<1> QED BY <1>2, <1>6, <1>7, <1>8

LEMMA SuffixForm ==
    ASSUME NEW X, NEW f \in Seq(X), NEW g \in Seq(X), NEW k \in Nat, Len(g) + k = Len(f),
           \A i \in 1 .. Len(g) : g[i] = f[i + k]
    PROVE  IsSuffix(g, f)
<1>1. PICK m \in Nat : m = Len(f) BY LenProperties
<1>2. PICK a \in Seq(X) : a = Reverse(g) BY ReverseForm
<1>3. PICK b \in Seq(X) : b = Reverse(f) BY ReverseForm
<1>4. PICK n \in Nat : n = Len(g) BY LenProperties
<1>5. Len(a) = n /\ \A i \in 1 .. n : a[i] = g[n - i + 1] BY <1>2, <1>4, ReverseForm
<1>6. Len(b) = m /\ \A i \in 1 .. m : b[i] = f[m - i + 1] BY <1>1, <1>3, ReverseForm
<1>7. n + k = m BY <1>1, <1>4
<1>8. \A i \in 1 .. Len(a) : a[i] = b[i]
  <2> SUFFICES ASSUME NEW i \in 1 .. n PROVE a[i] = b[i] BY <1>5
  <2>1. i \in 1 .. m BY <1>7
  <2>2. PICK j : j = n - i + 1 OBVIOUS
  <2>3. j \in 1 .. n /\ m - i + 1 = j + k BY <1>7, <2>2
  <2>4. a[i] = g[j] BY <1>5, <2>2
  <2>5. b[i] = f[j + k] BY <1>6, <2>1, <2>3
  <2> QED BY <1>4, <2>3, <2>4, <2>5
<1>9. IsPrefix(a, b)
  <2>1. Len(a) =< Len(b) BY <1>5, <1>6, <1>7
  <2> QED BY <1>8, <2>1, PrefixForm
<1> QED BY <1>2, <1>3, <1>9 DEF IsSuffix

LEMMA BackingPrefix ==
    ASSUME NEW S, NEW f \in Seq(Stored(S)), NEW g \in Seq(Stored(S)), Slice(g, f, 0)
    PROVE  IsPrefix(Backing(g), Backing(f))
<1>1. PICK b \in Seq(Contents) : b = Backing(f) BY BackingForm
<1>2. PICK h \in Seq(Contents) : h = Backing(g) BY BackingForm
<1>3. Len(b) = Len(f) /\ Len(f) \in Nat /\ \A i \in 1 .. Len(f) : b[i] = f[i].back
  BY <1>1, BackingForm
<1>4. Len(h) = Len(g) /\ Len(g) \in Nat /\ \A i \in 1 .. Len(g) : h[i] = g[i].back
  BY <1>2, BackingForm
<1>5. Len(g) =< Len(f) BY <1>3, <1>4 DEF Slice
<1>6. \A i \in 1 .. Len(h) : h[i] = b[i]
  <2> SUFFICES ASSUME NEW i \in 1 .. Len(g) PROVE h[i] = b[i] BY <1>4
  <2>1. i + 0 = i /\ i \in 1 .. Len(f) BY <1>3, <1>4, <1>5
  <2>2. Twin(g[i], f[i]) BY <2>1 DEF Slice
  <2> QED BY <1>3, <1>4, <2>1, <2>2 DEF Twin
<1>7. IsPrefix(h, b) BY <1>3, <1>4, <1>5, <1>6, PrefixForm
<1> QED BY <1>1, <1>2, <1>7

LEMMA BackingSuffix ==
    ASSUME NEW S, NEW f \in Seq(Stored(S)), NEW g \in Seq(Stored(S)), NEW k, Slice(g, f, k),
           Len(g) + k = Len(f)
    PROVE  IsSuffix(Backing(g), Backing(f))
<1>1. PICK b \in Seq(Contents) : b = Backing(f) BY BackingForm
<1>2. PICK h \in Seq(Contents) : h = Backing(g) BY BackingForm
<1>3. Len(b) = Len(f) /\ Len(f) \in Nat /\ \A i \in 1 .. Len(f) : b[i] = f[i].back
  BY <1>1, BackingForm
<1>4. Len(h) = Len(g) /\ Len(g) \in Nat /\ \A i \in 1 .. Len(g) : h[i] = g[i].back
  BY <1>2, BackingForm
<1>5. k \in Nat /\ Len(h) + k = Len(b) BY <1>3, <1>4 DEF Slice
<1>6. \A i \in 1 .. Len(h) : h[i] = b[i + k]
  <2> SUFFICES ASSUME NEW i \in 1 .. Len(g) PROVE h[i] = b[i + k] BY <1>4
  <2>1. i + k \in 1 .. Len(f) /\ Twin(g[i], f[i + k]) BY SliceDelta
  <2> QED BY <1>3, <1>4, <2>1 DEF Twin
<1>7. IsSuffix(h, b) BY <1>5, <1>6, SuffixForm
<1> QED BY <1>1, <1>2, <1>7

-----------------------------------------------------------------------------
(* What the open commands started from.                                      *)

LEMMA OpensNested ==
    ASSUME NEW S \in SUBSET Objects, NEW D \in Kept(S), D.nested
    PROVE  /\ Opens(D) \in Seq(Contents) /\ Len(Opens(D)) = Len(D.filo)
           /\ \A i \in 1 .. Len(D.filo) : Opens(D)[i] = D.filo[Len(D.filo) - i + 1].back
<1>1. PICK f \in Seq(Stored(S)) : f = D.filo BY KeptFacts
<1>2. PICK n \in Nat : n = Len(f) BY LenProperties
<1>3. PICK r \in Seq(Stored(S)) : r = Reverse(f) BY ReverseForm
<1>4. Len(r) = n /\ \A i \in 1 .. n : r[i] = f[n - i + 1] BY <1>2, <1>3, ReverseForm
<1>5. PICK g \in Seq(Contents) : g = Backing(r) BY BackingForm
<1>6. Len(g) = n /\ \A i \in 1 .. n : g[i] = r[i].back BY <1>4, <1>5, BackingForm
<1>7. DOMAIN r = 1 .. n BY <1>4, LenProperties
<1>8. Opens(D) = g BY <1>1, <1>2, <1>3, <1>5, <1>7 DEF Opens, Backing, Depth
<1> QED BY <1>1, <1>2, <1>4, <1>6, <1>8

LEMMA OpensFlat ==
    ASSUME NEW S \in SUBSET Objects, NEW D \in Kept(S), ~D.nested
    PROVE  /\ ~Opened(D) => Opens(D) = << >>
           /\ Opened(D) => Opens(D) = <<Start(D.data)>>
<1>1. Opens(D) = [i \in 1 .. D.data.transaction |-> D.data.was] BY DEF Opens, Depth
<1>2. (Opened(D) <=> D.data.transaction = 1) /\ D.data.transaction \in 0 .. 1 BY KeptFacts
<1>3. CASE Opened(D)
  <2>1. D.data.was = Start(D.data) BY <1>3, KeptFacts DEF Tuned
  <2> QED BY <1>1, <1>2, <1>3, <2>1
<1>4. CASE ~Opened(D) BY <1>1, <1>2, <1>4
<1> QED BY <1>3, <1>4

LEMMA OpensFacts ==
    ASSUME NEW S \in SUBSET Objects, NEW D \in Kept(S)
    PROVE  /\ Opens(D) \in Seq(Contents)
           /\ Opens(D) = << >> <=> ~Opened(D)
           /\ Outermost(D) = Foot(D.filo, Start(D.data))
           /\ Outermost(D) \in Contents
<1>1. D.data \in Fine(S) /\ Shaped(D) BY KeptFacts
<1>2. Start(D.data) \in Contents /\ Visible(D.data) \in Contents
  BY <1>1, StartContents, FineFacts, FrameFacts, VisibleContents
<1>3. ~Opened(D) => Start(D.data) = Visible(D.data) BY <1>1, CleanStart, KeptFacts
<1>4. CASE D.nested
  <2>1. PICK f \in Seq(Stored(S)) : f = D.filo BY KeptFacts
  <2>2. PICK g : g = Opens(D) OBVIOUS
  <2>3. /\ g \in Seq(Contents) /\ Len(g) = Len(f)
        /\ \A i \in 1 .. Len(f) : g[i] = f[Len(f) - i + 1].back
    BY <1>4, <2>1, <2>2, OpensNested
  <2>4. Len(f) \in Nat /\ (f = << >> <=> Len(f) = 0) BY LenZero
  <2>5. Len(g) \in Nat /\ (g = << >> <=> Len(g) = 0) BY <2>3, LenZero
  <2>6. Opened(D) <=> f # << >> BY <1>1, <1>4, <2>1 DEF Shaped
  <2>7. CASE f = << >>
    BY <1>2, <1>3, <2>1, <2>2, <2>3, <2>4, <2>5, <2>6, <2>7 DEF Outermost, Foot
  <2>8. CASE f # << >>
    <3>1. Len(f) - 1 + 1 = Len(f) /\ 1 \in 1 .. Len(f) BY <2>4, <2>8
    <3>2. g[1] = f[Len(f)].back BY <2>3, <3>1
    <3>3. g[1] \in Contents BY <2>3, <3>1, ElementOfSeq
    <3> QED BY <2>1, <2>2, <2>3, <2>4, <2>5, <2>6, <2>8, <3>2, <3>3 DEF Outermost, Foot
  <2> QED BY <2>7, <2>8
<1>5. CASE ~D.nested
  <2>1. D.filo = << >> BY <1>1, <1>5 DEF Shaped
  <2>2. Foot(D.filo, Start(D.data)) = Start(D.data) BY <2>1, EmptyStacks
  <2>3. CASE Opened(D)
    <3>1. PICK c \in Contents : c = Start(D.data) BY <1>2
    <3>2. Opens(D) = <<c>> BY <1>5, <2>3, <3>1, OpensFlat
    <3>3. <<c>> \in Seq(Contents) /\ <<c>> # << >> /\ <<c>>[1] = c OBVIOUS
    <3> QED BY <2>2, <2>3, <3>1, <3>2, <3>3 DEF Outermost
  <2>4. CASE ~Opened(D)
    <3>1. Opens(D) = << >> BY <1>5, <2>4, OpensFlat
    <3>2. << >> \in Seq(Contents) OBVIOUS
    <3> QED BY <1>2, <1>3, <2>2, <2>4, <3>1, <3>2 DEF Outermost
  <2> QED BY <2>3, <2>4
<1> QED BY <1>4, <1>5

\* The same commands open.
LEMMA OpensSame ==
    ASSUME NEW S \in SUBSET Objects, NEW D \in Kept(S), NEW T \in SUBSET Objects,
           NEW E \in Kept(T), E.nested = D.nested,
           D.nested => Backs(E.filo, D.filo),
           ~D.nested => (Opened(E) <=> Opened(D)) /\ (Opened(D) => Start(E.data) = Start(D.data))
    PROVE  Opens(E) = Opens(D)
<1>1. CASE D.nested
  <2>1. PICK f \in Seq(Stored(S)) : f = D.filo BY KeptFacts
  <2>2. PICK h \in Seq(Stored(T)) : h = E.filo BY KeptFacts
  <2>3. PICK n \in Nat : n = Len(f) BY LenProperties
  <2>4. Len(h) = n /\ \A i \in 1 .. n : h[i].back = f[i].back
    BY <1>1, <2>1, <2>2, <2>3 DEF Backs
  <2>5. PICK a : a = Opens(D) OBVIOUS
  <2>6. a \in Seq(Contents) /\ Len(a) = n /\ \A i \in 1 .. n : a[i] = f[n - i + 1].back
    BY <1>1, <2>1, <2>3, <2>5, OpensNested
  <2>7. PICK b : b = Opens(E) OBVIOUS
  <2>8. b \in Seq(Contents) /\ Len(b) = n /\ \A i \in 1 .. n : b[i] = h[n - i + 1].back
    BY <1>1, <2>2, <2>4, <2>7, OpensNested
  <2>9. \A i \in 1 .. n : n - i + 1 \in 1 .. n BY <2>3
  <2>10. \A i \in 1 .. n : a[i] = b[i] BY <2>4, <2>6, <2>8, <2>9
  <2>11. a = b BY <2>6, <2>8, <2>10, SeqEqual
  <2> QED BY <2>5, <2>7, <2>11
<1>2. CASE ~D.nested BY <1>2, OpensFlat
<1> QED BY <1>1, <1>2

\* One more command open, inside the others.
LEMMA OpensPushed ==
    ASSUME NEW S \in SUBSET Objects, NEW D \in Kept(S), NEW E \in Kept(S), D.nested, E.nested,
           NEW c \in Contents, Len(E.filo) = Len(D.filo) + 1, E.filo[1].back = c,
           \A j \in 1 .. Len(D.filo) : E.filo[j + 1].back = D.filo[j].back
    PROVE  Opens(E) = Append(Opens(D), c)
<1>1. PICK f \in Seq(Stored(S)) : f = D.filo BY KeptFacts
<1>2. PICK h \in Seq(Stored(S)) : h = E.filo BY KeptFacts
<1>3. PICK n \in Nat : n = Len(f) BY LenProperties
<1>4. Len(h) = n + 1 /\ h[1].back = c /\ \A j \in 1 .. n : h[j + 1].back = f[j].back
  BY <1>1, <1>2, <1>3
<1>5. PICK a : a = Opens(D) OBVIOUS
<1>6. a \in Seq(Contents) /\ Len(a) = n /\ \A i \in 1 .. n : a[i] = f[n - i + 1].back
  BY <1>1, <1>3, <1>5, OpensNested
<1>7. PICK b : b = Opens(E) OBVIOUS
<1>8. PICK m \in Nat : m = n + 1 OBVIOUS
<1>9. b \in Seq(Contents) /\ Len(b) = m /\ \A i \in 1 .. m : b[i] = h[m - i + 1].back
  <2>1. Len(h) = m BY <1>4, <1>8
  <2> QED BY <1>2, <1>7, <2>1, OpensNested
<1>10. PICK g \in Seq(Contents) : g = Append(a, c) BY <1>6, AppendProperties
<1>11. Len(g) = m /\ g[m] = c /\ \A i \in 1 .. n : g[i] = a[i]
  BY <1>6, <1>8, <1>10, AppendProperties
<1>12. \A i \in 1 .. m : b[i] = g[i]
  <2> SUFFICES ASSUME NEW i \in 1 .. m PROVE b[i] = g[i] OBVIOUS
  <2>1. CASE i = m
    <3>1. m - i + 1 = 1 BY <2>1
    <3> QED BY <1>4, <1>9, <1>11, <2>1, <3>1
  <2>2. CASE i # m
    <3>1. i \in 1 .. n BY <1>8, <2>2
    <3>2. PICK j : j = n - i + 1 OBVIOUS
    <3>3. j \in 1 .. n /\ m - i + 1 = j + 1 BY <1>8, <3>1, <3>2
    <3>4. b[i] = h[j + 1].back BY <1>9, <3>3
    <3>5. a[i] = f[j].back BY <1>6, <3>1, <3>2
    <3> QED BY <1>4, <1>11, <3>1, <3>3, <3>4, <3>5
  <2> QED BY <2>1, <2>2
<1>13. b = g BY <1>9, <1>11, <1>12, SeqEqual
<1> QED BY <1>5, <1>7, <1>10, <1>13

\* The innermost command closed.
LEMMA OpensPopped ==
    ASSUME NEW S \in SUBSET Objects, NEW D \in Kept(S), NEW E \in Kept(S), D.nested, E.nested,
           Unstacked(E.filo, D.filo)
    PROVE  /\ Opens(E) = Front(Opens(D)) /\ Last(Opens(D)) = D.filo[1].back
           /\ Opens(D) # << >>
<1>1. PICK f \in Seq(Stored(S)) : f = D.filo BY KeptFacts
<1>2. PICK h \in Seq(Stored(S)) : h = E.filo BY KeptFacts
<1>3. PICK n \in Nat : n = Len(h) BY LenProperties
<1>4. PICK m \in Nat : m = n + 1 OBVIOUS
<1>5. Len(f) = m /\ \A j \in 1 .. n : h[j].back = f[j + 1].back
  BY <1>1, <1>2, <1>3, <1>4 DEF Unstacked
<1>6. PICK a : a = Opens(D) OBVIOUS
<1>7. a \in Seq(Contents) /\ Len(a) = m /\ \A i \in 1 .. m : a[i] = f[m - i + 1].back
  BY <1>1, <1>5, <1>6, OpensNested
<1>8. a # << >> BY <1>4, <1>7, EmptySeq
<1>9. PICK b : b = Opens(E) OBVIOUS
<1>10. b \in Seq(Contents) /\ Len(b) = n /\ \A i \in 1 .. n : b[i] = h[n - i + 1].back
  BY <1>2, <1>3, <1>9, OpensNested
<1>11. PICK g \in Seq(Contents) : g = Front(a) BY <1>7, <1>8, FirstOf
<1>12. Len(g) = n /\ \A i \in 1 .. n : g[i] = a[i]
  <2>1. Slice(g, a, 0) /\ Len(g) + 1 = Len(a) BY <1>7, <1>8, <1>11, FrontSlice
  <2>2. g = SubSeq(a, 1, n) BY <1>4, <1>7, <1>11 DEF Front
  <2>3. n =< m BY <1>4
  <2> QED BY <1>7, <2>2, <2>3, SubSeqProperties
<1>13. \A i \in 1 .. n : b[i] = g[i]
  <2> SUFFICES ASSUME NEW i \in 1 .. n PROVE b[i] = g[i] OBVIOUS
  <2>1. PICK j : j = n - i + 1 OBVIOUS
  <2>2. j \in 1 .. n /\ m - i + 1 = j + 1 /\ i \in 1 .. m BY <1>4, <2>1
  <2>3. b[i] = h[j].back BY <1>10, <2>1
  <2>4. a[i] = f[j + 1].back BY <1>7, <2>2
  <2> QED BY <1>5, <1>12, <2>2, <2>3, <2>4
<1>14. b = g BY <1>10, <1>12, <1>13, SeqEqual
<1>15. Last(a) = f[1].back
  <2>1. m \in 1 .. m /\ m - m + 1 = 1 BY <1>4
  <2> QED BY <1>7, <2>1 DEF Last
<1> QED BY <1>1, <1>6, <1>8, <1>9, <1>11, <1>14, <1>15

-----------------------------------------------------------------------------
(* Commits.                                                                  *)

LEMMA BackingLogged ==
    ASSUME NEW S, NEW us \in Seq(Stored(S)), NEW x \in Stored(S), NEW vs \in Seq(Stored(S)),
           NEW qs, Logged(us, x, vs, qs)
    PROVE  \/ Backing(vs) = Append(Backing(us), x.back)
           \/ /\ Backing(us) # << >>
              /\ Backing(vs) = Append(Tail(Backing(us)), x.back)
<1>1. PICK k : Longer(us, x, k, vs) BY DEF Logged
<1>2. PICK w \in Seq(Stored(S)) : w = Append(us, x) BY AppendProperties
<1>3. Len(w) = Len(us) + 1 /\ Len(us) \in Nat BY <1>2, AppendProperties, LenProperties
<1>4. Slice(vs, w, k) /\ Len(vs) + k = Len(w) BY <1>1, <1>2, <1>3 DEF Longer
<1>5. k \in {0, 1} /\ (k = 1 => us # << >>) BY <1>1 DEF Longer
<1>6. Backing(w) = Append(Backing(us), x.back) BY <1>2, BackingAppend
<1>7. CASE k = 0
  <2>1. Len(vs) = Len(w) BY <1>4, <1>7, LenProperties
  <2>2. Alike(vs, w) BY <1>4, <1>7, <2>1 DEF Alike
  <2> QED BY <1>6, <2>2, BackingAlike
<1>8. CASE k = 1
  <2>1. us # << >> BY <1>5, <1>8
  <2>2. PICK n \in Nat : n = Len(us) /\ n # 0 BY <2>1, EmptySeq, LenProperties
  <2>3. PICK b \in Seq(Contents) : b = Backing(us) BY BackingForm
  <2>4. b # << >> /\ Len(b) = n /\ \A i \in 1 .. n : b[i] = us[i].back
    BY <2>1, <2>2, <2>3, BackingForm
  <2>5. PICK a \in Seq(Contents) : a = Tail(b) BY <2>4, FirstOf
  <2>6. Len(a) = n - 1 /\ \A i \in 1 .. n - 1 : a[i] = b[i + 1]
    BY <2>4, <2>5, HeadTailProperties
  <2>7. PICK c \in Contents : c = x.back BY DEF Stored, Delta
  <2>8. PICK g \in Seq(Contents) : g = Append(a, c) BY AppendProperties
  <2>9. Len(g) = n /\ g[n] = c /\ \A i \in 1 .. n - 1 : g[i] = a[i]
    <3>1. Len(a) + 1 = n BY <2>2, <2>6
    <3> QED BY <2>6, <2>8, <3>1, AppendProperties
  <2>10. PICK h \in Seq(Contents) : h = Backing(vs) BY BackingForm
  <2>11. Len(vs) = n BY <1>3, <1>4, <1>8, <2>2, LenProperties
  <2>12. Len(h) = n /\ \A i \in 1 .. n : h[i] = vs[i].back BY <2>10, <2>11, BackingForm
  <2>13. w[n + 1] = x /\ \A i \in 1 .. n : w[i] = us[i] BY <1>2, <2>2, AppendProperties
  <2>14. \A i \in 1 .. n : vs[i].back = w[i + 1].back BY <1>4, <1>8, <2>11 DEF Slice, Twin
  <2>15. \A i \in 1 .. n : h[i] = g[i]
    <3> SUFFICES ASSUME NEW i \in 1 .. n PROVE h[i] = g[i] OBVIOUS
    <3>1. h[i] = w[i + 1].back BY <2>12, <2>14
    <3>2. CASE i = n BY <2>7, <2>9, <2>13, <3>1, <3>2
    <3>3. CASE i # n
      <4>1. i \in 1 .. n - 1 /\ i + 1 \in 1 .. n BY <2>2, <3>3
      <4> QED BY <2>4, <2>6, <2>9, <2>13, <3>1, <4>1
    <3> QED BY <3>2, <3>3
  <2>16. h = g BY <2>9, <2>12, <2>15, SeqEqual
  <2> QED BY <2>3, <2>4, <2>5, <2>7, <2>8, <2>10, <2>16
<1> QED BY <1>5, <1>7, <1>8

\* UndoStack's Outer, Recorded and Ended, of two documents.
OuterOf(D) == IF Opens(D) = << >> THEN << >> ELSE Front(Opens(D))

RecordedIn(D, E) ==
    \/ /\ Visible(D.data) = Outermost(D)
       /\ Backing(E.undos) = Backing(D.undos) /\ Backing(E.redos) = Backing(D.redos)
    \/ /\ \/ Backing(E.undos) = Append(Backing(D.undos), Outermost(D))
          \/ /\ Backing(D.undos) # << >>
             /\ Backing(E.undos) = Append(Tail(Backing(D.undos)), Outermost(D))
       /\ Backing(E.redos) = << >>

EndedIn(D, E) ==
    IF Len(Opens(D)) = 1 THEN RecordedIn(D, E)
    ELSE Backing(E.undos) = Backing(D.undos) /\ Backing(E.redos) = Backing(D.redos)

LEMMA RecordingShown ==
    ASSUME NEW S \in SUBSET Objects, NEW D \in Kept(S), NEW E \in Kept(S),
           Recording(S, D, E, Outermost(D), Visible(D.data))
    PROVE  RecordedIn(D, E)
<1>1. CASE Outermost(D) = Visible(D.data) /\ E.undos = D.undos /\ E.redos = D.redos
  BY <1>1 DEF RecordedIn
<1>2. ASSUME NEW x \in Stored(S), x.back = Outermost(D), Logged(D.undos, x, E.undos, E.redos)
      PROVE  RecordedIn(D, E)
  <2>1. PICK us \in Seq(Stored(S)) : us = D.undos BY KeptFacts
  <2>2. PICK vs \in Seq(Stored(S)) : vs = E.undos BY KeptFacts
  <2>3. PICK qs \in Seq(Stored(S)) : qs = E.redos BY KeptFacts
  <2>4. Logged(us, x, vs, qs) BY <1>2, <2>1, <2>2, <2>3
  <2>5. \/ Backing(vs) = Append(Backing(us), x.back)
        \/ Backing(us) # << >> /\ Backing(vs) = Append(Tail(Backing(us)), x.back)
    BY <2>4, BackingLogged
  <2>6. qs = << >> BY <2>4 DEF Logged
  <2>7. Backing(qs) = << >> BY <2>6, BackingForm
  <2> QED BY <1>2, <2>1, <2>2, <2>3, <2>5, <2>7 DEF RecordedIn
<1> QED BY <1>1, <1>2 DEF Recording

\* A commit, seen.
LEMMA CommitShown ==
    ASSUME NEW S \in SUBSET Objects, NEW D \in Kept(S), NEW E, E = CommitTransaction(D)
    PROVE  /\ Opens(E) = OuterOf(D) /\ EndedIn(D, E)
           /\ Len(Opens(D)) = 1 => /\ Opens(E) = << >>
                                   /\ Recording(S, D, E, Outermost(D), Visible(D.data))
           /\ Len(Opens(D)) # 1 => E.undos = D.undos /\ E.redos = D.redos
<1>1. E \in Kept(S) /\ Stays(D, E) /\ Delivered(S, D, E) BY CommitKept
<1>2. PICK a : a = Opens(D) OBVIOUS
<1>3. /\ a \in Seq(Contents) /\ (a = << >> <=> ~Opened(D))
      /\ Outermost(D) = Foot(D.filo, Start(D.data))
  BY <1>2, OpensFacts
<1>4. Opens(E) = << >> <=> ~Opened(E) BY <1>1, OpensFacts
<1>5. Len(a) \in Nat /\ (a = << >> <=> Len(a) = 0) BY <1>3, LenZero
<1>6. PICK f \in Seq(Stored(S)) : f = D.filo BY KeptFacts
<1>7. Len(f) \in Nat /\ (f = << >> <=> Len(f) = 0) /\ Shaped(D) BY LenZero, KeptFacts
<1>8. CASE ~Opened(D)
  <2>1. E.undos = D.undos /\ E.redos = D.redos /\ ~Opened(E) BY <1>1, <1>8 DEF Delivered
  <2>2. Len(a) # 1 BY <1>3, <1>5, <1>8
  <2> QED BY <1>2, <1>3, <1>4, <1>8, <2>1, <2>2 DEF OuterOf, EndedIn
<1>9. CASE Opened(D) /\ Len(f) > 1
  <2>1. E.undos = D.undos /\ E.redos = D.redos /\ Unstacked(E.filo, D.filo)
    BY <1>1, <1>6, <1>9 DEF Delivered
  <2>2. D.nested /\ E.nested BY <1>1, <1>6, <1>7, <1>9 DEF Shaped, Stays
  <2>3. Opens(E) = Front(a) /\ a # << >> BY <1>1, <1>2, <2>1, <2>2, OpensPopped
  <2>4. Len(a) # 1 BY <1>2, <1>6, <1>7, <1>9, <2>2, OpensNested
  <2> QED BY <1>2, <2>1, <2>3, <2>4 DEF OuterOf, EndedIn
<1>10. CASE Opened(D) /\ Len(f) =< 1
  <2>1. /\ E.filo = << >> /\ ~Opened(E)
        /\ Recording(S, D, E, Outermost(D), Visible(D.data))
    BY <1>1, <1>3, <1>6, <1>10 DEF Delivered
  <2>2. RecordedIn(D, E) BY <1>1, <2>1, RecordingShown
  <2>3. Len(a) = 1
    <3>1. CASE D.nested
      <4>0. f # << >> BY <1>6, <1>7, <1>10, <3>1 DEF Shaped
      <4>1. PICK n \in Nat : n = Len(f) BY <1>7
      <4>2. n # 0 /\ n =< 1 BY <1>7, <1>10, <4>0, <4>1
      <4>3. Len(f) = 1 BY <4>1, <4>2
      <4> QED BY <1>2, <1>6, <3>1, <4>3, OpensNested
    <3>2. CASE ~D.nested
      <4>1. a = <<Start(D.data)>> BY <1>2, <1>10, <3>2, OpensFlat
      <4> QED BY <4>1
    <3> QED BY <3>1, <3>2
  <2>4. Front(a) = << >>
    <3>1. Front(a) = SubSeq(a, 1, 0) BY <2>3 DEF Front
    <3> QED BY <1>3, <3>1, SubSeqEmpty
  <2> QED BY <1>2, <1>3, <1>4, <1>10, <2>1, <2>2, <2>3, <2>4 DEF OuterOf, EndedIn
<1> QED BY <1>7, <1>8, <1>9, <1>10

-----------------------------------------------------------------------------
(* What the calls do, seen.                                                  *)

LEMMA BecomeShown ==
    ASSUME NEW S \in SUBSET Objects, NEW D \in Kept(S), Become(D)
    PROVE  /\ Visible(doc.data)' = Visible(D.data) /\ Opens(doc)' = Opens(D)
           /\ Backing(doc.undos)' = Backing(D.undos)
           /\ Backing(doc.redos)' = Backing(D.redos)
<1>1. /\ doc'.undos = D.undos /\ doc'.redos = D.redos /\ doc'.filo = D.filo
      /\ doc'.nested = D.nested
      /\ doc'.data.transaction = D.data.transaction /\ doc'.data.was = D.data.was
      /\ Visible(doc'.data) = Visible(D.data)
  BY BecomeKept
<1> QED BY <1>1 DEF Opens, Depth

LEMMA ShownOpen ==
    ASSUME Opens(doc)' = Append(Opens(doc), Visible(doc.data)),
           Visible(doc.data)' = Visible(doc.data),
           Backing(doc.undos)' = Backing(doc.undos),
           Backing(doc.redos)' = Backing(doc.redos)
    PROVE  Promise!Open
BY DEF Promise!Open, Opens, Backing

LEMMA OuterSame == OuterOf(doc) = Promise!Outer
BY DEF Promise!Outer, Promise!Front, OuterOf, Front, Opens

LEMMA EndedSame == EndedIn(doc, doc') <=> Promise!Ended
<1>1. Outermost(doc) = Promise!Base BY DEF Promise!Base, Outermost, Opens
<1>2. /\ Backing(doc.undos) = [i \in DOMAIN doc.undos |-> doc.undos[i].back]
      /\ Backing(doc.redos) = [i \in DOMAIN doc.redos |-> doc.redos[i].back]
      /\ Backing(doc'.undos) = [i \in DOMAIN doc'.undos |-> doc'.undos[i].back]
      /\ Backing(doc'.redos) = [i \in DOMAIN doc'.redos |-> doc'.redos[i].back]
  BY DEF Backing
<1>3. RecordedIn(doc, doc') <=> Promise!Recorded BY <1>1, <1>2 DEF Promise!Recorded, RecordedIn
<1> QED BY <1>2, <1>3 DEF Promise!Ended, EndedIn, Opens

LEMMA ShownCommit ==
    ASSUME Opens(doc) # << >>, Opens(doc)' = OuterOf(doc), EndedIn(doc, doc'),
           Visible(doc.data)' = Visible(doc.data)
    PROVE  Promise!Commit
<1>1. EndedIn(doc, doc') <=> Promise!Ended BY EndedSame
<1>2. OuterOf(doc) = Promise!Outer BY OuterSame
<1> QED BY <1>1, <1>2 DEF Promise!Commit, Opens

LEMMA ShownNewCommand ==
    ASSUME Opens(doc)' = Append(OuterOf(doc), Visible(doc.data)), EndedIn(doc, doc'),
           Visible(doc.data)' = Visible(doc.data)
    PROVE  Promise!NewCommand
<1>1. EndedIn(doc, doc') <=> Promise!Ended BY EndedSame
<1>2. OuterOf(doc) = Promise!Outer BY OuterSame
<1> QED BY <1>1, <1>2 DEF Promise!NewCommand, Opens

LEMMA ShownAbort ==
    ASSUME Opens(doc) # << >>, Opens(doc)' = OuterOf(doc),
           Visible(doc.data)' = Last(Opens(doc)),
           Backing(doc.undos)' = Backing(doc.undos),
           Backing(doc.redos)' = Backing(doc.redos)
    PROVE  Promise!Abort
BY SameOperators DEF Promise!Abort, Promise!Outer, OuterOf, Opens, Backing

LEMMA ShownRedo ==
    ASSUME Backing(doc.redos) # << >>,
           Visible(doc.data)' = Head(Backing(doc.redos)),
           Backing(doc.redos)' = Tail(Backing(doc.redos)),
           Backing(doc.undos)' = Append(Backing(doc.undos), Outermost(doc)),
           Opens(doc)' = IF Opens(doc) = << >> THEN << >> ELSE <<Head(Backing(doc.redos))>>
    PROVE  Promise!Redo
BY SameOperators DEF Promise!Redo, Promise!Reopened, Promise!Base, Outermost, Backing, Opens

LEMMA ShownEdit ==
    ASSUME Opens(doc) # << >>, Opens(doc)' = Opens(doc), Visible(doc.data)' \in Contents,
           Backing(doc.undos)' = Backing(doc.undos),
           Backing(doc.redos)' = Backing(doc.redos)
    PROVE  Promise!Edit
BY DEF Promise!Edit, Opens, Backing

LEMMA ShownStutter ==
    ASSUME Opens(doc)' = Opens(doc), Visible(doc.data)' = Visible(doc.data),
           Backing(doc.undos)' = Backing(doc.undos),
           Backing(doc.redos)' = Backing(doc.redos)
    PROVE  UNCHANGED Promise!vars
BY DEF Promise!vars, Opens, Backing

LEMMA ShownDrop ==
    ASSUME Visible(doc.data)' = Visible(doc.data),
           Opens(doc)' \in {Opens(doc), OuterOf(doc)},
           \/ IsSuffix(Backing(doc.undos)', Backing(doc.undos))
           \/ /\ Len(Opens(doc)) = 1 /\ Opens(doc)' = << >>
              /\ IsSuffix(Backing(doc.undos)', Append(Backing(doc.undos), Opens(doc)[1])),
           IsPrefix(Backing(doc.redos)', Backing(doc.redos))
    PROVE  Promise!Drop
<1>1. OuterOf(doc) = Promise!Outer BY OuterSame
<1>2. \A f, g : /\ IsSuffix(f, g) => Promise!IsSuffix(f, g)
                /\ IsPrefix(f, g) => Promise!IsPrefix(f, g)
  BY SameOperators
<1> QED BY <1>1, <1>2 DEF Promise!Drop, Backing, Opens

LEMMA OpenShown ==
    ASSUME NEW S \in SUBSET Objects, NEW D \in Kept(S), D.nested \/ ~Opened(D),
           NEW E, E = OpenDocument(D)
    PROVE  /\ E \in Kept(S) /\ Visible(E.data) = Visible(D.data)
           /\ E.undos = D.undos /\ E.redos = D.redos
           /\ D.nested \/ D.limit # 0 => Opens(E) = Append(Opens(D), Visible(D.data))
           /\ ~(D.nested \/ D.limit # 0) => Opens(E) = << >> /\ Opens(D) = << >>
<1>1. /\ E \in Kept(S) /\ Same(D, E) /\ Visible(E.data) = Visible(D.data)
      /\ Start(E.data) = Visible(D.data)
      /\ ~D.nested => (Opened(E) <=> D.limit # 0)
  BY OpenKept
<1>2. E.undos = D.undos /\ E.redos = D.redos /\ E.nested = D.nested BY <1>1 DEF Same
<1>3. PICK c \in Contents : c = Visible(D.data)
  BY KeptFacts, FineFacts, FrameFacts, VisibleContents
<1>4. ASSUME D.nested PROVE Opens(E) = Append(Opens(D), c)
  <2>1. /\ Len(E.filo) = Len(D.filo) + 1 /\ E.filo[1].back = c
        /\ \A j \in 1 .. Len(D.filo) : E.filo[j + 1].back = D.filo[j].back
    BY <1>3, <1>4, OpenKept
  <2> QED BY <1>1, <1>2, <1>4, <2>1, OpensPushed
<1>5. ASSUME ~D.nested, D.limit # 0 PROVE Opens(E) = Append(Opens(D), c)
  <2>1. Opens(D) = << >> BY <1>5, OpensFlat
  <2>2. Opens(E) = <<c>> BY <1>1, <1>2, <1>3, <1>5, OpensFlat
  <2> QED BY <2>1, <2>2
<1>6. ASSUME ~D.nested, D.limit = 0 PROVE Opens(E) = << >> /\ Opens(D) = << >>
  BY <1>1, <1>2, <1>6, OpensFlat
<1> QED BY <1>1, <1>2, <1>3, <1>4, <1>5, <1>6

\* What Keeping says, of the document as it is seen.
LEMMA KeepingShown ==
    ASSUME Keeping
    PROVE  \E S \in SUBSET Objects : doc \in Kept(S)
BY KeepingFacts

LEMMA OpenCommandShown ==
    ASSUME Keeping, OpenCommand
    PROVE  Promise!Open \/ UNCHANGED Promise!vars
<1>1. PICK S \in SUBSET Objects : doc \in Kept(S) BY KeepingShown
<1>2. PICK E : E = OpenDocument(doc) OBVIOUS
<1>3. Become(E) /\ (doc.nested \/ ~Opened(doc)) BY <1>2 DEF OpenCommand
<1>4. /\ E \in Kept(S) /\ Visible(E.data) = Visible(doc.data)
      /\ E.undos = doc.undos /\ E.redos = doc.redos
      /\ doc.nested \/ doc.limit # 0 => Opens(E) = Append(Opens(doc), Visible(doc.data))
      /\ ~(doc.nested \/ doc.limit # 0) => Opens(E) = << >> /\ Opens(doc) = << >>
  BY <1>1, <1>2, <1>3, OpenShown
<1>5. /\ Visible(doc.data)' = Visible(doc.data) /\ Opens(doc)' = Opens(E)
      /\ Backing(doc.undos)' = Backing(doc.undos)
      /\ Backing(doc.redos)' = Backing(doc.redos)
  BY <1>3, <1>4, BecomeShown
<1>6. CASE doc.nested \/ doc.limit # 0 BY <1>4, <1>5, <1>6, ShownOpen
<1>7. CASE ~(doc.nested \/ doc.limit # 0) BY <1>4, <1>5, <1>7, ShownStutter
<1> QED BY <1>6, <1>7

LEMMA CommitCommandShown ==
    ASSUME Keeping, CommitCommand
    PROVE  Promise!Commit
<1>1. PICK S \in SUBSET Objects : doc \in Kept(S) BY KeepingShown
<1>2. PICK E : E = CommitTransaction(doc) OBVIOUS
<1>3. Become(E) /\ Opened(doc) BY <1>2 DEF CommitCommand
<1>4. E \in Kept(S) /\ Visible(E.data) = Visible(doc.data) BY <1>1, <1>2, CommitKept
<1>5. Opens(E) = OuterOf(doc) /\ EndedIn(doc, E) BY <1>1, <1>2, CommitShown
<1>6. /\ Visible(doc.data)' = Visible(doc.data) /\ Opens(doc)' = Opens(E)
      /\ Backing(doc.undos)' = Backing(E.undos)
      /\ Backing(doc.redos)' = Backing(E.redos)
  BY <1>3, <1>4, BecomeShown
<1>7. EndedIn(doc, doc') BY <1>5, <1>6 DEF EndedIn, RecordedIn
<1>8. Opens(doc) # << >> BY <1>1, <1>3, OpensFacts
<1> QED BY <1>5, <1>6, <1>7, <1>8, ShownCommit

LEMMA NewCommandShown ==
    ASSUME Keeping, NewCommand
    PROVE  Promise!NewCommand \/ UNCHANGED Promise!vars
<1>1. PICK S \in SUBSET Objects : doc \in Kept(S) BY KeepingShown
<1>2. PICK C : C = CommitTransaction(doc) OBVIOUS
<1>3. PICK E : E = OpenDocument(C) OBVIOUS
<1>4. Become(E) BY <1>2, <1>3 DEF NewCommand
<1>5. /\ C \in Kept(S) /\ Visible(C.data) = Visible(doc.data) /\ Stays(doc, C)
      /\ ~doc.nested => ~Opened(C)
  BY <1>1, <1>2, CommitKept
<1>6. Opens(C) = OuterOf(doc) /\ EndedIn(doc, C) BY <1>1, <1>2, CommitShown
<1>7. C.nested = doc.nested /\ C.limit = doc.limit BY <1>5 DEF Stays
<1>8. /\ E \in Kept(S) /\ Visible(E.data) = Visible(C.data)
      /\ E.undos = C.undos /\ E.redos = C.redos
      /\ C.nested \/ C.limit # 0 => Opens(E) = Append(Opens(C), Visible(C.data))
      /\ ~(C.nested \/ C.limit # 0) => Opens(E) = << >> /\ Opens(C) = << >>
  BY <1>3, <1>5, <1>7, OpenShown
<1>9. /\ Visible(doc.data)' = Visible(doc.data) /\ Opens(doc)' = Opens(E)
      /\ Backing(doc.undos)' = Backing(C.undos)
      /\ Backing(doc.redos)' = Backing(C.redos)
  BY <1>4, <1>5, <1>8, BecomeShown
<1>10. EndedIn(doc, doc') BY <1>6, <1>9 DEF EndedIn, RecordedIn
<1>11. CASE C.nested \/ C.limit # 0
  <2>1. Opens(doc)' = Append(OuterOf(doc), Visible(doc.data))
    BY <1>5, <1>6, <1>8, <1>9, <1>11
  <2> QED BY <1>9, <1>10, <2>1, ShownNewCommand
<1>12. CASE ~(C.nested \/ C.limit # 0)
  <2>1. ~doc.nested /\ doc.limit = 0 BY <1>7, <1>12
  <2>2. ~Opened(doc) BY <1>1, <2>1, KeptFacts DEF Tuned
  <2>3. Opens(doc) = << >> BY <1>1, <2>2, OpensFacts
  <2>4. Len(Opens(doc)) # 1 BY <2>3
  <2>5. Backing(C.undos) = Backing(doc.undos) /\ Backing(C.redos) = Backing(doc.redos)
    BY <1>6, <2>4 DEF EndedIn
  <2> QED BY <1>8, <1>9, <1>12, <2>3, <2>5, ShownStutter
<1> QED BY <1>11, <1>12

LEMMA AbortCommandShown ==
    ASSUME Keeping, AbortCommand
    PROVE  Promise!Abort
<1>1. PICK S \in SUBSET Objects : doc \in Kept(S) BY KeepingShown
<1>2. PICK E : E = AbortTransaction(doc) OBVIOUS
<1>3. Become(E) /\ Depth(doc) > 0 BY <1>2 DEF AbortCommand
<1>4. /\ E \in Kept(S) /\ Same(doc, E)
      /\ doc.filo = << >> => E.filo = << >> /\ Visible(E.data) = Start(doc.data)
      /\ doc.filo # << >> => E.filo = Tail(doc.filo) /\ Visible(E.data) = doc.filo[1].back
      /\ E.filo = << >> => ~Opened(E)
  BY <1>1, <1>2, AbortKept
<1>5. E.nested = doc.nested /\ E.undos = doc.undos /\ E.redos = doc.redos BY <1>4 DEF Same
<1>6. PICK f \in Seq(Stored(S)) : f = doc.filo BY <1>1, KeptFacts
<1>7. Opens(doc) # << >> /\ Opens(E) = Front(Opens(doc)) /\ Visible(E.data) = Last(Opens(doc))
  <2>1. CASE doc.nested
    <3>1. Len(f) > 0 BY <1>3, <1>6, <2>1 DEF Depth
    <3>2. f # << >> BY <3>1, EmptySeq
    <3>3. PICK h : h = Tail(f) OBVIOUS
    <3>4. Len(h) + 1 = Len(f) /\ \A j \in 1 .. Len(h) : h[j].back = f[j + 1].back
      BY <3>2, <3>3, TailSlice, HeadTailProperties
    <3>5. Unstacked(h, f) BY <3>4 DEF Unstacked
    <3>6. E.filo = h /\ Visible(E.data) = f[1].back BY <1>4, <1>6, <3>2, <3>3
    <3> QED BY <1>1, <1>4, <1>5, <1>6, <2>1, <3>5, <3>6, OpensPopped
  <2>2. CASE ~doc.nested
    <3>1. f = << >> /\ doc.data.transaction \in 0 .. 1 /\ (Opened(doc) <=> doc.data.transaction = 1)
      BY <1>1, <1>6, <2>2, KeptFacts DEF Shaped
    <3>2. Opened(doc) BY <1>3, <2>2, <3>1 DEF Depth
    <3>3. PICK c \in Contents : c = Start(doc.data) BY <1>1, StartContents, KeptFacts
    <3>4. Opens(doc) = <<c>> BY <1>1, <2>2, <3>2, <3>3, OpensFlat
    <3>5. ~Opened(E) /\ Visible(E.data) = c BY <1>4, <1>6, <3>1, <3>3
    <3>6. Opens(E) = << >> BY <1>4, <1>5, <2>2, <3>5, OpensFlat
    <3>7. Front(<<c>>) = << >> /\ Last(<<c>>) = c /\ <<c>> # << >>
      <4>1. <<c>> \in Seq(Contents) /\ Len(<<c>>) = 1 /\ <<c>>[1] = c OBVIOUS
      <4> QED BY <4>1, SingleSeq
    <3> QED BY <3>4, <3>5, <3>6, <3>7
  <2> QED BY <2>1, <2>2
<1>8. Opens(E) = OuterOf(doc) BY <1>7 DEF OuterOf
<1>9. /\ Visible(doc.data)' = Visible(E.data) /\ Opens(doc)' = Opens(E)
      /\ Backing(doc.undos)' = Backing(doc.undos)
      /\ Backing(doc.redos)' = Backing(doc.redos)
  BY <1>3, <1>4, <1>5, BecomeShown
<1> QED BY <1>7, <1>8, <1>9, ShownAbort

\* What is open after a step back or forth: one command if any was.
LEMMA ReopenedShown ==
    ASSUME NEW S \in SUBSET Objects, NEW D \in Kept(S), NEW E \in Kept(S), Stays(D, E),
           Opened(E) <=> Opened(D), NEW c, Start(E.data) = c,
           Opened(D) /\ D.nested => Len(E.filo) = 1 /\ E.filo[1].back = c
    PROVE  Opens(E) = IF Opens(D) = << >> THEN << >> ELSE <<c>>
<1>1. Opens(D) = << >> <=> ~Opened(D) BY OpensFacts
<1>2. Opens(E) = << >> <=> ~Opened(E) BY OpensFacts
<1>3. E.nested = D.nested BY DEF Stays
<1>4. ASSUME Opened(D) PROVE Opens(E) = <<c>>
  <2>1. CASE D.nested
    <3>1. PICK f \in Seq(Stored(S)) : f = E.filo BY KeptFacts
    <3>2. PICK a : a = Opens(E) OBVIOUS
    <3>3. Len(f) = 1 /\ f[1].back = c BY <1>4, <2>1, <3>1
    <3>4. /\ a \in Seq(Contents) /\ Len(a) = Len(f)
          /\ \A i \in 1 .. Len(f) : a[i] = f[Len(f) - i + 1].back
      BY <1>3, <2>1, <3>1, <3>2, OpensNested
    <3>5. a[1] = c
      <4>1. 1 \in 1 .. Len(f) /\ Len(f) - 1 + 1 = 1 BY <3>3
      <4> QED BY <3>3, <3>4, <4>1
    <3> QED BY <3>2, <3>3, <3>4, <3>5, SingleSeq
  <2>2. CASE ~D.nested BY <1>3, <1>4, <2>2, OpensFlat
  <2> QED BY <2>1, <2>2
<1> QED BY <1>1, <1>2, <1>4

LEMMA UndoCommandShown ==
    ASSUME Keeping, UndoCommand
    PROVE  Promise!Undo
<1>1. PICK S \in SUBSET Objects : doc \in Kept(S) BY KeepingShown
<1>2. PICK E : E = UndoStep(doc) OBVIOUS
<1>3. Become(E) /\ doc.undos # << >> BY <1>2 DEF UndoCommand
<1>4. /\ E \in Kept(S) /\ Stays(doc, E) /\ (Opened(E) <=> Opened(doc))
      /\ Visible(E.data) = Last(doc.undos).back /\ Start(E.data) = Last(doc.undos).back
      /\ E.undos = Front(doc.undos)
      /\ Opened(doc) /\ doc.nested => Len(E.filo) = 1 /\ E.filo[1].back = Last(doc.undos).back
  BY <1>1, <1>2, <1>3, UndoStepKept
<1>5. PICK x \in Stored(S) : /\ x.back = Foot(doc.filo, Start(doc.data))
                             /\ E.redos = <<x>> \o doc.redos
  BY <1>1, <1>2, <1>3, UndoStepKept
<1>6. PICK us \in Seq(Stored(S)) : us = doc.undos BY <1>1, KeptFacts
<1>7. PICK rs \in Seq(Stored(S)) : rs = doc.redos BY <1>1, KeptFacts
<1>8. x.back = Outermost(doc) BY <1>1, <1>5, OpensFacts
<1>9. PICK c : c = Last(Backing(us)) OBVIOUS
<1>10. Last(us).back = c /\ Backing(Front(us)) = Front(Backing(us)) /\ Backing(us) # << >>
  BY <1>3, <1>6, <1>9, BackingFront, BackingForm
<1>11. Opens(E) = IF Opens(doc) = << >> THEN << >> ELSE <<c>>
  BY <1>1, <1>4, <1>6, <1>10, ReopenedShown
<1>12. Backing(E.undos) = Front(Backing(doc.undos)) BY <1>4, <1>6, <1>10
<1>13. Backing(E.redos) = <<Outermost(doc)>> \o Backing(doc.redos)
  BY <1>5, <1>7, <1>8, BackingPush
<1>14. /\ Visible(doc.data)' = Visible(E.data) /\ Opens(doc)' = Opens(E)
       /\ Backing(doc.undos)' = Backing(E.undos)
       /\ Backing(doc.redos)' = Backing(E.redos)
  BY <1>3, <1>4, BecomeShown
<1> QED BY <1>4, <1>6, <1>9, <1>10, <1>11, <1>12, <1>13, <1>14, ShownUndo

LEMMA RedoCommandShown ==
    ASSUME Keeping, RedoCommand
    PROVE  Promise!Redo
<1>1. PICK S \in SUBSET Objects : doc \in Kept(S) BY KeepingShown
<1>2. PICK E : E = RedoStep(doc) OBVIOUS
<1>3. Become(E) /\ doc.redos # << >> BY <1>2 DEF RedoCommand
<1>4. /\ E \in Kept(S) /\ Stays(doc, E) /\ (Opened(E) <=> Opened(doc))
      /\ Visible(E.data) = Head(doc.redos).back /\ Start(E.data) = Head(doc.redos).back
      /\ E.redos = Tail(doc.redos)
      /\ Opened(doc) /\ doc.nested => Len(E.filo) = 1 /\ E.filo[1].back = Head(doc.redos).back
  BY <1>1, <1>2, <1>3, RedoStepKept
<1>5. PICK x \in Stored(S) : /\ x.back = Foot(doc.filo, Start(doc.data))
                             /\ E.undos = Append(doc.undos, x)
  BY <1>1, <1>2, <1>3, RedoStepKept
<1>6. PICK us \in Seq(Stored(S)) : us = doc.undos BY <1>1, KeptFacts
<1>7. PICK rs \in Seq(Stored(S)) : rs = doc.redos BY <1>1, KeptFacts
<1>8. x.back = Outermost(doc) BY <1>1, <1>5, OpensFacts
<1>9. PICK c : c = Head(Backing(rs)) OBVIOUS
<1>10. Head(rs).back = c /\ Backing(Tail(rs)) = Tail(Backing(rs)) /\ Backing(rs) # << >>
  BY <1>3, <1>7, <1>9, BackingTail, BackingForm
<1>11. Opens(E) = IF Opens(doc) = << >> THEN << >> ELSE <<c>>
  BY <1>1, <1>4, <1>7, <1>10, ReopenedShown
<1>12. Backing(E.redos) = Tail(Backing(doc.redos)) BY <1>4, <1>7, <1>10
<1>13. Backing(E.undos) = Append(Backing(doc.undos), Outermost(doc))
  BY <1>5, <1>6, <1>8, BackingAppend
<1>14. /\ Visible(doc.data)' = Visible(E.data) /\ Opens(doc)' = Opens(E)
       /\ Backing(doc.undos)' = Backing(E.undos)
       /\ Backing(doc.redos)' = Backing(E.redos)
  BY <1>3, <1>4, BecomeShown
<1> QED BY <1>4, <1>7, <1>9, <1>10, <1>11, <1>12, <1>13, <1>14, ShownRedo

\* An edit, seen.
LEMMA EditedShown ==
    ASSUME Keeping, NEW S \in SUBSET Objects, NEW E \in Kept(S), Become(E), Edited(doc, E)
    PROVE  Promise!Edit
<1>1. PICK T \in SUBSET Objects : doc \in Kept(T) BY KeepingShown
<1>2. /\ Opened(doc) /\ E.undos = doc.undos /\ E.redos = doc.redos /\ E.filo = doc.filo
      /\ E.nested = doc.nested /\ (Opened(E) <=> Opened(doc))
      /\ Start(E.data) = Start(doc.data)
  BY DEF Edited, Alongside
<1>3. Opens(E) = Opens(doc) BY <1>1, <1>2, OpensSame DEF Backs
<1>4. Opens(doc) # << >> BY <1>1, <1>2, OpensFacts
<1>5. PICK c \in Contents : c = Visible(E.data) BY KeptFacts, FineFacts, FrameFacts, VisibleContents
<1>6. /\ Visible(doc.data)' = c /\ Opens(doc)' = Opens(E)
      /\ Backing(doc.undos)' = Backing(doc.undos)
      /\ Backing(doc.redos)' = Backing(doc.redos)
  BY <1>2, <1>5, BecomeShown
<1> QED BY <1>3, <1>4, <1>5, <1>6, ShownEdit

\* The far ends of the lists dropped, seen.
LEMMA ShortenedLists ==
    ASSUME NEW S \in SUBSET Objects, NEW D \in Kept(S), NEW E \in Kept(S), NEW k,
           Shortened(D, E, k)
    PROVE  /\ Opens(E) = Opens(D) /\ Visible(E.data) = Visible(D.data)
           /\ IsSuffix(Backing(E.undos), Backing(D.undos))
           /\ IsPrefix(Backing(E.redos), Backing(D.redos))
<1>1. /\ Visible(E.data) = Visible(D.data)
      /\ Slice(E.undos, D.undos, k) /\ Len(E.undos) + k = Len(D.undos)
      /\ Slice(E.redos, D.redos, 0)
      /\ E.filo = D.filo /\ E.nested = D.nested /\ (Opened(E) <=> Opened(D))
      /\ Start(E.data) = Start(D.data)
  BY DEF Shortened, Alongside
<1>2. PICK us \in Seq(Stored(S)) : us = D.undos BY KeptFacts
<1>3. PICK rs \in Seq(Stored(S)) : rs = D.redos BY KeptFacts
<1>4. PICK vs \in Seq(Stored(S)) : vs = E.undos BY KeptFacts
<1>5. PICK qs \in Seq(Stored(S)) : qs = E.redos BY KeptFacts
<1>6. IsSuffix(Backing(vs), Backing(us)) BY <1>1, <1>2, <1>4, BackingSuffix
<1>7. IsPrefix(Backing(qs), Backing(rs)) BY <1>1, <1>3, <1>5, BackingPrefix
<1>8. Opens(E) = Opens(D) BY <1>1, OpensSame DEF Backs
<1> QED BY <1>1, <1>2, <1>3, <1>4, <1>5, <1>6, <1>7, <1>8

LEMMA ShortenedShown ==
    ASSUME NEW S \in SUBSET Objects, doc \in Kept(S), NEW E \in Kept(S), Become(E), NEW k,
           Shortened(doc, E, k)
    PROVE  Promise!Drop
<1>1. /\ Opens(E) = Opens(doc) /\ Visible(E.data) = Visible(doc.data)
      /\ IsSuffix(Backing(E.undos), Backing(doc.undos))
      /\ IsPrefix(Backing(E.redos), Backing(doc.redos))
  BY ShortenedLists
<1>2. /\ Visible(doc.data)' = Visible(E.data) /\ Opens(doc)' = Opens(E)
      /\ Backing(doc.undos)' = Backing(E.undos)
      /\ Backing(doc.redos)' = Backing(E.redos)
  BY BecomeShown
<1> QED BY <1>1, <1>2, ShownDrop

LEMMA SetUndoLimitShown ==
    ASSUME Keeping, NEW L \in Limits, SetUndoLimit(L)
    PROVE  Promise!Drop
<1>1. PICK S \in SUBSET Objects : \E A \in Kept(S), E \in Kept(S) :
              /\ doc \in Kept(S) /\ Become(E)
              /\ \E k : Shortened(CommitTransaction(A), E, k)
              /\ Alongside(doc, A) /\ Visible(A.data) = Visible(doc.data)
              /\ A.undos = doc.undos /\ A.redos = doc.redos
  BY SetUndoLimitMade
<1>2. PICK A \in Kept(S), E \in Kept(S) :
              /\ doc \in Kept(S) /\ Become(E)
              /\ \E k : Shortened(CommitTransaction(A), E, k)
              /\ Alongside(doc, A) /\ Visible(A.data) = Visible(doc.data)
              /\ A.undos = doc.undos /\ A.redos = doc.redos
  BY <1>1
<1>3. PICK D : D = CommitTransaction(A) OBVIOUS
<1>4. PICK k : Shortened(D, E, k) BY <1>2, <1>3
<1>5. D \in Kept(S) /\ Visible(D.data) = Visible(A.data) BY <1>3, CommitKept
<1>6. Opens(A) = Opens(doc) BY <1>2, OpensSame DEF Alongside, Backs
<1>7. Outermost(A) = Outermost(doc) /\ OuterOf(A) = OuterOf(doc)
  BY <1>2, <1>6 DEF Outermost, OuterOf
<1>8. /\ Opens(D) = OuterOf(doc)
      /\ Len(Opens(doc)) = 1 => /\ Opens(D) = << >>
                                /\ Recording(S, A, D, Outermost(doc), Visible(A.data))
      /\ Len(Opens(doc)) # 1 => D.undos = doc.undos /\ D.redos = doc.redos
  BY <1>2, <1>3, <1>6, <1>7, CommitShown
<1>9. /\ Opens(E) = Opens(D) /\ Visible(E.data) = Visible(D.data)
      /\ IsSuffix(Backing(E.undos), Backing(D.undos))
      /\ IsPrefix(Backing(E.redos), Backing(D.redos))
  BY <1>4, <1>5, ShortenedLists
<1>10. /\ Visible(doc.data)' = Visible(E.data) /\ Opens(doc)' = Opens(E)
       /\ Backing(doc.undos)' = Backing(E.undos)
       /\ Backing(doc.redos)' = Backing(E.redos)
  BY <1>2, BecomeShown
<1>11. Visible(doc.data)' = Visible(doc.data) /\ Opens(doc)' = OuterOf(doc)
  BY <1>2, <1>5, <1>8, <1>9, <1>10
<1>12. CASE D.undos = doc.undos /\ D.redos = doc.redos
  BY <1>9, <1>10, <1>11, <1>12, ShownDrop
<1>13. CASE /\ Len(Opens(doc)) = 1 /\ Opens(D) = << >>
            /\ \E x \in Stored(S) : /\ x.back = Outermost(doc)
                                    /\ Logged(doc.undos, x, D.undos, D.redos)
  <2>1. PICK x \in Stored(S) : x.back = Outermost(doc) /\ Logged(doc.undos, x, D.undos, D.redos)
    BY <1>13
  <2>2. PICK us \in Seq(Stored(S)) : us = doc.undos BY <1>2, KeptFacts
  <2>3. PICK ws \in Seq(Stored(S)) : ws = D.undos BY <1>5, KeptFacts
  <2>4. PICK vs \in Seq(Stored(S)) : vs = E.undos BY KeptFacts
  <2>5. PICK rs \in Seq(Stored(S)) : rs = doc.redos BY <1>2, KeptFacts
  <2>6. PICK qs \in Seq(Stored(S)) : qs = E.redos BY KeptFacts
  <2>7. D.redos = << >> BY <2>1 DEF Logged
  <2>8. PICK j : Longer(us, x, j, ws) BY <2>1, <2>2, <2>3 DEF Logged
  <2>9. PICK h \in Seq(Stored(S)) : h = Append(us, x) BY AppendProperties
  <2>10. Len(h) = Len(us) + 1 BY <2>9, AppendProperties
  <2>11. Slice(ws, h, j) /\ Len(ws) + j = Len(h) BY <2>8, <2>9, <2>10 DEF Longer
  <2>12. Slice(vs, ws, k) /\ Len(vs) + k = Len(ws) /\ Slice(qs, << >>, 0)
    BY <1>4, <2>3, <2>4, <2>6, <2>7 DEF Shortened
  <2>13. PICK i : i = k + j OBVIOUS
  <2>14. Slice(vs, h, i) BY <2>11, <2>12, <2>13, SliceTwice
  <2>15. Len(vs) + i = Len(h)
    <3>1. PICK n \in Nat : n = Len(vs) BY LenProperties
    <3>2. PICK m \in Nat : m = Len(ws) BY LenProperties
    <3>3. k \in Nat /\ j \in Nat BY <2>11, <2>12 DEF Slice
    <3>4. PICK l \in Nat : l = Len(h) BY LenProperties
    <3>5. PICK p \in Nat : p = k BY <3>3
    <3>6. PICK q \in Nat : q = j BY <3>3
    <3>7. n + p = m /\ m + q = l BY <2>11, <2>12, <3>1, <3>2, <3>4, <3>5, <3>6
    <3>8. n + (p + q) = l BY <3>7
    <3> QED BY <2>13, <3>1, <3>4, <3>5, <3>6, <3>8
  <2>16. IsSuffix(Backing(vs), Backing(h)) BY <2>14, <2>15, BackingSuffix
  <2>17. Backing(h) = Append(Backing(us), x.back) BY <2>9, BackingAppend
  <2>18. x.back = Opens(doc)[1]
    <3>1. PICK a \in Seq(Contents) : a = Opens(doc) BY <1>2, OpensFacts
    <3>2. a = << >> <=> Len(a) = 0 BY LenZero
    <3>3. Len(a) = 1 BY <1>13, <3>1
    <3>4. a # << >> BY <3>2, <3>3
    <3> QED BY <2>1, <3>1, <3>4 DEF Outermost
  <2>19. IsPrefix(Backing(qs), Backing(rs))
    <3>1. qs = << >> BY <2>12, LenZero DEF Slice
    <3>2. Slice(qs, rs, 0) BY <3>1, WholeSlice
    <3> QED BY <3>2, BackingPrefix
  <2> QED BY <1>8, <1>10, <1>11, <1>13, <2>2, <2>4, <2>5, <2>6, <2>16, <2>17, <2>18, <2>19,
             ShownDrop
<1> QED BY <1>2, <1>8, <1>12, <1>13 DEF Recording

\* A compaction, seen.
LEMMA CompactedShown ==
    ASSUME NEW S \in SUBSET Objects, doc \in Kept(S), NEW E \in Kept(S), Become(E),
           Compacted(S, doc, E)
    PROVE  Promise!Merge
<1>1. PICK us \in Seq(Stored(S)) : us = doc.undos BY KeptFacts
<1>2. PICK g \in Seq(Stored(S)), x \in Stored(S) :
          /\ Slice(g, us, 0) /\ Len(g) < Len(us)
          /\ x.back = us[Len(g) + 1].back /\ E.undos = Append(g, x)
  BY <1>1 DEF Compacted
<1>3. /\ Visible(E.data) = Visible(doc.data) /\ Slice(E.redos, doc.redos, 0)
      /\ E.filo = doc.filo /\ E.nested = doc.nested /\ (Opened(E) <=> Opened(doc))
      /\ Start(E.data) = Start(doc.data)
  BY DEF Compacted, Alongside
<1>4. Opens(E) = Opens(doc) BY <1>3, OpensSame DEF Backs
<1>5. PICK rs \in Seq(Stored(S)) : rs = doc.redos BY KeptFacts
<1>6. PICK qs \in Seq(Stored(S)) : qs = E.redos BY KeptFacts
<1>7. IsPrefix(Backing(qs), Backing(rs)) BY <1>3, <1>5, <1>6, BackingPrefix
<1>8. PICK vs \in Seq(Stored(S)) : vs = E.undos BY KeptFacts
<1>9. PICK m \in Nat : m = Len(g) BY LenProperties
<1>10. PICK n \in Nat : n = Len(us) BY LenProperties
<1>11. PICK k \in 1 .. n : k = m + 1 BY <1>2, <1>9, <1>10
<1>12. Len(vs) = k /\ vs[k] = x /\ \A i \in 1 .. m : vs[i] = g[i]
  BY <1>2, <1>8, <1>9, <1>11, AppendProperties
<1>13. \A i \in 1 .. k : vs[i].back = us[i].back
  <2> SUFFICES ASSUME NEW i \in 1 .. k PROVE vs[i].back = us[i].back OBVIOUS
  <2>1. CASE i = k BY <1>2, <1>9, <1>11, <1>12, <2>1
  <2>2. CASE i # k
    <3>1. i \in 1 .. m /\ i + 0 = i BY <1>11, <2>2
    <3>2. Twin(g[i], us[i]) BY <1>2, <1>9, <3>1 DEF Slice
    <3> QED BY <1>12, <3>1, <3>2 DEF Twin
  <2> QED BY <2>1, <2>2
<1>14. PICK b \in Seq(Contents) : b = Backing(us) BY BackingForm
<1>15. Len(b) = n /\ \A i \in 1 .. n : b[i] = us[i].back BY <1>10, <1>14, BackingForm
<1>16. PICK h \in Seq(Contents) : h = Backing(vs) BY BackingForm
<1>17. Len(h) = k /\ \A i \in 1 .. k : h[i] = vs[i].back BY <1>12, <1>16, BackingForm
<1>18. PICK a : a = SubSeq(b, 1, k) OBVIOUS
<1>19. a \in Seq(Contents) /\ Len(a) = k /\ \A i \in 1 .. k : a[i] = b[i]
  <2>1. \A i \in 1 .. k : b[i] \in Contents
    <3>1. \A i \in 1 .. n : b[i] \in Contents BY <1>15, ElementOfSeq
    <3>2. \A i \in 1 .. k : i \in 1 .. n OBVIOUS
    <3> QED BY <3>1, <3>2
  <2>2. 1 \in Int /\ k \in Int /\ k - 1 + 1 = k /\ 1 =< k OBVIOUS
  <2>3. /\ a \in Seq(Contents) /\ Len(a) = (IF 1 =< k THEN k - 1 + 1 ELSE 0)
        /\ \A i \in 1 .. k - 1 + 1 : a[i] = b[1 + i - 1]
    BY <1>18, <2>1, <2>2, SubSeqProperties
  <2>4. \A i \in 1 .. k : a[i] = b[i]
    <3> SUFFICES ASSUME NEW i \in 1 .. k PROVE a[i] = b[i] OBVIOUS
    <3>1. 1 + i - 1 = i /\ i \in 1 .. k - 1 + 1 BY <2>2
    <3>2. a[i] = b[1 + i - 1] BY <2>3, <3>1
    <3> QED BY <3>1, <3>2
  <2>5. Len(a) = k BY <2>2, <2>3
  <2> QED BY <2>3, <2>4, <2>5
<1>20. h = a
  <2>1. \A i \in 1 .. Len(h) : h[i] = a[i]
    <3> SUFFICES ASSUME NEW i \in 1 .. k PROVE h[i] = a[i] BY <1>17
    <3>1. i \in 1 .. n OBVIOUS
    <3>2. h[i] = us[i].back BY <1>13, <1>17
    <3> QED BY <1>15, <1>19, <3>1, <3>2
  <2> QED BY <1>17, <1>19, <2>1, SeqEqual
<1>21. /\ Visible(doc.data)' = Visible(E.data) /\ Opens(doc)' = Opens(E)
       /\ Backing(doc.undos)' = Backing(E.undos)
       /\ Backing(doc.redos)' = Backing(E.redos)
  BY BecomeShown
<1> QED BY <1>1, <1>3, <1>4, <1>5, <1>6, <1>7, <1>8, <1>14, <1>15, <1>16, <1>18, <1>20, <1>21,
           ShownMerge

-----------------------------------------------------------------------------

LEMMA InitShown == ASSUME Init PROVE Promise!Init
<1>1. PICK nested \in Modes, only \in Denials, limit \in Limits :
        /\ nested => limit > 0
        /\ doc = [data |-> [NewData EXCEPT !.allow = ~only], undos |-> << >>,
                  redos |-> << >>, filo |-> << >>, limit |-> Clamped(limit),
                  nested |-> nested, only |-> only, from |-> FALSE, fromRedo |-> FALSE]
  BY DEF Init
<1>2. doc.undos = << >> /\ doc.redos = << >> /\ doc.filo = << >> BY <1>1
<1>3. doc.data.transaction = 0 /\ doc.data.attr = [o \in Objects |-> NoAttribute]
  BY <1>1 DEF NewData
<1>4. Visible(doc.data) = Nothing
  <2>1. \A s \in Slots : Find(doc.data, s) = {} BY <1>3 DEF Find, NoAttribute
  <2> QED BY <2>1 DEF Visible, Nothing
<1>5. Opens(doc) = << >>
  <2>1. Keeping BY InitKept
  <2>2. ~Opened(doc) BY <1>3 DEF Opened
  <2> QED BY <2>1, <2>2, KeepingShown, OpensFacts
<1>6. Backing(doc.undos) = << >> /\ Backing(doc.redos) = << >> BY <1>2 DEF Backing
<1> QED BY <1>4, <1>5, <1>6 DEF Promise!Init, Opens, Backing

LEMMA NextShown == Careful /\ Keeping /\ [Next]_doc => [Promise!Next]_(Promise!vars)
<1> SUFFICES ASSUME Careful, Keeping, [Next]_doc PROVE Promise!Next \/ UNCHANGED Promise!vars
  OBVIOUS
<1>1. CASE \E s \in Slots, v \in Values : AddAttribute(s, v) \/ Change(s, v)
  <2>1. \E S \in SUBSET Objects : \E E \in Kept(S) : Become(E) /\ Edited(doc, E)
    BY <1>1, AddAttributeMade, ChangeMade
  <2>2. Promise!Edit BY <2>1, EditedShown
  <2> QED BY <2>2 DEF Promise!Next
<1>2. CASE \E s \in Slots : ForgetAttribute(s)
  <2>1. \E S \in SUBSET Objects : \E E \in Kept(S) : Become(E) /\ Edited(doc, E)
    BY <1>2, ForgetAttributeMade
  <2>2. Promise!Edit BY <2>1, EditedShown
  <2> QED BY <2>2 DEF Promise!Next
<1>3. CASE OpenCommand BY <1>3, OpenCommandShown DEF Promise!Next
<1>4. CASE CommitCommand BY <1>4, CommitCommandShown DEF Promise!Next
<1>5. CASE NewCommand BY <1>5, NewCommandShown DEF Promise!Next
<1>6. CASE AbortCommand BY <1>6, AbortCommandShown DEF Promise!Next
<1>7. CASE UndoCommand BY <1>7, UndoCommandShown DEF Promise!Next
<1>8. CASE RedoCommand BY <1>8, RedoCommandShown DEF Promise!Next
<1>9. CASE \E L \in Limits : SetUndoLimit(L) BY <1>9, SetUndoLimitShown DEF Promise!Next
<1>10. CASE ClearUndos \/ ClearRedos \/ RemoveFirstUndo \/ InitDeltaCompaction
  <2>1. PICK S \in SUBSET Objects : \E E \in Kept(S) :
            doc \in Kept(S) /\ Become(E) /\ \E k : Shortened(doc, E, k)
    BY <1>10, ClearsMade, InitDeltaCompactionMade
  <2>2. Promise!Drop BY <2>1, ShortenedShown
  <2> QED BY <2>2 DEF Promise!Next
<1>11. CASE PerformDeltaCompaction
  <2>1. PICK S \in SUBSET Objects : \E E \in Kept(S) :
            doc \in Kept(S) /\ Become(E) /\ Compacted(S, doc, E)
    BY <1>11, PerformDeltaCompactionMade
  <2>2. Promise!Merge BY <2>1, CompactedShown
  <2> QED BY <2>2 DEF Promise!Next
<1>12. CASE UNCHANGED doc BY <1>12 DEF Promise!vars
<1> QED BY <1>1, <1>2, <1>3, <1>4, <1>5, <1>6, <1>7, <1>8, <1>9, <1>10, <1>11, <1>12 DEF Next

\* The document keeps what UndoStack promises the application, command by
\* command, however deep they nest: an abort brings back what its command
\* started from, an undo or a redo what the step it takes back or forth did,
\* and no stored step is altered (TDocStd_Document::OpenCommand, CommitCommand,
\* AbortCommand, Undo, Redo, SetUndoLimit, PerformDeltaCompaction).
THEOREM PromiseIsKept == ASSUME Careful PROVE Spec => PromiseKept
<1>1. Careful OBVIOUS
<1>2. Keeping /\ [Next]_doc => Keeping' BY <1>1, NextKept
<1>3. Spec => []Keeping BY <1>2, InitKept, PTL DEF Spec
<1>4. Keeping /\ [Next]_doc => [Promise!Next]_(Promise!vars) BY <1>1, NextShown
<1> QED BY <1>3, <1>4, InitShown, PTL DEF Spec, PromiseKept, Promise!Spec

=============================================================================
