--------------------------- MODULE FunctionProofs ---------------------------
(* Proofs about FunctionGraph, for any labels, arguments and numbers, and    *)
(* about FunctionIterator, for any functions and any graphs.                 *)
EXTENDS FunctionGraph, FunctionIterator, FiniteSetTheorems, WellFoundedInduction, TLAPS

-----------------------------------------------------------------------------
(* The graph of functions.                                                   *)

\* No function is linked to itself, so that such a link never changes.
NoneToItself == \A f \in Labels : <<f, f>> \notin unsettled

GraphSafe ==
    GraphTypeOK /\ NoneToItself /\ NoDangling /\ Mutual /\ LinksMatch /\ DeletesWhole

LEMMA GraphInitSafe == GraphInit => GraphSafe
<1> SUFFICES ASSUME GraphInit PROVE GraphSafe OBVIOUS
<1> USE GraphAssumption DEF GraphInit
<1>1. Scope = {} BY DEF Scope
<1>2. GraphTypeOK
  <2>1. id \in [Labels -> 0 .. MaxID] /\ freeID \in 1 .. MaxID + 1 OBVIOUS
  <2>2. previous \in [Labels -> SUBSET Nat] /\ next \in [Labels -> SUBSET Nat] OBVIOUS
  <2>3. \A f \in Labels : id[f] < freeID /\ previous[f] \cup next[f] \subseteq 1 .. freeID - 1
    OBVIOUS
  <2>4. args \in [Labels -> SUBSET Labels] OBVIOUS
  <2>5. parted \subseteq unsettled /\ unsettled \subseteq Labels \X Labels
    <3>1. unsettled = {} /\ parted = {} OBVIOUS
    <3> QED BY <3>1
  <2>6. functions \subseteq Scope /\ lost \subseteq 1 .. freeID - 1
    <3>1. functions = {} /\ lost = {} OBVIOUS
    <3> QED BY <3>1
  <2> QED BY <1>1, <2>1, <2>2, <2>3, <2>4, <2>5, <2>6 DEF GraphTypeOK
<1>3. functions = {} OBVIOUS
<1>4. NoneToItself
  <2>1. unsettled = {} OBVIOUS
  <2> QED BY <2>1 DEF NoneToItself
<1> QED BY <1>1, <1>2, <1>3, <1>4 DEF GraphSafe, NoDangling, Mutual, LinksMatch, DeletesWhole

\* A number is that of one function, and is not 0.
LEMMA Numbered ==
    ASSUME GraphTypeOK
    PROVE  /\ \A f \in Scope : f \in Labels /\ id[f] \in Nat /\ id[f] # 0 /\ id[f] < freeID
           /\ \A f \in Scope, ls \in SUBSET Scope : id[f] \in IdsOf(ls) <=> f \in ls
           /\ freeID \in Nat
<1>1. freeID \in Nat BY GraphAssumption DEF GraphTypeOK
<1>2. \A f \in Scope : f \in Labels /\ id[f] \in Nat /\ id[f] # 0 /\ id[f] < freeID
  BY GraphAssumption DEF GraphTypeOK, Scope
<1>3. \A f, g \in Scope : id[f] = id[g] => f = g BY DEF GraphTypeOK
<1>4. \A f \in Scope, ls \in SUBSET Scope : id[f] \in IdsOf(ls) <=> f \in ls
  BY <1>3 DEF IdsOf
<1> QED BY <1>1, <1>2, <1>4

\* A function is never its own neighbour.
LEMMA NotItsOwn ==
    ASSUME GraphSafe, NEW f \in Scope PROVE id[f] \notin previous[f] /\ id[f] \notin next[f]
<1>1. f \notin ArgumentsOf(f) /\ f \in Labels BY DEF ArgumentsOf, Scope
<1> QED BY <1>1 DEF GraphSafe, LinksMatch, NoneToItself

LEMMA LinksOfType ==
    ASSUME NEW f \in Labels
    PROVE  /\ LinksOf(f) \subseteq Labels \X Labels
           /\ \A l \in Labels : <<l, l>> \notin LinksOf(f)
BY DEF LinksOf, Scope

-----------------------------------------------------------------------------

LEMMA NewFunctionSafe == ASSUME GraphSafe, NEW f \in Labels, NewFunction(f) PROVE GraphSafe'
<1> USE GraphAssumption
<1> DEFINE more == unsettled \cup LinksOf(f)
<1>1. /\ unsettled' = more /\ functions' = functions \cup {f}
      /\ UNCHANGED <<args, lost>>
      /\ previous' = [l \in Labels |-> IF l = f THEN {} ELSE previous[l]]
      /\ next' = [l \in Labels |-> IF l = f THEN {} ELSE next[l]]
  BY DEF NewFunction, Cleaned
<1>2. more \subseteq Labels \X Labels /\ \A l \in Labels : <<l, l>> \notin more
  BY LinksOfType DEF GraphSafe, GraphTypeOK, NoneToItself
<1>3. NoneToItself' BY <1>1, <1>2 DEF NoneToItself
<1>4. CASE f \in Scope
  <2>1. UNCHANGED <<id, freeID>> /\ parted' = parted \cup LinksOf(f)
    BY <1>4 DEF NewFunction
  <2>2. Scope' = Scope BY <2>1 DEF Scope
  <2>3. \A l \in Labels : /\ previous'[l] \subseteq previous[l] /\ next'[l] \subseteq next[l]
                          /\ l # f => previous'[l] = previous[l] /\ next'[l] = next[l]
    BY <1>1
  <2>4. previous'[f] = {} /\ next'[f] = {} BY <1>1
  <2>5. GraphTypeOK'
    <3>1. previous' \in [Labels -> SUBSET Nat] /\ next' \in [Labels -> SUBSET Nat]
      BY <1>1 DEF GraphSafe, GraphTypeOK
    <3>2. parted' \subseteq unsettled' BY <1>1, <2>1 DEF GraphSafe, GraphTypeOK
    <3>3. functions' \subseteq Scope' BY <1>1, <1>4, <2>2 DEF GraphSafe, GraphTypeOK
    <3> HIDE DEF more
    <3> QED BY <1>1, <1>2, <2>1, <2>2, <2>3, <3>1, <3>2, <3>3 DEF GraphSafe, GraphTypeOK
  <2>6. NoDangling'
    <3>1. \A l \in Scope : /\ l \in Labels
                           /\ previous[l] \cup next[l] \subseteq IdsOf(Scope) \cup lost
      BY DEF GraphSafe, NoDangling, Scope
    <3>2. IdsOf(Scope)' = IdsOf(Scope) /\ lost' = lost BY <1>1, <2>1, <2>2 DEF IdsOf
    <3> QED BY <2>2, <2>3, <3>1, <3>2 DEF NoDangling
  <2>7. ASSUME NEW l \in Scope, NEW g \in Scope, <<g, l>> \notin LinksOf(f)
        PROVE  (l # f /\ g # f) \/ (l = f /\ g = f)
    BY <1>4, <2>7 DEF LinksOf
  <2>8. Mutual'
    BY <2>1, <2>2, <2>3, <2>4, <2>7 DEF GraphSafe, Mutual, Scope
  <2>9. LinksMatch'
    <3> SUFFICES ASSUME NEW l \in Scope, NEW g \in Scope, <<g, l>> \notin unsettled,
                        <<g, l>> \notin LinksOf(f)
                 PROVE  /\ id[g] \in previous'[l] <=> g \in ArgumentsOf(l)
                        /\ id[l] \in next'[g] <=> g \in ArgumentsOf(l)
      BY <1>1, <2>1, <2>2 DEF LinksMatch, ArgumentsOf
    <3>1. CASE l # f /\ g # f BY <2>3, <3>1 DEF GraphSafe, LinksMatch, Scope
    <3>2. CASE l = f /\ g = f BY <2>4, <3>2 DEF ArgumentsOf
    <3> QED BY <2>7, <3>1, <3>2
  <2>10. DeletesWhole' BY <1>1, <1>4, <2>2 DEF GraphSafe, DeletesWhole
  <2> QED BY <1>3, <2>5, <2>6, <2>8, <2>9, <2>10 DEF GraphSafe
<1>5. CASE f \notin Scope
  <2>1. /\ freeID \in 1 .. MaxID /\ freeID' = freeID + 1 /\ id' = [id EXCEPT ![f] = freeID]
        /\ UNCHANGED parted
    BY <1>5 DEF NewFunction, NextID, GraphSafe, GraphTypeOK
  <2>2. /\ Scope' = Scope \cup {f} /\ id'[f] = freeID
        /\ \A l \in Scope : l # f /\ l \in Labels /\ id'[l] = id[l]
    BY <1>5, <2>1 DEF GraphSafe, GraphTypeOK, Scope
  <2>3. /\ previous'[f] = {} /\ next'[f] = {}
        /\ \A l \in Labels : l # f => previous'[l] = previous[l] /\ next'[l] = next[l]
        /\ \A l \in Labels : freeID \notin previous'[l] /\ freeID \notin next'[l]
    <3>1. \A l \in Labels : freeID \notin previous[l] /\ freeID \notin next[l]
      <4>1. freeID \notin 1 .. freeID - 1 BY <2>1
      <4> QED BY <4>1 DEF GraphSafe, GraphTypeOK
    <3> QED BY <1>1, <3>1
  <2>4. GraphTypeOK'
    <3>1. previous' \in [Labels -> SUBSET Nat] /\ next' \in [Labels -> SUBSET Nat]
      BY <1>1 DEF GraphSafe, GraphTypeOK
    <3>2. \A l \in Labels : previous'[l] \cup next'[l] \subseteq 1 .. freeID' - 1
      <4>1. 1 .. freeID - 1 \subseteq 1 .. freeID' - 1 BY <2>1
      <4>2. \A l \in Labels : previous[l] \cup next[l] \subseteq 1 .. freeID - 1
        BY DEF GraphSafe, GraphTypeOK
      <4> QED BY <2>3, <4>1, <4>2
    <3>3. \A l \in Labels : id'[l] < freeID' BY <2>1 DEF GraphSafe, GraphTypeOK
    <3>4. \A l, g \in Scope' : l # g => id'[l] # id'[g]
      BY <2>1, <2>2, Numbered DEF GraphSafe, GraphTypeOK
    <3>5. parted' \subseteq unsettled' BY <1>1, <2>1 DEF GraphSafe, GraphTypeOK
    <3>6. functions' \subseteq Scope' BY <1>1, <2>2 DEF GraphSafe, GraphTypeOK
    <3>7. lost' \subseteq 1 .. freeID' - 1 BY <1>1, <2>1 DEF GraphSafe, GraphTypeOK
    <3>8. id' \in [Labels -> 0 .. MaxID] /\ freeID' \in 1 .. MaxID + 1
      BY <2>1 DEF GraphSafe, GraphTypeOK
    <3>9. args' \in [Labels -> SUBSET Labels] /\ unsettled' \subseteq Labels \X Labels
      BY <1>1, <1>2 DEF GraphSafe, GraphTypeOK
    <3> QED BY <3>1, <3>2, <3>3, <3>4, <3>5, <3>6, <3>7, <3>8, <3>9 DEF GraphTypeOK
  <2>5. NoDangling'
    <3>1. \A l \in Scope : previous[l] \cup next[l] \subseteq IdsOf(Scope) \cup lost
      BY DEF GraphSafe, NoDangling
    <3>2. IdsOf(Scope) \subseteq IdsOf(Scope)' /\ lost' = lost BY <1>1, <2>2 DEF IdsOf
    <3> QED BY <2>2, <2>3, <3>1, <3>2 DEF NoDangling
  <2>6. Mutual'
    <3> SUFFICES ASSUME NEW l \in Scope', NEW g \in Scope', <<g, l>> \notin parted
                 PROVE  id'[g] \in previous'[l] <=> id'[l] \in next'[g]
      BY <2>1 DEF Mutual
    <3>1. CASE l # f /\ g # f BY <2>2, <2>3, <3>1 DEF GraphSafe, Mutual
    <3>2. CASE l = f \/ g = f
      <4>1. l \in Labels /\ g \in Labels BY <2>2
      <4> QED BY <2>2, <2>3, <3>2, <4>1
    <3> QED BY <3>1, <3>2
  <2>7. LinksMatch'
    <3> SUFFICES ASSUME NEW l \in Scope', NEW g \in Scope', <<g, l>> \notin unsettled'
                 PROVE  /\ id'[g] \in previous'[l] <=> g \in ArgumentsOf(l)'
                        /\ id'[l] \in next'[g] <=> g \in ArgumentsOf(l)'
      BY DEF LinksMatch
    <3>1. CASE l = f /\ g = f
      BY <2>2, <2>3, <3>1 DEF ArgumentsOf
    <3>2. CASE l # f /\ g # f
      BY <1>1, <2>1, <2>2, <2>3, <3>2 DEF GraphSafe, LinksMatch, ArgumentsOf
    <3>3. CASE (l = f) # (g = f)
      BY <1>1, <2>2, <3>3 DEF LinksOf
    <3> QED BY <3>1, <3>2, <3>3
  <2>8. DeletesWhole' BY <1>1, <2>2 DEF GraphSafe, DeletesWhole
  <2> QED BY <1>3, <2>4, <2>5, <2>6, <2>7, <2>8 DEF GraphSafe
<1> QED BY <1>4, <1>5

LEMMA SetArgumentSafe ==
    ASSUME GraphSafe, NEW f \in Labels, NEW g \in Labels, SetArgument(f, g) PROVE GraphSafe'
<1> USE GraphAssumption DEF SetArgument
<1>1. UNCHANGED <<id, freeID, functions, previous, next, parted, lost>> OBVIOUS
<1>2. Scope' = Scope BY <1>1 DEF Scope
<1>3. GraphTypeOK' /\ NoneToItself'
  <2>1. args' \in [Labels -> SUBSET Labels] BY DEF GraphSafe, GraphTypeOK
  <2>2. unsettled \subseteq unsettled' /\ unsettled' \subseteq Labels \X Labels
    BY DEF GraphSafe, GraphTypeOK
  <2>3. NoneToItself' BY DEF GraphSafe, NoneToItself, LinksOf
  <2> QED BY <1>1, <1>2, <2>1, <2>2, <2>3 DEF GraphSafe, GraphTypeOK
<1>4. NoDangling' /\ Mutual' /\ DeletesWhole'
  BY <1>1, <1>2 DEF GraphSafe, NoDangling, Mutual, IdsOf, DeletesWhole
<1>5. LinksMatch'
  <2> SUFFICES ASSUME NEW l \in Scope, NEW h \in Scope, <<h, l>> \notin unsettled'
               PROVE  /\ id[h] \in previous[l] <=> h \in ArgumentsOf(l)'
                      /\ id[l] \in next[h] <=> h \in ArgumentsOf(l)'
    BY <1>1, <1>2 DEF LinksMatch
  <2>1. h \in ArgumentsOf(l)' <=> h \in ArgumentsOf(l)
    BY <1>2 DEF ArgumentsOf, LinksOf, GraphSafe, GraphTypeOK, Scope
  <2>2. <<h, l>> \notin unsettled OBVIOUS
  <2> QED BY <2>1, <2>2 DEF GraphSafe, LinksMatch
<1> QED BY <1>3, <1>4, <1>5 DEF GraphSafe

-----------------------------------------------------------------------------
(* Deletion, complete and interrupted.                                     *)

\* Neighbours that forget a function keep their other numbers.
LEMMA Forgetting ==
    ASSUME GraphSafe, NEW f \in Scope, NEW links \in [Labels -> SUBSET Nat], NEW ls
    PROVE  /\ Disconnected(links, f, ls) \in [Labels -> SUBSET Nat]
           /\ \A l \in Labels : Disconnected(links, f, ls)[l] \subseteq links[l]
           /\ \A l \in Labels, g \in Scope \ {f} :
                 id[g] \in Disconnected(links, f, ls)[l] <=> id[g] \in links[l]
           /\ \A l \in Labels \cap ls : id[f] \notin Disconnected(links, f, ls)[l]
<1>1. \A g \in Scope \ {f} : id[g] # id[f] BY DEF GraphSafe, GraphTypeOK
<1>2. \A l \in Labels : links[l] \ {id[f]} \in SUBSET Nat OBVIOUS
<1> QED BY <1>1, <1>2 DEF Disconnected

LEMMA DisconnectSafe ==
    ASSUME GraphSafe, NEW f \in Scope, Disconnect(f), functions' = functions \ {f},
           UNCHANGED <<freeID, args>>
    PROVE  GraphSafe'
<1> USE GraphAssumption
<1>1. /\ f \in Labels /\ id' = [id EXCEPT ![f] = 0] /\ unsettled' = unsettled \ LinksOf(f)
      /\ parted' = parted \ LinksOf(f)
      /\ lost' = IF parted \cap LinksOf(f) = {} THEN lost ELSE lost \cup {id[f]}
  BY DEF Disconnect, Scope
<1>2. /\ Scope' = Scope \ {f}
      /\ \A l \in Scope' : l \in Labels /\ l # f /\ id'[l] = id[l]
  BY <1>1 DEF GraphSafe, GraphTypeOK, Scope
<1>3. previous \in [Labels -> SUBSET Nat] /\ next \in [Labels -> SUBSET Nat]
  BY DEF GraphSafe, GraphTypeOK
<1> DEFINE p == Disconnected(previous, f, Of(next[f]))
           n == Disconnected(next, f, Of(previous[f]))
<1>4. previous' = [p EXCEPT ![f] = {}] /\ next' = [n EXCEPT ![f] = {}]
  BY DEF Disconnect
<1>5. p \in [Labels -> SUBSET Nat] /\ n \in [Labels -> SUBSET Nat]
  BY <1>3, Forgetting
<1>6. \A l \in Labels : p[l] \subseteq previous[l] /\ n[l] \subseteq next[l]
  BY <1>3, Forgetting
<1>7. \A l \in Labels, g \in Scope \ {f} :
        (id[g] \in p[l] <=> id[g] \in previous[l]) /\ (id[g] \in n[l] <=> id[g] \in next[l])
  BY <1>3, Forgetting
<1>8. /\ \A l \in Labels \cap Of(next[f]) : id[f] \notin p[l]
      /\ \A l \in Labels \cap Of(previous[f]) : id[f] \notin n[l]
  BY <1>3, Forgetting
<1> HIDE DEF p, n
<1>9. /\ previous' \in [Labels -> SUBSET Nat] /\ next' \in [Labels -> SUBSET Nat]
      /\ \A l \in Labels : previous'[l] \subseteq previous[l] /\ next'[l] \subseteq next[l]
      /\ \A l \in Scope' : previous'[l] = p[l] /\ next'[l] = n[l]
  BY <1>2, <1>4, <1>5, <1>6
<1>10. GraphTypeOK'
  <2>1. id' \in [Labels -> 0 .. MaxID] BY <1>1 DEF GraphSafe, GraphTypeOK
  <2>2. \A l \in Labels : id'[l] < freeID' BY <1>1 DEF GraphSafe, GraphTypeOK
  <2>3. \A l \in Labels : previous'[l] \cup next'[l] \subseteq 1 .. freeID' - 1
    BY <1>9 DEF GraphSafe, GraphTypeOK
  <2>4. \A l, g \in Scope' : l # g => id'[l] # id'[g]
    BY <1>2 DEF GraphSafe, GraphTypeOK
  <2>5. functions' \subseteq Scope' BY <1>2 DEF GraphSafe, GraphTypeOK
  <2>6. parted' \subseteq unsettled' /\ unsettled' \subseteq Labels \X Labels
    BY <1>1 DEF GraphSafe, GraphTypeOK
  <2>7. lost' \subseteq 1 .. freeID' - 1
    <3>1. id[f] \in 1 .. freeID - 1 BY Numbered DEF GraphSafe
    <3> QED BY <1>1, <3>1 DEF GraphSafe, GraphTypeOK
  <2> QED BY <1>9, <2>1, <2>2, <2>3, <2>4, <2>5, <2>6, <2>7 DEF GraphSafe, GraphTypeOK
<1>11. NoneToItself' BY <1>1 DEF GraphSafe, NoneToItself
<1>12. NoDangling'
  <2> SUFFICES ASSUME NEW l \in Scope', NEW x \in previous'[l] \cup next'[l]
               PROVE  x \in IdsOf(Scope)' \/ x \in lost'
    BY DEF NoDangling
  <2>1. l \in Scope /\ l # f /\ l \in Labels BY <1>2
  <2>2. x \in previous[l] \cup next[l] BY <1>9, <2>1
  <2>3. x \in IdsOf(Scope) \/ x \in lost BY <2>1, <2>2 DEF GraphSafe, NoDangling
  <2>4. CASE x \in lost BY <1>1, <2>4
  <2>5. CASE x \in IdsOf(Scope) /\ x # id[f]
    BY <1>2, <2>5 DEF IdsOf
  <2>6. CASE x = id[f]
    <3>1. CASE parted \cap LinksOf(f) # {} BY <1>1, <2>6, <3>1
    <3>2. CASE parted \cap LinksOf(f) = {}
      <4>1. <<f, l>> \notin parted /\ <<l, f>> \notin parted BY <2>1, <3>2 DEF LinksOf
      <4>2. id[f] \in previous[l] => l \in Of(next[f])
        BY <2>1, <4>1 DEF GraphSafe, Mutual, Of
      <4>3. id[f] \in next[l] => l \in Of(previous[f])
        BY <2>1, <4>1 DEF GraphSafe, Mutual, Of
      <4>4. id[f] \notin p[l] /\ id[f] \notin n[l] BY <1>6, <1>8, <2>1, <4>2, <4>3
      <4> QED BY <1>9, <2>6, <4>4
    <3> QED BY <3>1, <3>2
  <2> QED BY <2>3, <2>4, <2>5, <2>6
<1>13. \A l, g \in Scope' :
         /\ id'[g] \in previous'[l] <=> id[g] \in previous[l]
         /\ id'[g] \in next'[l] <=> id[g] \in next[l]
         /\ <<g, l>> \notin LinksOf(f)
  BY <1>2, <1>7, <1>9 DEF LinksOf
<1>14. Mutual' BY <1>1, <1>2, <1>13 DEF GraphSafe, Mutual
<1>15. LinksMatch'
  <2> SUFFICES ASSUME NEW l \in Scope', NEW g \in Scope', <<g, l>> \notin unsettled'
               PROVE  /\ id'[g] \in previous'[l] <=> g \in ArgumentsOf(l)'
                      /\ id'[l] \in next'[g] <=> g \in ArgumentsOf(l)'
    BY DEF LinksMatch
  <2>1. g \in ArgumentsOf(l)' <=> g \in ArgumentsOf(l) BY <1>2 DEF ArgumentsOf
  <2>2. <<g, l>> \notin unsettled BY <1>1, <1>13
  <2> QED BY <1>2, <1>13, <2>1, <2>2 DEF GraphSafe, LinksMatch
<1>16. DeletesWhole' BY <1>1, <1>2 DEF GraphSafe, DeletesWhole
<1> QED BY <1>10, <1>11, <1>12, <1>14, <1>15, <1>16 DEF GraphSafe

\* When it throws, a number was lost before.
LEMMA InterruptedSafe ==
    ASSUME GraphSafe, NEW f \in Scope, Interrupted(f), functions' = functions \ {f},
           ~(previous[f] \cup next[f] \subseteq IdsOf(Scope)), UNCHANGED <<freeID, args>>
    PROVE  GraphSafe'
<1>1. /\ UNCHANGED <<id, lost>> /\ f \in Labels
      /\ parted' = parted \cup LinksOf(f) /\ unsettled' = unsettled \cup LinksOf(f)
  BY DEF Interrupted, Scope
<1>2. PICK ps \in SUBSET Of(previous[f]), ns \in SUBSET Of(next[f]) :
        next' = Disconnected(next, f, ps) /\ previous' = Disconnected(previous, f, ns)
  BY DEF Interrupted
<1>3. Scope' = Scope BY <1>1 DEF Scope
<1>4. previous \in [Labels -> SUBSET Nat] /\ next \in [Labels -> SUBSET Nat]
  BY DEF GraphSafe, GraphTypeOK
<1>5. previous' \in [Labels -> SUBSET Nat] /\ next' \in [Labels -> SUBSET Nat]
  BY <1>2, <1>4, Forgetting
<1>6. \A l \in Labels : previous'[l] \subseteq previous[l] /\ next'[l] \subseteq next[l]
  BY <1>2, <1>4, Forgetting
<1>7. \A l \in Labels, g \in Scope \ {f} :
        (id[g] \in previous'[l] <=> id[g] \in previous[l])
        /\ (id[g] \in next'[l] <=> id[g] \in next[l])
  BY <1>2, <1>4, Forgetting
<1>8. GraphTypeOK' /\ NoneToItself'
  <2>1. \A l \in Labels : previous'[l] \cup next'[l] \subseteq 1 .. freeID' - 1
    BY <1>6 DEF GraphSafe, GraphTypeOK
  <2>2. functions' \subseteq Scope' BY <1>3 DEF GraphSafe, GraphTypeOK
  <2>3. parted' \subseteq unsettled' /\ unsettled' \subseteq Labels \X Labels
    BY <1>1, LinksOfType DEF GraphSafe, GraphTypeOK
  <2>4. NoneToItself' BY <1>1, LinksOfType DEF GraphSafe, NoneToItself
  <2> QED BY <1>1, <1>3, <1>5, <2>1, <2>2, <2>3, <2>4 DEF GraphSafe, GraphTypeOK
<1>9. NoDangling' BY <1>1, <1>3, <1>6 DEF GraphSafe, NoDangling, IdsOf, Scope
<1>10. ASSUME NEW l \in Scope, NEW g \in Scope, <<g, l>> \notin LinksOf(f)
       PROVE  /\ id[g] \in previous'[l] <=> id[g] \in previous[l]
              /\ id[l] \in next'[g] <=> id[l] \in next[g]
  <2>1. CASE l = f /\ g = f
    <3>1. id[f] \notin previous[f] /\ id[f] \notin next[f] BY NotItsOwn
    <3> QED BY <1>1, <1>6, <2>1, <3>1
  <2>2. CASE l # f /\ g # f BY <1>7, <2>2 DEF Scope
  <2> QED BY <1>10, <2>1, <2>2 DEF LinksOf
<1>11. Mutual' BY <1>1, <1>3, <1>10 DEF GraphSafe, Mutual
<1>12. LinksMatch'
  BY <1>1, <1>3, <1>10 DEF GraphSafe, LinksMatch, ArgumentsOf
<1>13. DeletesWhole' BY <1>1 DEF GraphSafe, NoDangling, DeletesWhole
<1> QED BY <1>8, <1>9, <1>11, <1>12, <1>13 DEF GraphSafe

LEMMA DeleteFunctionSafe == ASSUME GraphSafe, NEW f \in Labels, DeleteFunction(f) PROVE GraphSafe'
BY DisconnectSafe, InterruptedSafe DEF DeleteFunction

-----------------------------------------------------------------------------
(* The updates.                                                            *)

LEMMA UpdateDependenciesSafe == ASSUME GraphSafe, UpdateDependencies PROVE GraphSafe'
<1> USE GraphAssumption
<1>1. UNCHANGED <<id, freeID, functions, args>> BY DEF UpdateDependencies
<1>2. Scope' = Scope BY <1>1 DEF Scope
<1>3. CASE AllDriven
  <2>1. unsettled' = {} /\ parted' = {} /\ lost' = {} BY <1>3 DEF UpdateDependencies
  <2>2. \A l \in Scope : previous'[l] = IdsOf(ArgumentsOf(l)) /\ next'[l] = IdsOf(UsersOf(l))
    BY <1>3 DEF UpdateDependencies, Cleaned, Scope
  <2>3. \A l \in Labels \ Scope : previous'[l] = previous[l] /\ next'[l] = next[l]
    <3>1. \A l \in Labels \ Scope : /\ previous'[l] = previous[l] \cup {}
                                    /\ next'[l] = next[l] \cup {}
      BY <1>3 DEF UpdateDependencies, Cleaned
    <3> QED BY <3>1
  <2>4. \A l \in Scope : ArgumentsOf(l) \in SUBSET Scope /\ UsersOf(l) \in SUBSET Scope
    BY DEF ArgumentsOf, UsersOf
  <2>5. GraphTypeOK' /\ NoneToItself'
    <3>1. \A l \in Labels : previous'[l] \cup next'[l] \subseteq 1 .. freeID - 1
      <4>1. \A ls \in SUBSET Scope : IdsOf(ls) \subseteq 1 .. freeID - 1
        BY Numbered DEF GraphSafe, IdsOf
      <4> QED BY <2>2, <2>3, <2>4, <4>1 DEF GraphSafe, GraphTypeOK
    <3>2. previous' \in [Labels -> SUBSET Nat] /\ next' \in [Labels -> SUBSET Nat]
      <4>1. /\ previous' = [l \in Labels |-> previous'[l]]
            /\ next' = [l \in Labels |-> next'[l]]
        BY <1>3 DEF UpdateDependencies
      <4>2. \A l \in Labels : previous'[l] \in SUBSET Nat /\ next'[l] \in SUBSET Nat
        BY <3>1 DEF GraphSafe, GraphTypeOK
      <4> QED BY <4>1, <4>2
    <3> QED BY <1>1, <1>2, <2>1, <3>1, <3>2 DEF GraphSafe, GraphTypeOK, NoneToItself
  <2>6. NoDangling' BY <1>1, <1>2, <2>2, <2>4 DEF NoDangling, IdsOf
  <2>7. \A l, g \in Scope : /\ id[g] \in previous'[l] <=> g \in ArgumentsOf(l)
                            /\ id[l] \in next'[g] <=> g \in ArgumentsOf(l)
    <3>1. \A l, g \in Scope : l \in UsersOf(g) <=> g \in ArgumentsOf(l)
      BY DEF ArgumentsOf, UsersOf
    <3> QED BY <2>2, <2>4, <3>1, Numbered DEF GraphSafe
  <2>8. Mutual' /\ LinksMatch' BY <1>1, <1>2, <2>7 DEF Mutual, LinksMatch, ArgumentsOf
  <2>9. DeletesWhole' BY <1>1, <1>2, <1>3 DEF GraphSafe, GraphTypeOK, AllDriven, DeletesWhole
  <2> QED BY <2>5, <2>6, <2>8, <2>9 DEF GraphSafe
<1>4. CASE ~AllDriven
  <2>1. PICK fs \in SUBSET functions :
          /\ previous' = Cleaned(previous, fs) /\ next' = Cleaned(next, fs)
          /\ unsettled' = unsettled \cup UNION {LinksOf(f) : f \in fs}
          /\ parted' = parted \cup UNION {LinksOf(f) : f \in fs}
    BY <1>4 DEF UpdateDependencies
  <2>2. fs \subseteq Scope /\ lost' = lost /\ Scope \subseteq Labels
    BY <1>4 DEF UpdateDependencies, GraphSafe, GraphTypeOK, Scope
  <2>3. \A l \in Labels : /\ previous'[l] \subseteq previous[l] /\ next'[l] \subseteq next[l]
                          /\ l \notin fs => previous'[l] = previous[l] /\ next'[l] = next[l]
                          /\ l \in fs => previous'[l] = {} /\ next'[l] = {}
    BY <2>1 DEF Cleaned
  <2>4. GraphTypeOK' /\ NoneToItself'
    <3>1. previous' \in [Labels -> SUBSET Nat] /\ next' \in [Labels -> SUBSET Nat]
      BY <2>1 DEF Cleaned, GraphSafe, GraphTypeOK
    <3>2. \A l \in Labels : previous'[l] \cup next'[l] \subseteq 1 .. freeID' - 1
      BY <1>1, <2>3 DEF GraphSafe, GraphTypeOK
    <3>3. \A f \in fs : LinksOf(f) \subseteq Labels \X Labels /\ \A l \in Labels : <<l, l>> \notin LinksOf(f)
      BY <2>2, LinksOfType
    <3>4. parted' \subseteq unsettled' /\ unsettled' \subseteq Labels \X Labels
      BY <2>1, <3>3 DEF GraphSafe, GraphTypeOK
    <3>5. NoneToItself' BY <2>1, <3>3 DEF GraphSafe, NoneToItself
    <3> QED BY <1>1, <1>2, <2>2, <3>1, <3>2, <3>4, <3>5 DEF GraphSafe, GraphTypeOK
  <2>5. NoDangling' BY <1>1, <1>2, <2>2, <2>3 DEF GraphSafe, NoDangling, IdsOf
  <2>6. ASSUME NEW l \in Scope, NEW g \in Scope, <<g, l>> \notin UNION {LinksOf(f) : f \in fs}
        PROVE  /\ id[g] \in previous'[l] <=> id[g] \in previous[l]
               /\ id[l] \in next'[g] <=> id[l] \in next[g]
    <3>1. CASE l = g
      <4>1. id[l] \notin previous[l] /\ id[l] \notin next[l] BY NotItsOwn
      <4> QED BY <2>2, <2>3, <3>1, <4>1
    <3>2. CASE l # g
      <4>1. l \notin fs /\ g \notin fs BY <2>6, <3>2 DEF LinksOf
      <4> QED BY <2>2, <2>3, <4>1
    <3> QED BY <3>1, <3>2
  <2>7. Mutual' BY <1>1, <1>2, <2>1, <2>6 DEF GraphSafe, Mutual
  <2>8. LinksMatch' BY <1>1, <1>2, <2>1, <2>6 DEF GraphSafe, LinksMatch, ArgumentsOf
  <2>9. DeletesWhole' BY <1>1, <1>2, <2>2 DEF GraphSafe, DeletesWhole
  <2> QED BY <2>4, <2>5, <2>7, <2>8, <2>9 DEF GraphSafe
<1> QED BY <1>3, <1>4

LEMMA UpdateOneSafe == ASSUME GraphSafe, NEW f \in Labels, UpdateOne(f) PROVE GraphSafe'
<1> USE GraphAssumption
<1>1. UNCHANGED <<id, freeID, functions, args, lost>> /\ f \in Scope
  BY DEF UpdateOne, GraphSafe, GraphTypeOK
<1>2. Scope' = Scope BY <1>1 DEF Scope
<1>3. PICK gs \in LookedAt(f) :
        LET before == ArgumentsOf(f) \cap gs
            after  == UsersOf(f) \cap gs
            links  == (before \X {f}) \cup ({f} \X after) IN
        /\ previous' = GainedBy(Gains(previous, f, before), f, after)
        /\ next' = GainedBy(Gains(next, f, after), f, before)
        /\ unsettled' = unsettled \ links
        /\ parted' = parted \ links
  BY DEF UpdateOne
<1> DEFINE A == ArgumentsOf(f) \cap gs
           U == UsersOf(f) \cap gs
           links == (A \X {f}) \cup ({f} \X U)
<1>4. A \in SUBSET Scope /\ U \in SUBSET Scope /\ f \notin A /\ f \notin U
  BY DEF ArgumentsOf, UsersOf
<1>5. unsettled' = unsettled \ links /\ parted' = parted \ links BY <1>3
<1>6. /\ previous'[f] = previous[f] \cup IdsOf(A)
      /\ next'[f] = next[f] \cup IdsOf(U)
      /\ \A l \in Labels : l # f =>
            /\ previous'[l] = IF l \in U THEN previous[l] \cup {id[f]} ELSE previous[l]
            /\ next'[l] = IF l \in A THEN next[l] \cup {id[f]} ELSE next[l]
  BY <1>3, <1>1, <1>4 DEF Gains, GainedBy, GraphSafe, GraphTypeOK
<1>7. GraphTypeOK' /\ NoneToItself'
  <2>1. \A ls \in SUBSET Scope : IdsOf(ls) \subseteq 1 .. freeID - 1
    BY Numbered DEF GraphSafe, IdsOf
  <2>2. id[f] \in 1 .. freeID - 1 BY <1>1, Numbered DEF GraphSafe
  <2>3. \A l \in Labels : previous'[l] \cup next'[l] \subseteq 1 .. freeID - 1
    <3>1. \A l \in Labels : previous[l] \cup next[l] \subseteq 1 .. freeID - 1
      BY DEF GraphSafe, GraphTypeOK
    <3>2. IdsOf(A) \subseteq 1 .. freeID - 1 /\ IdsOf(U) \subseteq 1 .. freeID - 1
      BY <1>4, <2>1
    <3> HIDE DEF A, U
    <3>3. previous'[f] \cup next'[f] \subseteq 1 .. freeID - 1
      BY <1>6, <3>1, <3>2
    <3>4. ASSUME NEW l \in Labels, l # f
          PROVE  previous'[l] \cup next'[l] \subseteq 1 .. freeID - 1
      <4>1. previous'[l] \subseteq previous[l] \cup {id[f]} BY <1>6, <3>4
      <4>2. next'[l] \subseteq next[l] \cup {id[f]} BY <1>6, <3>4
      <4> QED BY <2>2, <3>1, <4>1, <4>2
    <3> QED BY <3>3, <3>4
  <2>4. /\ parted' \subseteq unsettled' /\ unsettled' \subseteq Labels \X Labels
        /\ unsettled' \subseteq unsettled
    BY <1>5 DEF GraphSafe, GraphTypeOK
  <2>5. previous' \in [Labels -> SUBSET Nat] /\ next' \in [Labels -> SUBSET Nat]
    <3>1. /\ previous' = [l \in Labels |-> previous'[l]]
          /\ next' = [l \in Labels |-> next'[l]]
      BY <1>3 DEF GainedBy
    <3>2. \A l \in Labels : previous'[l] \in SUBSET Nat /\ next'[l] \in SUBSET Nat
      BY <2>3 DEF GraphSafe, GraphTypeOK
    <3> QED BY <3>1, <3>2
  <2>6. NoneToItself' BY <2>4 DEF GraphSafe, NoneToItself
  <2> HIDE DEF A, U, links
  <2> QED BY <1>1, <1>2, <2>3, <2>4, <2>5, <2>6 DEF GraphSafe, GraphTypeOK
<1>8. NoDangling'
  <2> SUFFICES ASSUME NEW l \in Scope
               PROVE  previous'[l] \cup next'[l] \subseteq IdsOf(Scope) \cup lost
    BY <1>1, <1>2 DEF NoDangling, IdsOf
  <2>1. previous[l] \cup next[l] \subseteq IdsOf(Scope) \cup lost BY DEF GraphSafe, NoDangling
  <2>2. IdsOf(A) \subseteq IdsOf(Scope) /\ IdsOf(U) \subseteq IdsOf(Scope)
    BY <1>4 DEF IdsOf
  <2>3. id[f] \in IdsOf(Scope) BY <1>1 DEF IdsOf
  <2>4. previous'[l] \subseteq previous[l] \cup IdsOf(A) \cup {id[f]}
    BY <1>6 DEF Scope
  <2>5. next'[l] \subseteq next[l] \cup IdsOf(U) \cup {id[f]}
    BY <1>6 DEF Scope
  <2> HIDE DEF A, U
  <2> QED BY <2>1, <2>2, <2>3, <2>4, <2>5
<1>9. \A l, g \in Scope :
        /\ id[g] \in previous'[l] <=>
              id[g] \in previous[l] \/ (l = f /\ g \in A) \/ (g = f /\ l \in U)
        /\ id[l] \in next'[g] <=>
              id[l] \in next[g] \/ (g = f /\ l \in U) \/ (l = f /\ g \in A)
  <2>1. \A l, g \in Scope : id[l] = id[g] => l = g BY DEF GraphSafe, GraphTypeOK
  <2>2. \A g \in Scope : /\ id[g] \in IdsOf(A) <=> g \in A
                         /\ id[g] \in IdsOf(U) <=> g \in U
    BY <1>4, Numbered DEF GraphSafe
  <2>3. \A l \in Scope : l \in Labels BY DEF Scope
  <2> HIDE DEF A, U
  <2> TAKE l, g \in Scope
  <2>4. id[g] \in previous'[l] <=>
              id[g] \in previous[l] \/ (l = f /\ g \in A) \/ (g = f /\ l \in U)
    <3>1. CASE l = f BY <1>1, <1>4, <1>6, <2>2, <3>1
    <3>2. CASE l # f
      <4>1. id[g] \in {id[f]} <=> g = f BY <1>1, <2>1
      <4> QED BY <1>6, <2>3, <3>2, <4>1
    <3> QED BY <3>1, <3>2
  <2>5. id[l] \in next'[g] <=>
              id[l] \in next[g] \/ (g = f /\ l \in U) \/ (l = f /\ g \in A)
    <3>1. CASE g = f BY <1>1, <1>4, <1>6, <2>2, <3>1
    <3>2. CASE g # f
      <4>1. id[l] \in {id[f]} <=> l = f BY <1>1, <2>1
      <4> QED BY <1>6, <2>3, <3>2, <4>1
    <3> QED BY <3>1, <3>2
  <2> QED BY <2>4, <2>5
<1>10. \A l, g \in Scope : <<g, l>> \in links <=> (l = f /\ g \in A) \/ (g = f /\ l \in U)
  BY <1>4
<1>11. Mutual'
  <2> HIDE DEF A, U, links
  <2>1. ASSUME NEW l \in Scope, NEW g \in Scope, <<g, l>> \notin parted'
        PROVE  id[g] \in previous'[l] <=> id[l] \in next'[g]
    <3>1. CASE <<g, l>> \in links BY <1>9, <1>10, <3>1
    <3>2. CASE <<g, l>> \notin parted /\ <<g, l>> \notin links
      BY <1>9, <1>10, <3>2 DEF GraphSafe, Mutual
    <3> QED BY <1>5, <2>1, <3>1, <3>2
  <2> QED BY <1>1, <1>2, <2>1 DEF Mutual
<1>12. LinksMatch'
  <2> SUFFICES ASSUME NEW l \in Scope, NEW g \in Scope, <<g, l>> \notin unsettled'
               PROVE  /\ id[g] \in previous'[l] <=> g \in ArgumentsOf(l)
                      /\ id[l] \in next'[g] <=> g \in ArgumentsOf(l)
    BY <1>1, <1>2 DEF LinksMatch, ArgumentsOf
  <2>1. (l = f /\ g \in A) \/ (g = f /\ l \in U) => g \in ArgumentsOf(l)
    BY DEF ArgumentsOf, UsersOf
  <2>2. CASE <<g, l>> \notin unsettled
    BY <1>9, <2>1, <2>2 DEF GraphSafe, LinksMatch
  <2>3. CASE <<g, l>> \in unsettled
    <3>1. (l = f /\ g \in A) \/ (g = f /\ l \in U) BY <1>5, <1>10, <2>3
    <3> QED BY <1>9, <2>1, <3>1
  <2> QED BY <2>2, <2>3
<1>13. DeletesWhole' BY <1>1, <1>2 DEF GraphSafe, DeletesWhole
<1> QED BY <1>7, <1>8, <1>11, <1>12, <1>13 DEF GraphSafe

-----------------------------------------------------------------------------

LEMMA GraphNextSafe == ASSUME GraphSafe, [GraphNext]_graphVars PROVE GraphSafe'
<1>1. CASE UNCHANGED graphVars
  BY <1>1 DEF graphVars, GraphSafe, GraphTypeOK, NoneToItself,
                      NoDangling, Mutual, LinksMatch, DeletesWhole, Scope, IdsOf, ArgumentsOf
<1> QED BY <1>1, NewFunctionSafe, SetArgumentSafe, DeleteFunctionSafe,
           UpdateDependenciesSafe, UpdateOneSafe DEF GraphNext

LEMMA GraphInvariance == GraphSpec => []GraphSafe
<1> QED BY GraphInitSafe, GraphNextSafe, PTL DEF GraphSpec

\* Numbers are given once, and links are between numbers given.
THEOREM Typing == GraphSpec => []GraphTypeOK
<1>1. GraphSafe => GraphTypeOK BY DEF GraphSafe
<1> QED BY <1>1, GraphInvariance, PTL

\* Both ends of a link know it, unless a function was created anew where it was
\* or an operation threw half way, and no update met the link since.
THEOREM LinksMutual == GraphSpec => []Mutual
<1>1. GraphSafe => Mutual BY DEF GraphSafe
<1> QED BY <1>1, GraphInvariance, PTL

\* A deleted function whose number is kept is one deleted with a parted link,
\* and the whole scope was not updated since.
THEOREM NoneDangling == GraphSpec => []NoDangling
<1>1. GraphSafe => NoDangling BY DEF GraphSafe
<1> QED BY <1>1, GraphInvariance, PTL

\* What was updated since it changed is what the drivers
\* state, whichever of the two updates it was, in whatever order and whatever
\* threw before.
THEOREM LinksExact == GraphSpec => []LinksMatch
<1>1. GraphSafe => LinksMatch BY DEF GraphSafe
<1> QED BY <1>1, GraphInvariance, PTL

\* A function that is in the scope and lost its attribute, which stops every
\* update, got so when a number had been lost.
THEOREM NoneHalfDeleted == GraphSpec => []DeletesWhole
<1>1. GraphSafe => DeletesWhole BY DEF GraphSafe
<1> QED BY <1>1, GraphInvariance, PTL

-----------------------------------------------------------------------------
(* The iteration.                                                            *)

\* What ties the solver's threads to the iterator: with the status, begun and
\* ended are what it says, whatever is or gets current has its arguments, and
\* what is being executed is in the list or on its way into the next; without
\* it, only what was passed is begun.
Tied ==
    IF usesStatus
    THEN /\ begun = {f \in Functions : status[f] \notin {"WrongDefinition", "NotExecuted"}}
         /\ ended = {f \in Functions : status[f] = "Succeeded"}
         /\ \A f \in begun \cup current \cup found :
               \A g \in GetPrevious(f) : status[g] = "Succeeded"
         /\ \A f \in Functions : status[f] = "Executing" => f \in current
         /\ looking => \A f \in current : Stays(f) => f \in left \cup found
         /\ left \subseteq current /\ found \cap begun \subseteq current
    ELSE begun \subseteq passed

Safe == TypeOK /\ Tied

LEMMA InitSafe == Init => Safe
<1> SUFFICES ASSUME Init PROVE Safe OBVIOUS
<1> USE DEF Init
<1>1. status \in [Functions -> {"WrongDefinition", "NotExecuted", "Succeeded"}]
  BY DEF Statuses
<1>2. Roots \subseteq Functions BY DEF Roots
<1>3. TypeOK
  <2>1. current \subseteq Functions /\ passed \subseteq Functions
        /\ (~usesStatus => current \subseteq passed)
    BY <1>2
  <2>2. begun \subseteq Functions /\ ended \subseteq begun OBVIOUS
  <2> QED BY <1>1, <2>1, <2>2 DEF TypeOK
<1>4. CASE usesStatus
  <2>1. \A f \in Roots : GetPrevious(f) = {} BY DEF Roots
  <2>2. \A f \in Functions : status[f] = "Succeeded" => \A g \in GetPrevious(f) : status[g] = "Succeeded"
    BY DEF Statuses
  <2>3. /\ begun = {f \in Functions : status[f] \notin {"WrongDefinition", "NotExecuted"}}
        /\ ended = {f \in Functions : status[f] = "Succeeded"}
    BY <1>1
  <2>4. \A f \in begun \cup current \cup found : \A g \in GetPrevious(f) : status[g] = "Succeeded"
    BY <2>1, <2>2
  <2>5. \A f \in Functions : status[f] # "Executing" BY <1>1
  <2> QED BY <1>3, <1>4, <2>3, <2>4, <2>5 DEF Safe, Tied
<1>5. CASE ~usesStatus
  <2>1. \A f \in Functions : status[f] = "NotExecuted" BY <1>5 DEF Statuses
  <2> QED BY <1>3, <1>5, <2>1 DEF Safe, Tied
<1> QED BY <1>4, <1>5

-----------------------------------------------------------------------------
(* Next with the status, which reads while the threads write.                *)

\* What a step of Next leaves of the tie.
LEMMA ReadSafe ==
    ASSUME Safe, usesStatus, UNCHANGED <<model, passed, runs>>, TypeOK',
           \A f \in current' \cup found' : \A g \in GetPrevious(f) : status[g] = "Succeeded",
           \A f \in Functions : status[f] = "Executing" => f \in current',
           looking' => \A f \in current' : Stays(f) => f \in left' \cup found',
           left' \subseteq current', found' \cap begun \subseteq current'
    PROVE  Safe'
<1>1. /\ \A f \in Functions : Stays(f)' <=> Stays(f)
      /\ \A f \in Functions : GetPrevious(f)' = GetPrevious(f)
      /\ UNCHANGED <<usesStatus, status, begun, ended>>
  BY DEF model, runs, Stays, GetPrevious
<1>2. current' \subseteq Functions /\ found' \subseteq Functions /\ begun \subseteq Functions
  BY DEF Safe, TypeOK
<1>3. Tied' BY <1>1, <1>2 DEF Safe, Tied
<1> QED BY <1>3 DEF Safe

LEMMA NextBeginsSafe == ASSUME Safe, NextBegins PROVE Safe'
<1>1. /\ usesStatus /\ ~looking /\ looking' /\ left' = current
      /\ UNCHANGED <<model, current, passed, followers, found, runs>>
  BY DEF NextBegins
<1>2. TypeOK' BY <1>1 DEF Safe, TypeOK, model, runs, NextBegins
<1> QED BY <1>1, <1>2, ReadSafe DEF Safe, Tied

LEMMA LookAtSafe == ASSUME Safe, NEW f \in Functions, LookAt(f) PROVE Safe'
<1>1. /\ f \in left /\ left' = left \ {f}
      /\ found' = IF Stays(f) THEN found \cup {f} ELSE found
      /\ UNCHANGED <<model, current, passed, looking, runs>>
  BY DEF LookAt
<1>2. usesStatus /\ looking BY <1>1 DEF Safe, TypeOK
<1>3. followers' \subseteq Functions BY DEF LookAt, GetNext
<1>4. TypeOK' BY <1>1, <1>2, <1>3 DEF Safe, TypeOK, model, runs
<1>5. f \in current BY <1>1, <1>2 DEF Safe, Tied
<1> QED BY <1>1, <1>2, <1>4, <1>5, ReadSafe DEF Safe, Tied

LEMMA LookAtFollowerSafe == ASSUME Safe, NEW g \in Functions, LookAtFollower(g) PROVE Safe'
<1>1. /\ g \in followers /\ followers' = followers \ {g}
      /\ found' = IF IsReady(g) THEN found \cup {g} ELSE found
      /\ UNCHANGED <<model, current, passed, looking, left, runs>>
  BY DEF LookAtFollower
<1>2. usesStatus /\ looking BY <1>1 DEF Safe, TypeOK
<1>3. TypeOK' BY <1>1, <1>2 DEF Safe, TypeOK, model, runs
<1>4. IsReady(g) => /\ \A h \in GetPrevious(g) : status[h] = "Succeeded"
                    /\ g \in begun => g \in current
  BY <1>2 DEF IsReady, Safe, Tied
<1> QED BY <1>1, <1>2, <1>3, <1>4, ReadSafe DEF Safe, Tied

LEMMA NextEndsSafe == ASSUME Safe, NextEnds PROVE Safe' /\ current' \cap ended \subseteq current
<1>1. /\ looking /\ left = {} /\ followers = {} /\ current' = found /\ ~looking' /\ found' = {}
      /\ UNCHANGED <<model, passed, left, followers, runs>>
  BY DEF NextEnds
<1>2. usesStatus BY <1>1 DEF Safe, TypeOK
<1>3. TypeOK' BY <1>1, <1>2 DEF Safe, TypeOK, model, runs, NextEnds
<1>4. \A f \in Functions : status[f] = "Executing" => f \in found
  BY <1>1, <1>2 DEF Safe, Tied, Stays
<1>5. Safe' BY <1>1, <1>2, <1>3, <1>4, ReadSafe DEF Safe, Tied
<1>6. current' \cap ended \subseteq current BY <1>1, <1>2 DEF Safe, TypeOK, Tied
<1> QED BY <1>5, <1>6

LEMMA NextByStatusSafe ==
    ASSUME Safe, NextByStatus PROVE Safe' /\ current' \cap ended \subseteq current
<1>1. CASE NextBegins
  BY <1>1, NextBeginsSafe DEF NextBegins
<1>2. CASE NextEnds BY <1>2, NextEndsSafe
<1>3. ASSUME NEW f \in Functions, LookAt(f) \/ LookAtFollower(f)
      PROVE  Safe' /\ current' \cap ended \subseteq current
  BY <1>3, LookAtSafe, LookAtFollowerSafe DEF LookAt, LookAtFollower
<1> QED BY <1>1, <1>2, <1>3 DEF NextByStatus

-----------------------------------------------------------------------------

\* Next without the status.
LEMMA NextByOrderSafe == ASSUME Safe, NextByOrder PROVE Safe'
<1> USE DEF NextByOrder
<1>1. /\ ~usesStatus /\ passed' = passed \cup current'
      /\ UNCHANGED <<model, reads, runs>>
  BY DEF Passed
<1>2. current' \subseteq Functions BY DEF GetNext
<1>3. TypeOK' BY <1>1, <1>2 DEF Safe, TypeOK, model, reads, runs
<1>4. Tied' BY <1>1 DEF Safe, Tied, model, runs
<1> QED BY <1>3, <1>4 DEF Safe

\* A thread's step on one function.
LEMMA ThreadSafe ==
    ASSUME Safe, NEW f \in Functions, Begin(f) \/ Succeed(f) \/ Fail(f) PROVE Safe'
<1>1. UNCHANGED <<model, current, passed, reads>> BY DEF Begin, Succeed, Fail
<1>2. CASE Begin(f)
  <2>1. /\ f \in current \ begun /\ begun' = begun \cup {f} /\ UNCHANGED <<impacted, ended>>
        /\ status[f] = "NotExecuted"
        /\ status' = IF usesStatus THEN [status EXCEPT ![f] = "Executing"] ELSE status
    BY <1>2 DEF Begin
  <2>2. TypeOK'
    <3>1. executed' \subseteq Functions BY <1>2 DEF Begin, Safe, TypeOK
    <3> QED BY <1>1, <2>1, <3>1 DEF Safe, TypeOK, model, reads
  <2>3. Tied'
    <3>1. CASE usesStatus
      <4>1. \A g \in Functions : g # f => status'[g] = status[g] BY <2>1, <3>1 DEF Safe, TypeOK
      <4>2. status'[f] = "Executing" BY <2>1, <3>1 DEF Safe, TypeOK
      <4>3. \A g \in Functions : status[g] = "Succeeded" => status'[g] = "Succeeded"
        BY <2>1, <4>1
      <4>4. \A h \in begun' \cup current \cup found :
              \A g \in GetPrevious(h) : status'[g] = "Succeeded"
        BY <2>1, <3>1, <4>3 DEF Safe, Tied, GetPrevious
      <4>5. begun' = {g \in Functions : status'[g] \notin {"WrongDefinition", "NotExecuted"}}
        BY <2>1, <3>1, <4>1, <4>2 DEF Safe, Tied
      <4>6. ended' = {g \in Functions : status'[g] = "Succeeded"}
        BY <2>1, <3>1, <4>1, <4>2 DEF Safe, Tied
      <4>7. \A g \in Functions : status'[g] = "Executing" => g \in current
        BY <2>1, <3>1, <4>1 DEF Safe, Tied
      <4>8. looking => \A g \in current : Stays(g)' => g \in left \cup found
        <5>1. \A g \in current : g \in Functions /\ (Stays(g)' => Stays(g))
          BY <2>1, <4>1 DEF Safe, TypeOK, Stays
        <5> QED BY <3>1, <5>1 DEF Safe, Tied
      <4>9. left \subseteq current /\ found \cap begun' \subseteq current
        BY <2>1, <3>1 DEF Safe, Tied
      <4> QED BY <1>1, <3>1, <4>4, <4>5, <4>6, <4>7, <4>8, <4>9 DEF Tied, model, reads, GetPrevious
    <3>2. CASE ~usesStatus
      BY <1>1, <2>1, <3>2 DEF Safe, Tied, TypeOK, model
    <3> QED BY <3>1, <3>2
  <2> QED BY <2>2, <2>3 DEF Safe
<1>3. CASE Succeed(f) \/ Fail(f)
  <2>1. /\ f \in begun /\ UNCHANGED <<begun, executed>>
        /\ ended' = IF Succeed(f) THEN ended \cup {f} ELSE ended
        /\ usesStatus => /\ status[f] = "Executing"
                         /\ status' = [status EXCEPT ![f] = IF Succeed(f) THEN "Succeeded" ELSE "Failed"]
        /\ ~usesStatus => status' = status
    <3>1. CASE Succeed(f) BY <3>1 DEF Succeed
    <3>2. CASE Fail(f) /\ ~Succeed(f)
      <4>1. usesStatus /\ status[f] = "Executing" BY <3>2 DEF Fail
      <4>2. f \in begun BY <4>1 DEF Safe, Tied
      <4> QED BY <3>2, <4>1, <4>2 DEF Fail
    <3> QED BY <1>3, <3>1, <3>2
  <2>2. TypeOK'
    <3>1. impacted' \subseteq Functions BY <1>3 DEF Succeed, Fail, Safe, TypeOK
    <3>2. status' \in [Functions -> {"WrongDefinition", "NotExecuted", "Executing", "Succeeded", "Failed"}]
      BY <2>1 DEF Safe, TypeOK
    <3> QED BY <1>1, <2>1, <3>1, <3>2 DEF Safe, TypeOK, model, reads
  <2>3. Tied'
    <3>1. CASE usesStatus
      <4>1. \A g \in Functions : g # f => status'[g] = status[g] BY <2>1, <3>1 DEF Safe, TypeOK
      <4>2. status'[f] = IF Succeed(f) THEN "Succeeded" ELSE "Failed"
        BY <2>1, <3>1 DEF Safe, TypeOK
      <4>3. \A h \in begun \cup current \cup found :
              \A g \in GetPrevious(h) : status'[g] = "Succeeded"
        BY <2>1, <3>1, <4>1 DEF Safe, Tied, GetPrevious
      <4>4. begun = {g \in Functions : status'[g] \notin {"WrongDefinition", "NotExecuted"}}
        BY <2>1, <3>1, <4>1, <4>2 DEF Safe, Tied
      <4>5. ended' = {g \in Functions : status'[g] = "Succeeded"}
        BY <2>1, <3>1, <4>1, <4>2 DEF Safe, Tied
      <4>6. \A g \in Functions : status'[g] = "Executing" => g \in current
        BY <2>1, <3>1, <4>1, <4>2 DEF Safe, Tied
      <4>7. looking => \A g \in current : Stays(g)' => g \in left \cup found
        <5>1. \A g \in current : g \in Functions /\ (Stays(g)' => Stays(g))
          BY <4>1, <4>2 DEF Safe, TypeOK, Stays
        <5> QED BY <3>1, <5>1 DEF Safe, Tied
      <4>8. left \subseteq current /\ found \cap begun \subseteq current
        BY <3>1 DEF Safe, Tied
      <4> QED BY <1>1, <2>1, <3>1, <4>3, <4>4, <4>5, <4>6, <4>7, <4>8 DEF Tied, model, reads, GetPrevious
    <3>2. CASE ~usesStatus BY <1>1, <2>1, <3>2 DEF Safe, Tied, model
    <3> QED BY <3>1, <3>2
  <2> QED BY <2>2, <2>3 DEF Safe
<1> QED BY <1>2, <1>3

-----------------------------------------------------------------------------

LEMMA Invariance == Spec => []Safe
<1>1. ASSUME Safe, UNCHANGED vars PROVE Safe'
  BY <1>1 DEF vars, model, reads, runs, Safe, TypeOK, Tied, GetPrevious, Stays
<1>2. ASSUME Safe, [Next]_vars PROVE Safe'
  BY <1>1, <1>2, NextByStatusSafe, NextByOrderSafe, ThreadSafe DEF Next, SolverNext
<1> QED BY <1>2, InitSafe, PTL DEF Spec

\* With the execution status a function is taken up when all it depends on are
\* through, in any graph, with any number of threads that set statuses while
\* Next reads them, functions that fail included.
THEOREM TakenInOrder == Spec => []InOrder
<1>1. Safe => InOrder
  BY DEF Safe, TypeOK, Tied, InOrder, GetPrevious
<1> QED BY <1>1, Invariance, PTL

\* No function that is through is returned again, whatever the cycles, with
\* the execution status or without.
THEOREM NoneTwice == Spec => ReturnedOnce
<1>1. ASSUME Safe, [Next]_vars PROVE current' \cap ended \subseteq current
  <2>1. CASE NextByStatus BY <1>1, <2>1, NextByStatusSafe
  <2>2. CASE NextByOrder
    <3>1. current' \cap passed = {}
      <4> DEFINE fs == UNION {GetNext(f) : f \in current}
      <4>1. current' = fs \ passed BY <2>2 DEF NextByOrder
      <4> HIDE DEF fs
      <4> QED BY <4>1
    <3>2. ended \subseteq passed BY <1>1, <2>2 DEF NextByOrder, Safe, Tied, TypeOK
    <3> QED BY <3>1, <3>2
  <2>3. CASE UNCHANGED current BY <2>3
  <2> QED BY <1>1, <2>1, <2>2, <2>3 DEF Next, SolverNext, Begin, Succeed, Fail, vars
<1> QED BY <1>1, Invariance, PTL DEF Spec, ReturnedOnce

-----------------------------------------------------------------------------
(* What is to be executed again.                                             *)

LEMMA FromZero ==
    ASSUME NEW S \in SUBSET Nat, 0 \in S, \A n \in S : n + 1 \in S
    PROVE  S = Nat
<1> SUFFICES ASSUME S # Nat PROVE FALSE OBVIOUS
<1>1. PICK T : T = Nat \ S OBVIOUS
<1>2. IsWellFoundedOn(OpToRel(<, Nat), Nat) BY NatLessThanWellFounded
<1>3. \E x \in T : \A y \in T : ~(<<y, x>> \in OpToRel(<, Nat)) BY <1>1, <1>2, WFMin
<1>4. PICK x \in T : \A y \in T : ~(<<y, x>> \in OpToRel(<, Nat)) BY <1>3
<1>5. x \in Nat /\ x # 0 BY <1>1
<1>6. x - 1 \in Nat /\ x - 1 < x BY <1>5
<1>7. x - 1 \in S BY <1>1, <1>4, <1>5, <1>6 DEF OpToRel
<1>8. (x - 1) + 1 \in S BY <1>7
<1> QED BY <1>1, <1>5, <1>8

\* The functions of a set and those that depend on them at once.
Onward(fs) == fs \cup UNION {GetNext(f) : f \in fs}

Closed(fs) == \A f \in fs : GetNext(f) \subseteq fs

\* What is stale after so many steps along the graph.
Spreads(r, n) ==
    /\ r \in [0 .. n -> SUBSET Functions]
    /\ r[0] = touched
    /\ \A i \in 1 .. n : r[i] = Onward(r[i - 1])

LEMMA SpreadFar ==
    ASSUME touched \subseteq Functions
    PROVE  \A n \in Nat : \E r : Spreads(r, n)
<1>1. PICK M : M = {n \in Nat : \E r : Spreads(r, n)} OBVIOUS
<1>2. 0 \in M
  <2>1. PICK r : r = [i \in 0 .. 0 |-> touched] OBVIOUS
  <2>2. r \in [0 .. 0 -> SUBSET Functions] /\ r[0] = touched BY <2>1
  <2>3. Spreads(r, 0) BY <2>2 DEF Spreads
  <2> QED BY <1>1, <2>3
<1>3. ASSUME NEW n \in M PROVE n + 1 \in M
  <2>1. PICK r : Spreads(r, n) BY <1>1, <1>3
  <2>2. n \in Nat /\ r \in [0 .. n -> SUBSET Functions] BY <1>1, <1>3, <2>1 DEF Spreads
  <2>3. PICK q : q = [i \in 0 .. (n + 1) |-> IF i <= n THEN r[i] ELSE Onward(r[n])] OBVIOUS
  <2>4. Onward(r[n]) \in SUBSET Functions
    <3>1. n \in 0 .. n BY <2>2
    <3>2. PICK s \in SUBSET Functions : s = r[n] BY <2>2, <3>1
    <3>3. \A f \in s : GetNext(f) \subseteq Functions BY DEF GetNext
    <3>4. Onward(s) \subseteq Functions BY <3>3 DEF Onward
    <3> QED BY <3>2, <3>4
  <2>5. q \in [0 .. (n + 1) -> SUBSET Functions] BY <2>2, <2>3, <2>4
  <2>6. q[0] = touched BY <2>1, <2>2, <2>3 DEF Spreads
  <2>7. ASSUME NEW i \in 1 .. (n + 1) PROVE q[i] = Onward(q[i - 1])
    <3>1. q[i - 1] = r[i - 1] BY <2>2, <2>3, <2>7
    <3>2. CASE i <= n
      <4>1. i \in 1 .. n /\ q[i] = r[i] BY <2>2, <2>3, <2>7, <3>2
      <4> QED BY <2>1, <3>1, <4>1 DEF Spreads
    <3>3. CASE i = n + 1 BY <2>2, <2>3, <3>1, <3>3
    <3> QED BY <2>2, <2>7, <3>2, <3>3
  <2>8. Spreads(q, n + 1) BY <2>5, <2>6, <2>7 DEF Spreads
  <2> QED BY <1>1, <2>2, <2>8
<1>4. M = Nat
  <2>1. M \in SUBSET Nat BY <1>1
  <2> QED BY <1>2, <1>3, <2>1, FromZero
<1>5. \A n \in M : \E r : Spreads(r, n) BY <1>1
<1> QED BY <1>4, <1>5

\* Stale is where so many steps as there are functions lead.
LEMMA StaleSpread ==
    ASSUME touched \subseteq Functions
    PROVE  /\ Cardinality(Functions) \in Nat
           /\ \E r : Spreads(r, Cardinality(Functions)) /\ Stale = r[Cardinality(Functions)]
<1> DEFINE n == Cardinality(Functions)
           Rec(q) == [i \in 0 .. n |->
                        IF i = 0 THEN touched
                        ELSE q[i - 1] \cup UNION {GetNext(f) : f \in q[i - 1]}]
<1>1. n \in Nat BY IteratorAssumption, FS_CardinalityType
<1>2. PICK q : q = CHOOSE h : h = Rec(h) OBVIOUS
<1>3. Stale = q[n] BY <1>2, Zenon DEF Stale, n
<1> HIDE DEF n
<1>4. PICK r : Spreads(r, n) BY <1>1, SpreadFar
<1>5. r = Rec(r)
  <2>1. \A i \in 0 .. n : r[i] = IF i = 0 THEN touched
                                 ELSE r[i - 1] \cup UNION {GetNext(f) : f \in r[i - 1]}
    BY <1>1, <1>4 DEF Spreads, Onward
  <2>2. r \in [0 .. n -> SUBSET Functions] BY <1>4 DEF Spreads
  <2> QED BY <2>1, <2>2
<1>6. q = Rec(q)
  <2> HIDE DEF Rec
  <2> QED BY <1>2, <1>5
<1>7. PICK M : M = {i \in Nat : i <= n => q[i] = r[i]} OBVIOUS
<1>8. 0 \in M BY <1>1, <1>4, <1>6, <1>7 DEF Spreads
<1>9. ASSUME NEW i \in M PROVE i + 1 \in M
  <2>1. i \in Nat /\ (i <= n => q[i] = r[i]) BY <1>7
  <2>2. ASSUME i + 1 <= n PROVE q[i + 1] = r[i + 1]
    <3>1. i + 1 \in 1 .. n /\ (i + 1) - 1 = i BY <1>1, <2>1, <2>2
    <3>2. q[i] = r[i] BY <1>1, <2>1, <2>2
    <3>3. r[i + 1] = Onward(r[i]) BY <1>4, <3>1 DEF Spreads
    <3>4. q[i + 1] = q[i] \cup UNION {GetNext(f) : f \in q[i]} BY <1>1, <1>6, <3>1
    <3> QED BY <3>2, <3>3, <3>4 DEF Onward
  <2> QED BY <1>7, <2>1, <2>2
<1>10. M = Nat
  <2>1. M \in SUBSET Nat BY <1>7
  <2> QED BY <1>8, <1>9, <2>1, FromZero
<1>11. q[n] = r[n] BY <1>1, <1>7, <1>10
<1> QED BY <1>1, <1>3, <1>4, <1>11 DEF n

\* Each step adds a function or there is none to add: after so many steps as
\* there are functions none is.
LEMMA StaleClosed ==
    ASSUME touched \subseteq Functions
    PROVE  touched \subseteq Stale /\ Stale \subseteq Functions /\ Closed(Stale)
<1>1. PICK n : n = Cardinality(Functions) OBVIOUS
<1>2. n \in Nat /\ IsFiniteSet(Functions) BY <1>1, StaleSpread, IteratorAssumption
<1>3. PICK r : Spreads(r, n) /\ Stale = r[n] BY <1>1, StaleSpread
<1>4. PICK M : M = {i \in Nat : i <= n => /\ touched \subseteq r[i]
                                          /\ Closed(r[i]) \/ i <= Cardinality(r[i])}
  OBVIOUS
<1>5. \A s \in SUBSET Functions : IsFiniteSet(s) /\ Cardinality(s) \in Nat
  BY <1>2, FS_Subset, FS_CardinalityType
<1>6. 0 \in M
  <2>1. r[0] \in SUBSET Functions /\ touched = r[0] BY <1>2, <1>3 DEF Spreads
  <2>2. Cardinality(r[0]) \in Nat BY <1>5, <2>1
  <2> QED BY <1>4, <2>1, <2>2
<1>7. ASSUME NEW i \in M PROVE i + 1 \in M
  <2>1. i \in Nat BY <1>4
  <2>2. ASSUME i + 1 <= n
        PROVE  touched \subseteq r[i + 1] /\ (Closed(r[i + 1]) \/ i + 1 <= Cardinality(r[i + 1]))
    <3>1. i + 1 \in 1 .. n /\ (i + 1) - 1 = i /\ i \in 0 .. n /\ i + 1 \in 0 .. n
      BY <1>2, <2>1, <2>2
    <3>2. /\ r[i + 1] = Onward(r[i])
          /\ r[i] \in SUBSET Functions /\ r[i + 1] \in SUBSET Functions
      BY <1>3, <3>1 DEF Spreads
    <3>3. touched \subseteq r[i] /\ (Closed(r[i]) \/ i <= Cardinality(r[i]))
      BY <1>2, <1>4, <2>1, <2>2
    <3>4. touched \subseteq r[i + 1] BY <3>2, <3>3 DEF Onward
    <3>5. CASE Closed(r[i])
      <4>1. r[i + 1] = r[i] BY <3>2, <3>5 DEF Onward, Closed
      <4> QED BY <3>4, <3>5, <4>1
    <3>6. CASE ~Closed(r[i]) /\ i <= Cardinality(r[i])
      <4>1. PICK f \in r[i] : ~(GetNext(f) \subseteq r[i]) BY <3>6 DEF Closed
      <4>2. PICK g \in GetNext(f) : g \notin r[i] BY <4>1
      <4>3. r[i] \cup {g} \subseteq r[i + 1] BY <3>2, <4>1, <4>2 DEF Onward
      <4>4. Cardinality(r[i] \cup {g}) = Cardinality(r[i]) + 1
        BY <1>5, <3>2, <4>2, FS_AddElement
      <4>5. Cardinality(r[i] \cup {g}) <= Cardinality(r[i + 1])
        BY <1>5, <3>2, <4>3, FS_Subset
      <4>6. Cardinality(r[i]) \in Nat /\ Cardinality(r[i + 1]) \in Nat BY <1>5, <3>2
      <4>7. i + 1 <= Cardinality(r[i + 1]) BY <2>1, <3>6, <4>4, <4>5, <4>6
      <4> QED BY <3>4, <4>7
    <3> QED BY <3>3, <3>5, <3>6
  <2> QED BY <1>4, <2>1, <2>2
<1>8. M = Nat
  <2>1. M \in SUBSET Nat BY <1>4
  <2> QED BY <1>6, <1>7, <2>1, FromZero
<1>9. touched \subseteq r[n] /\ (Closed(r[n]) \/ n <= Cardinality(r[n])) BY <1>2, <1>4, <1>8
<1>10. r[n] \in SUBSET Functions BY <1>2, <1>3 DEF Spreads
<1>11. CASE n <= Cardinality(r[n])
  <2>1. Cardinality(r[n]) <= n BY <1>1, <1>2, <1>10, FS_Subset
  <2>2. Cardinality(r[n]) = n BY <1>2, <1>5, <1>10, <1>11, <2>1
  <2>3. r[n] = Functions BY <1>1, <1>2, <1>10, <2>2, FS_Subset
  <2>4. Closed(Functions) BY DEF Closed, GetNext
  <2> QED BY <1>3, <1>9, <2>3, <2>4
<1> QED BY <1>3, <1>9, <1>10, <1>11

\* Whatever the modified functions lead to within a closed set, Stale is too.
LEMMA StaleLeast ==
    ASSUME touched \subseteq Functions, NEW T, touched \subseteq T, Closed(T)
    PROVE  Stale \subseteq T
<1>1. PICK n : n = Cardinality(Functions) OBVIOUS
<1>2. n \in Nat BY <1>1, StaleSpread
<1>3. PICK r : Spreads(r, n) /\ Stale = r[n] BY <1>1, StaleSpread
<1>4. PICK M : M = {i \in Nat : i <= n => r[i] \subseteq T} OBVIOUS
<1>5. 0 \in M BY <1>3, <1>4 DEF Spreads
<1>6. ASSUME NEW i \in M PROVE i + 1 \in M
  <2>1. i \in Nat BY <1>4
  <2>2. ASSUME i + 1 <= n PROVE r[i + 1] \subseteq T
    <3>1. i + 1 \in 1 .. n /\ (i + 1) - 1 = i BY <1>2, <2>1, <2>2
    <3>2. r[i + 1] = Onward(r[i]) BY <1>3, <3>1 DEF Spreads
    <3>3. r[i] \subseteq T BY <1>2, <1>4, <2>1, <2>2
    <3> QED BY <3>2, <3>3 DEF Onward, Closed
  <2> QED BY <1>4, <2>1, <2>2
<1>7. M = Nat
  <2>1. M \in SUBSET Nat BY <1>4
  <2> QED BY <1>5, <1>6, <2>1, FromZero
<1> QED BY <1>2, <1>3, <1>4, <1>7

\* What was executed: of the functions taken up those that had to be, by their
\* own arguments or by another's result, and nothing beyond what the modified
\* ones lead to.
Propagated ==
    /\ usesStatus
    /\ impacted = executed \cap ended
    /\ executed \subseteq begun
    /\ \A f \in begun : f \in executed <=> f \in touched \/ GetPrevious(f) \cap executed # {}
    /\ \A T \in SUBSET Functions : touched \subseteq T /\ Closed(T) => executed \subseteq T

LEMMA BeginPropagated ==
    ASSUME Safe, Propagated, NEW f \in Functions, Begin(f) PROVE Propagated'
<1>1. /\ f \in current \ begun /\ begun' = begun \cup {f}
      /\ executed' = IF MustExecute(f) THEN executed \cup {f} ELSE executed
      /\ UNCHANGED <<model, impacted, ended>>
  BY DEF Begin
<1>2. \A h \in begun \cup current : GetPrevious(h) \subseteq ended
  BY DEF Safe, Tied, Propagated, GetPrevious
<1>3. ended \subseteq begun /\ begun \subseteq Functions BY DEF Safe, TypeOK
<1>4. /\ usesStatus /\ impacted = executed \cap ended /\ executed \subseteq begun
      /\ \A h \in begun : h \in executed <=> h \in touched \/ GetPrevious(h) \cap executed # {}
  BY DEF Propagated
<1>5. /\ \A h \in Functions : GetPrevious(h)' = GetPrevious(h) /\ GetNext(h)' = GetNext(h)
      /\ UNCHANGED <<usesStatus, touched>>
  BY <1>1 DEF GetPrevious, GetNext, model
<1>6. \A h \in begun' : GetPrevious(h) \cap executed' = GetPrevious(h) \cap executed
  <2>1. \A h \in begun' : f \notin GetPrevious(h) BY <1>1, <1>2, <1>3
  <2> QED BY <1>1, <2>1
<1>7. GetPrevious(f) \cap impacted = GetPrevious(f) \cap executed BY <1>1, <1>2, <1>4
<1>8. f \in executed' <=> f \in touched \/ GetPrevious(f) \cap executed # {}
  BY <1>1, <1>4, <1>7 DEF MustExecute
<1>9. ASSUME NEW h \in begun'
      PROVE  h \in executed' <=> h \in touched' \/ GetPrevious(h)' \cap executed' # {}
  <2>1. CASE h = f BY <1>5, <1>6, <1>8, <1>9, <2>1
  <2>2. CASE h # f
    <3>1. h \in begun /\ h \in Functions /\ (h \in executed' <=> h \in executed)
      BY <1>1, <1>3, <1>9, <2>2
    <3> QED BY <1>4, <1>5, <1>6, <1>9, <3>1
  <2> QED BY <2>1, <2>2
<1>10. ASSUME NEW T \in SUBSET Functions, touched' \subseteq T, Closed(T)' PROVE executed' \subseteq T
  <2>1. touched \subseteq T /\ Closed(T) BY <1>5, <1>10 DEF Closed
  <2>2. executed \subseteq T BY <2>1 DEF Propagated
  <2>3. ASSUME MustExecute(f) PROVE f \in T
    <3>1. CASE f \in touched BY <2>1, <3>1
    <3>2. CASE f \notin touched
      <4>1. PICK g \in GetPrevious(f) : g \in executed BY <1>7, <2>3, <3>2 DEF MustExecute
      <4>2. f \in GetNext(g) /\ g \in T BY <2>2, <4>1 DEF GetNext, GetPrevious
      <4> QED BY <2>1, <4>2 DEF Closed
    <3> QED BY <3>1, <3>2
  <2> QED BY <1>1, <2>2, <2>3
<1>11. impacted' = executed' \cap ended' /\ executed' \subseteq begun' BY <1>1, <1>3, <1>4
<1> QED BY <1>4, <1>5, <1>9, <1>10, <1>11 DEF Propagated

\* Nothing but a new result changes what counts.
LEMMA OthersPropagated ==
    ASSUME Safe, Propagated, UNCHANGED <<model, begun, executed>>,
           impacted' = executed \cap ended'
    PROVE  Propagated'
<1>1. /\ \A h \in Functions : GetPrevious(h)' = GetPrevious(h) /\ GetNext(h)' = GetNext(h)
      /\ UNCHANGED <<usesStatus, touched>>
  BY DEF GetPrevious, GetNext, model
<1>2. begun \subseteq Functions BY DEF Safe, TypeOK
<1>3. \A T \in SUBSET Functions : Closed(T)' <=> Closed(T) BY <1>1 DEF Closed
<1> QED BY <1>1, <1>2, <1>3 DEF Propagated

LEMMA NextPropagated == ASSUME Safe, Propagated, [Next]_vars PROVE Propagated'
<1>1. CASE UNCHANGED vars BY <1>1, OthersPropagated DEF vars, runs, Propagated
<1>2. CASE SolverNext
  <2>1. UNCHANGED <<model, runs>>
    BY <1>2 DEF SolverNext, NextByStatus, NextByOrder, NextBegins, NextEnds, LookAt, LookAtFollower
  <2> QED BY <2>1, OthersPropagated DEF runs, Propagated
<1>3. ASSUME NEW f \in Functions, Begin(f) PROVE Propagated' BY <1>3, BeginPropagated
<1>4. ASSUME NEW f \in Functions, Succeed(f) PROVE Propagated'
  <2>1. impacted' = executed \cap ended' BY <1>4 DEF Succeed, Propagated
  <2> QED BY <1>4, <2>1, OthersPropagated DEF Succeed
<1>5. ASSUME NEW f \in Functions, Fail(f) PROVE Propagated'
  BY <1>5, OthersPropagated DEF Fail, Propagated
<1> QED BY <1>1, <1>2, <1>3, <1>4, <1>5 DEF Next

\* Once every function is through, those executed are the stale ones: none was
\* forgotten, and none executed for nothing.
LEMMA PropagatedWhole == ASSUME Safe, Propagated, ended = Functions PROVE executed = Stale
<1>1. touched \subseteq Functions /\ executed \subseteq Functions /\ begun = Functions
  BY DEF Safe, TypeOK
<1>2. executed \subseteq Stale BY <1>1, StaleClosed DEF Propagated
<1>3. touched \subseteq executed BY <1>1 DEF Propagated
<1>4. Closed(executed)
  <2>1. ASSUME NEW g \in executed, NEW f \in GetNext(g) PROVE f \in executed
    <3>1. f \in Functions /\ g \in GetPrevious(f) BY <1>1, <2>1 DEF GetNext, GetPrevious
    <3> QED BY <1>1, <2>1, <3>1 DEF Propagated
  <2> QED BY <2>1 DEF Closed
<1>5. Stale \subseteq executed BY <1>1, <1>3, <1>4, StaleLeast
<1> QED BY <1>2, <1>5

\* When all functions are through, in whatever order the threads ran them, the
\* executed ones are those the user's modifications reach, in any graph
\* (TFunction_Driver::MustExecute, of a logbook filled while they run).
THEOREM AllRegenerated == Spec => Regenerated
<1>1. Init /\ usesStatus /\ NothingDone => Propagated
  <2> SUFFICES ASSUME Init, usesStatus, NothingDone PROVE Propagated OBVIOUS
  <2>1. begun = {} /\ executed = {} /\ impacted = {} BY DEF Init, NothingDone
  <2> QED BY <2>1 DEF Propagated
<1>2. Safe /\ Propagated /\ [Next]_vars => Propagated' BY NextPropagated
<1>3. Safe /\ Propagated => (~More /\ ended = Functions => executed = Stale)
  BY PropagatedWhole
<1> QED BY <1>1, <1>2, <1>3, Invariance, PTL DEF Spec, Regenerated

=============================================================================
