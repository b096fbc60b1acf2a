---------------------------- MODULE BudgetProofs ----------------------------
(* Proofs about Budget, for every set of threads, handles and counts and   *)
(* every number of units.                                                  *)
EXTENDS Budget, SequenceTheorems, TLAPS

\* A thread inside a unit charges the innermost budget installed; one that
\* leaves `run` has just recorded the operation it leaves.
Attached == \A t \in Threads :
    /\ pc[t] \notin {"caller", "leave"} /\ asked[t] > 0 =>
           installed[t] # << >> /\ Top(t).handle = handle[t]
    /\ pc[t] = "leave" =>
           outcome[t] \in Ended /\ outcome[t].handle = handle[t]

TypeInv == TypeOK /\ Attached

LEMMA InitTyping == Init => TypeInv
<1> SUFFICES ASSUME Init PROVE TypeInv OBVIOUS
<1> USE HandleAssumption DEF Init
<1>1. NotYet \in Exhaustion \cup {NotYet} OBVIOUS
<1>2. handle \in [Threads -> Handles] OBVIOUS
<1>3. installed \in [Threads -> Seq(Frames)] OBVIOUS
<1>4. outcome \in [Threads -> Ended \cup {NoOutcome}] OBVIOUS
<1>5. TypeOK BY <1>1, <1>2, <1>3, <1>4 DEF TypeOK, PcValues, Causes
<1>6. Attached BY DEF Attached
<1> QED BY <1>5, <1>6 DEF TypeInv

-----------------------------------------------------------------------------
(* Frames: pushing, popping and marking the innermost operation.           *)

\* Popping leaves a sequence of frames (`Installed::drop`).
LEMMA PopTyping ==
    ASSUME NEW s \in Seq(Frames), s # << >>
    PROVE  /\ s[Len(s)] \in Frames
           /\ SubSeq(s, 1, Len(s) - 1) \in Seq(Frames)
           /\ Len(SubSeq(s, 1, Len(s) - 1)) = Len(s) - 1
           /\ \A i \in 1 .. Len(s) - 1 : SubSeq(s, 1, Len(s) - 1)[i] = s[i]
<1>1. Len(s) \in Nat /\ Len(s) >= 1 BY EmptySeq, LenProperties
<1>2. \A i \in 1 .. Len(s) : s[i] \in Frames BY ElementOfSeq
<1>3. \A i \in 1 .. Len(s) - 1 : s[i] \in Frames BY <1>1, <1>2
<1>4. 1 \in Int /\ Len(s) - 1 \in Int BY <1>1
<1> DEFINE u == SubSeq(s, 1, Len(s) - 1)
<1>5. /\ u \in Seq(Frames)
      /\ Len(u) = IF 1 <= Len(s) - 1 THEN Len(s) - 1 - 1 + 1 ELSE 0
      /\ \A i \in 1 .. Len(s) - 1 - 1 + 1 : u[i] = s[1 + i - 1]
  BY <1>3, <1>4, SubSeqProperties
<1> HIDE DEF u
<1>6. Len(u) = Len(s) - 1
  <2>1. \A n, m : n \in Nat /\ n >= 1 /\ m = (IF 1 <= n - 1 THEN n - 1 - 1 + 1 ELSE 0)
            => m = n - 1
    OBVIOUS
  <2> QED BY ONLY <2>1, <1>1, <1>5, Zenon
<1>7. \A i \in 1 .. Len(s) - 1 : u[i] = s[i]
  <2>1. \A i \in 1 .. Len(s) - 1 : i \in 1 .. Len(s) - 1 - 1 + 1 /\ 1 + i - 1 = i
    BY <1>1
  <2> QED BY <1>5, <2>1
<1>8. s[Len(s)] \in Frames BY <1>1, <1>2
<1> QED BY <1>5, <1>6, <1>7, <1>8 DEF u

\* Marking the innermost frame denied changes nothing else.
LEMMA MarkTyping ==
    ASSUME NEW s \in Seq(Frames), s # << >>, NEW f \in Frames
    PROVE  /\ [s EXCEPT ![Len(s)] = f] \in Seq(Frames)
           /\ Len([s EXCEPT ![Len(s)] = f]) = Len(s)
           /\ [s EXCEPT ![Len(s)] = f][Len(s)] = f
           /\ \A i \in 1 .. Len(s) : i # Len(s) =>
                  [s EXCEPT ![Len(s)] = f][i] = s[i]
<1>1. Len(s) \in Nat /\ Len(s) >= 1 BY EmptySeq, LenProperties
<1> QED BY <1>1, ExceptSeq, LenProperties

LEMMA PushTyping ==
    ASSUME NEW s \in Seq(Frames), NEW f \in Frames
    PROVE  /\ Append(s, f) \in Seq(Frames)
           /\ Len(Append(s, f)) = Len(s) + 1
           /\ Append(s, f)[Len(s) + 1] = f
           /\ \A i \in 1 .. Len(s) : Append(s, f)[i] = s[i]
  BY AppendProperties

-----------------------------------------------------------------------------

\* A charge that is refused keeps the frames and the outcomes well formed.
LEMMA RefusedTyping ==
    ASSUME TypeInv, NEW t \in Threads, pc[t] \notin {"caller", "leave"},
           NEW e \in Exhaustion, Refused(t, e), handle' = handle, asked' = asked
    PROVE  /\ installed' \in [Threads -> Seq(Frames)]
           /\ outcome' \in [Threads -> Ended \cup {NoOutcome}]
           /\ pc' \in [Threads -> PcValues]
           /\ Attached'
<1> USE DEF TypeInv, TypeOK
<1>1. pc' = [pc EXCEPT ![t] = "caller"] BY DEF Refused
<1>2. pc' \in [Threads -> PcValues] BY <1>1 DEF PcValues
<1>3. CASE asked[t] = 0
  <2>1. outcome' = [outcome EXCEPT ![t] =
            [handle |-> handle[t], denied |-> TRUE, error |-> e]]
    BY <1>3 DEF Refused
  <2>2. installed' = installed BY <1>3 DEF Refused
  <2>3. [handle |-> handle[t], denied |-> TRUE, error |-> e] \in Ended
    BY DEF Ended
  <2>4. outcome' \in [Threads -> Ended \cup {NoOutcome}] BY <2>1, <2>3
  <2>5. Attached' BY <1>1, <2>1, <2>2 DEF Attached, Top
  <2> QED BY <1>2, <2>2, <2>4, <2>5
<1>4. CASE asked[t] # 0
  <2> DEFINE f == [Top(t) EXCEPT !.denied = TRUE]
  <2>1. installed' = [installed EXCEPT ![t] =
            [@ EXCEPT ![Len(installed[t])] = f]]
    BY <1>4 DEF Refused
  <2>2. outcome' = outcome BY <1>4 DEF Refused
  <2>3. installed[t] # << >> /\ installed[t] \in Seq(Frames)
    BY <1>4 DEF Attached
  <2>4. Top(t) \in Frames BY <2>3, PopTyping DEF Top
  <2>5. f \in Frames BY <2>4 DEF Frames
  <2> HIDE DEF f
  <2>6. [installed[t] EXCEPT ![Len(installed[t])] = f] \in Seq(Frames)
    BY <2>3, <2>5, MarkTyping
  <2>7. installed' \in [Threads -> Seq(Frames)] BY <2>1, <2>6
  <2>8. Attached' BY <1>1, <2>1, <2>2 DEF Attached, Top
  <2> QED BY <1>2, <2>2, <2>7, <2>8
<1> QED BY <1>3, <1>4

\* So does a charge that is granted.
LEMMA GrantedTyping ==
    ASSUME TypeInv, NEW t \in Threads, pc[t] \notin {"caller", "leave"},
           Granted(t), handle' = handle, asked' = asked
    PROVE  /\ installed' \in [Threads -> Seq(Frames)]
           /\ outcome' = outcome
           /\ pc' \in [Threads -> PcValues]
           /\ Attached'
<1> USE DEF TypeInv, TypeOK
<1>1. pc' = [pc EXCEPT ![t] = "caller"] /\ outcome' = outcome
  BY DEF Granted
<1>2. pc' \in [Threads -> PcValues] BY <1>1 DEF PcValues
<1>3. [handle |-> handle[t], denied |-> FALSE] \in Frames BY DEF Frames
<1>4. Append(installed[t], [handle |-> handle[t], denied |-> FALSE])
          \in Seq(Frames)
  BY <1>3, PushTyping
<1>5. installed' \in [Threads -> Seq(Frames)] BY <1>4 DEF Granted
<1>6. \A u \in Threads \ {t} : installed'[u] = installed[u] BY DEF Granted
<1>7. Attached' BY <1>1, <1>6 DEF Attached, Top
<1> QED BY <1>1, <1>2, <1>5, <1>7

LEMMA StepTyping == TypeInv /\ [Next]_vars => TypeInv'
<1> SUFFICES ASSUME TypeInv, [Next]_vars PROVE TypeInv' OBVIOUS
<1> USE HandleAssumption, BoundAssumption
        DEF TypeInv, TypeOK, PcValues, Causes, Count, Sum, Over, Corrected
<1>1. CASE UNCHANGED vars
  BY <1>1 DEF vars, shared, local, Attached, Top
<1>2. ASSUME NEW k \in Tokens, Cancel(k) PROVE TypeInv'
  BY <1>2 DEF Cancel, local, Attached, Top
<1>3. ASSUME NEW h \in Timed, DeadlinePasses(h) PROVE TypeInv'
  BY <1>3 DEF DeadlinePasses, local, Attached, Top
<1>4. ASSUME NEW t \in Threads, NEW h \in Handles, Run(t, h) PROVE TypeInv'
  <2>1. TypeOK' BY <1>4 DEF Run, Charging, shared
  <2>2. Attached'
    <3>1. asked'[t] = 0 /\ pc'[t] = "exhausted" BY <1>4 DEF Run, Charging
    <3>2. \A u \in Threads \ {t} :
              pc'[u] = pc[u] /\ asked'[u] = asked[u] /\ handle'[u] = handle[u]
      BY <1>4 DEF Run, Charging
    <3>3. installed' = installed /\ outcome' = outcome BY <1>4 DEF Run
    <3>4. ASSUME NEW u \in Threads \ {t}
          PROVE  /\ pc'[u] \notin {"caller", "leave"} /\ asked'[u] > 0 =>
                        installed'[u] # << >> /\ Top(u)'.handle = handle'[u]
                 /\ pc'[u] = "leave" =>
                        outcome'[u] \in Ended /\ outcome'[u].handle = handle'[u]
      BY <3>2, <3>3 DEF Attached, Top
    <3>5. pc'[t] # "leave" /\ ~(asked'[t] > 0) BY <3>1
    <3> QED BY <3>4, <3>5 DEF Attached
  <2> QED BY <2>1, <2>2
<1>5. ASSUME NEW t \in Threads, NEW n \in 1 .. MaxRun, Unit(t, n)
      PROVE  TypeInv'
  <2>1. Top(t) \in Frames BY <1>5, PopTyping DEF Unit, Top
  <2>2. Top(t).handle \in Handles BY <2>1 DEF Frames
  <2>3. TypeOK' BY <1>5, <2>2 DEF Unit, Charging, shared
  <2>4. Attached' BY <1>5, <2>2 DEF Unit, Charging, shared, Attached, Top
  <2> QED BY <2>3, <2>4
<1>6. ASSUME NEW t \in Threads, Finish(t) PROVE TypeInv'
  <2>1. Top(t) \in Frames /\ Under(t) \in Seq(Frames)
    BY <1>6, PopTyping DEF Finish, Top, Under
  <2>2. [handle |-> Top(t).handle, denied |-> Top(t).denied, error |-> NotYet]
            \in Ended
    BY <2>1 DEF Frames, Ended
  <2>3. Top(t).handle \in Handles BY <2>1 DEF Frames
  <2>4. TypeOK' BY <1>6, <2>1, <2>2, <2>3 DEF Finish, shared
  <2>5. Attached' BY <1>6, <2>2 DEF Finish, Attached, Top
  <2> QED BY <2>4, <2>5
<1>7. ASSUME NEW t \in Threads, Leave(t) PROVE TypeInv'
  <2>1. End(Count(t)) \in Exhaustion \cup {NotYet} BY DEF End
  <2>2. [outcome[t] EXCEPT !.error = End(Count(t))] \in Ended
    BY <1>7, <2>1 DEF Leave, Attached, Ended
  <2>3. TypeOK' BY <1>7, <2>2 DEF Leave, shared
  <2>4. Attached' BY <1>7 DEF Leave, shared, Attached, Top
  <2> QED BY <2>3, <2>4
<1>8. ASSUME NEW t \in Threads, ReadExhausted(t) PROVE TypeInv'
  <2>1. CASE exhausted[Count(t)] # NotYet
    <3>1. exhausted[Count(t)] \in Exhaustion BY <2>1
    <3>2. Refused(t, exhausted[Count(t)]) BY <1>8, <2>1 DEF ReadExhausted
    <3>3. pc[t] \notin {"caller", "leave"} /\ handle' = handle /\ asked' = asked
      BY <1>8 DEF ReadExhausted
    <3> QED BY <1>8, <3>1, <3>2, <3>3, RefusedTyping DEF ReadExhausted, shared
  <2>2. CASE exhausted[Count(t)] = NotYet
    <3>1. TypeOK' BY <1>8, <2>2 DEF ReadExhausted, shared
    <3>2. Attached' BY <1>8, <2>2 DEF ReadExhausted, Attached, Top
    <3> QED BY <3>1, <3>2
  <2> QED BY <2>1, <2>2
<1>9. ASSUME NEW t \in Threads, ReadToken(t) PROVE TypeInv'
  BY <1>9 DEF ReadToken, shared, Attached, Top
<1>10. ASSUME NEW t \in Threads, ReadSpent(t) PROVE TypeInv'
  <2>1. TypeOK' BY <1>10 DEF ReadSpent, shared
  <2>2. Attached' BY <1>10 DEF ReadSpent, shared, Attached, Top
  <2> QED BY <2>1, <2>2
<1>11. ASSUME NEW t \in Threads, FetchAdd(t) PROVE TypeInv'
  <2>0. Count(t) \in Counts /\ asked[t] \in Nat OBVIOUS
  <2>3. spent' \in [Counts -> Nat] /\ granted' \in [Counts -> Nat]
    BY <1>11, <2>0 DEF FetchAdd
  <2>4. after' \in [Threads -> Nat] BY <1>11, <2>0 DEF FetchAdd
  <2>1. TypeOK' BY <1>11, <2>3, <2>4 DEF FetchAdd
  <2>2. Attached' BY <1>11 DEF FetchAdd, Attached, Top
  <2> QED BY <2>1, <2>2
<1>12. ASSUME NEW t \in Threads, StoreOver(t) PROVE TypeInv'
  <2>0. Count(t) \in Counts /\ Units[Count(t)] + 1 \in Nat OBVIOUS
  <2>3. spent' \in [Counts -> Nat] BY <1>12, <2>0 DEF StoreOver
  <2>4. after' \in [Threads -> Nat] /\ cause' \in [Threads -> Causes]
    BY <1>12, <2>0 DEF StoreOver
  <2>5. pc' \in [Threads -> PcValues] BY <1>12 DEF StoreOver
  <2>1. TypeOK' BY <1>12, <2>3, <2>4, <2>5 DEF StoreOver
  <2>2. Attached' BY <1>12 DEF StoreOver, Attached, Top
  <2> QED BY <2>1, <2>2
<1>13. ASSUME NEW t \in Threads, ReadDeadline(t) PROVE TypeInv'
  <2>1. CASE handle[t] \in past
    <3>1. TypeOK' BY <1>13, <2>1 DEF ReadDeadline, shared
    <3>2. Attached' BY <1>13, <2>1 DEF ReadDeadline, Attached, Top
    <3> QED BY <3>1, <3>2
  <2>2. CASE handle[t] \notin past
    <3>1. Granted(t) /\ cause' = cause BY <1>13, <2>2 DEF ReadDeadline
    <3>2. pc[t] \notin {"caller", "leave"} /\ handle' = handle /\ asked' = asked
      BY <1>13 DEF ReadDeadline
    <3> QED BY <1>13, <3>1, <3>2, GrantedTyping DEF ReadDeadline, shared
  <2> QED BY <2>1, <2>2
<1>14. ASSUME NEW t \in Threads, Refuse(t) PROVE TypeInv'
  <2> DEFINE e == First(Count(t), [cause |-> cause[t], work |-> after[t]])
  <2>1. [cause |-> cause[t], work |-> after[t]] \in Exhaustion
    BY DEF Exhaustion
  <2>2. e \in Exhaustion BY <2>1 DEF First
  <2>3. Refused(t, e) /\ exhausted' = [exhausted EXCEPT ![Count(t)] = e]
    BY <1>14 DEF Refuse
  <2>4. pc[t] \notin {"caller", "leave"} /\ handle' = handle /\ asked' = asked
    BY <1>14 DEF Refuse
  <2> HIDE DEF e
  <2>5. exhausted' \in [Counts -> Exhaustion \cup {NotYet}] BY <2>2, <2>3
  <2> QED BY <1>14, <2>2, <2>3, <2>4, <2>5, RefusedTyping DEF Refuse
<1> QED BY <1>1, <1>2, <1>3, <1>4, <1>5, <1>6, <1>7, <1>8, <1>9, <1>10,
           <1>11, <1>12, <1>13, <1>14 DEF Next, Charge

\* Type correctness, for every number of threads, handles and counts.
THEOREM Typing == Spec => []TypeOK
<1>1. TypeInv => TypeOK BY DEF TypeInv
<1> QED BY InitTyping, StepTyping, <1>1, PTL DEF Spec

-----------------------------------------------------------------------------
(* The count.  GrantedWithinUnits is not inductive by itself: what it needs *)
(* is that the count never comes back to the budget or under it once it     *)
(* passed it (a store writes n + 1), and SettledCount needs that whoever    *)
(* pushed the count past n + 1 is still about to correct it.                *)

Passing(s)    == \E t \in Threads : pc[t] \in {"store", "refuse"} /\ Count(t) = s
Correcting(s) == \E t \in Threads : pc[t] = "store" /\ Count(t) = s

CountOK(s) ==
    /\ granted[s] <= Units[s]
    /\ spent[s] <= Units[s] => granted[s] = spent[s]
    /\ spent[s] > Units[s] => exhausted[s] # NotYet \/ Passing(s)
    /\ spent[s] > Units[s] + 1 => Correcting(s)
    /\ exhausted[s].cause = "Work" =>
           exhausted[s].work = Units[s] + 1 /\ spent[s] > Units[s]

ChargeOK(t) ==
    /\ pc[t] = "store" => spent[Count(t)] > Units[Count(t)]
    /\ pc[t] = "refuse" /\ cause[t] = "Work" =>
           after[t] = Units[Count(t)] + 1 /\ spent[Count(t)] > Units[Count(t)]

CountInv == (\A s \in Counts : CountOK(s)) /\ (\A t \in Threads : ChargeOK(t))

LEMMA InitCount == Init => CountInv
<1> SUFFICES ASSUME Init PROVE CountInv OBVIOUS
<1>1. \A s \in Counts : Units[s] \in Nat BY HandleAssumption
<1>2. NotYet.cause = "none" BY DEF NotYet
<1> QED BY <1>1, <1>2 DEF Init, CountInv, CountOK, ChargeOK

LEMMA StepCount == TypeInv /\ CountInv /\ [Next]_vars => CountInv'
<1> SUFFICES ASSUME TypeInv, CountInv, [Next]_vars PROVE CountInv' OBVIOUS
<1> USE HandleAssumption
<1>0. /\ spent \in [Counts -> Nat] /\ granted \in [Counts -> Nat]
      /\ Units \in [Counts -> Nat] /\ asked \in [Threads -> Nat]
      /\ pc \in [Threads -> PcValues] /\ after \in [Threads -> Nat]
      /\ handle \in [Threads -> Handles] /\ cause \in [Threads -> Causes]
      /\ exhausted \in [Counts -> Exhaustion \cup {NotYet}]
      /\ \A t \in Threads : Count(t) \in Counts
  BY DEF TypeInv, TypeOK, Count
<1> USE <1>0 DEF CountInv, CountOK, ChargeOK, Passing, Correcting, Count
<1>1. CASE UNCHANGED vars
  BY <1>1 DEF vars, shared, local
<1>2. ASSUME NEW k \in Tokens, Cancel(k) PROVE CountInv'
  BY <1>2 DEF Cancel, local
<1>3. ASSUME NEW h \in Timed, DeadlinePasses(h) PROVE CountInv'
  BY <1>3 DEF DeadlinePasses, local
<1>4. ASSUME NEW t \in Threads, NEW h \in Handles, Run(t, h) PROVE CountInv'
  BY <1>4 DEF Run, Charging, shared
<1>5. ASSUME NEW t \in Threads, NEW n \in 1 .. MaxRun, Unit(t, n)
      PROVE  CountInv'
  BY <1>5 DEF Unit, Charging, shared
<1>6. ASSUME NEW t \in Threads, Finish(t) PROVE CountInv'
  BY <1>6 DEF Finish, shared
<1>7. ASSUME NEW t \in Threads, Leave(t) PROVE CountInv'
  BY <1>7 DEF Leave, shared
<1>8. ASSUME NEW t \in Threads, ReadExhausted(t) PROVE CountInv'
  <2>1. pc' \in {[pc EXCEPT ![t] = "caller"], [pc EXCEPT ![t] = "token"]}
    BY <1>8 DEF ReadExhausted, Refused
  <2>2. UNCHANGED <<spent, exhausted, handle, after, cause, granted>>
    BY <1>8 DEF ReadExhausted, shared
  <2>3. pc[t] = "exhausted" BY <1>8 DEF ReadExhausted
  <2> QED BY <2>1, <2>2, <2>3
<1>9. ASSUME NEW t \in Threads, ReadToken(t) PROVE CountInv'
  BY <1>9 DEF ReadToken, shared
<1>10. ASSUME NEW t \in Threads, ReadSpent(t) PROVE CountInv'
  BY <1>10 DEF ReadSpent, shared
<1>11. ASSUME NEW t \in Threads, FetchAdd(t) PROVE CountInv'
  BY <1>11 DEF FetchAdd, Over, Sum
<1>12. ASSUME NEW t \in Threads, StoreOver(t) PROVE CountInv'
  BY <1>12 DEF StoreOver, Corrected
<1>13. ASSUME NEW t \in Threads, ReadDeadline(t) PROVE CountInv'
  <2>1. CASE handle[t] \in past
    BY <1>13, <2>1 DEF ReadDeadline, shared
  <2>2. CASE handle[t] \notin past
    <3>1. pc' = [pc EXCEPT ![t] = "caller"] /\ cause' = cause
      BY <1>13, <2>2 DEF ReadDeadline, Granted
    <3>2. UNCHANGED <<spent, exhausted, handle, after, granted>>
      BY <1>13 DEF ReadDeadline, shared
    <3>3. pc[t] = "deadline" BY <1>13 DEF ReadDeadline
    <3> QED BY <3>1, <3>2, <3>3
  <2> QED BY <2>1, <2>2
<1>14. ASSUME NEW t \in Threads, Refuse(t) PROVE CountInv'
  <2> DEFINE e == First(Count(t), [cause |-> cause[t], work |-> after[t]])
  <2>1. pc' = [pc EXCEPT ![t] = "caller"] /\ pc[t] = "refuse"
    BY <1>14 DEF Refuse, Refused
  <2>2. UNCHANGED <<spent, handle, after, cause, granted>>
    BY <1>14 DEF Refuse
  <2>3. exhausted' = [exhausted EXCEPT ![Count(t)] = e]
    BY <1>14 DEF Refuse
  <2>4. e.cause = "Work" =>
            e.work = Units[Count(t)] + 1 /\ spent[Count(t)] > Units[Count(t)]
    BY <2>1 DEF First
  <2>5. e # NotYet
    BY DEF First, NotYet, Causes
  <2> HIDE DEF e
  <2>6. \A s \in Counts : CountOK(s)'
    BY <2>1, <2>2, <2>3, <2>4, <2>5
  <2>7. \A u \in Threads : ChargeOK(u)'
    BY <2>1, <2>2
  <2> QED BY <2>6, <2>7
<1> QED BY <1>1, <1>2, <1>3, <1>4, <1>5, <1>6, <1>7, <1>8, <1>9, <1>10,
           <1>11, <1>12, <1>13, <1>14 DEF Next, Charge

LEMMA Counting == Spec => [](TypeInv /\ CountInv)
<1>1. Init => TypeInv /\ CountInv BY InitTyping, InitCount
<1>2. (TypeInv /\ CountInv) /\ [Next]_vars => (TypeInv /\ CountInv)'
  BY StepTyping, StepCount
<1> QED BY <1>1, <1>2, PTL DEF Spec

\* However many threads and clones draw from a budget of n units, it hands
\* out at most n.
THEOREM UnitsBounded == Spec => []GrantedWithinUnits
<1>1. CountInv => GrantedWithinUnits
  BY DEF CountInv, CountOK, GrantedWithinUnits
<1> QED BY <1>1, Counting, PTL

\* Between charges the count is the units handed out, or n + 1.
THEOREM CountSettles == Spec => []SettledCount
<1>1. TypeInv /\ CountInv => SettledCount
  <2> SUFFICES ASSUME TypeInv, CountInv, NEW s \in Counts, Settled(s)
               PROVE  /\ exhausted[s] = NotYet => spent[s] = granted[s]
                      /\ exhausted[s].cause = "Work" => spent[s] = Units[s] + 1
                      /\ spent[s] <= Units[s] + 1
    BY DEF SettledCount
  <2>1. CountOK(s) BY DEF CountInv
  <2>2. ~Passing(s) /\ ~Correcting(s) BY DEF Settled, Passing, Correcting
  <2>3. spent[s] \in Nat /\ Units[s] \in Nat
    BY HandleAssumption DEF TypeInv, TypeOK
  <2> QED BY <2>1, <2>2, <2>3 DEF CountOK
<1> QED BY <1>1, Counting, PTL

\* A refusal for work always reports n + 1 units.
THEOREM WorkRefusalsExact == Spec => []WorkRefusalExact
<1>1. CountInv => WorkRefusalExact
  BY DEF CountInv, CountOK, WorkRefusalExact
<1> QED BY <1>1, Counting, PTL

-----------------------------------------------------------------------------
(* Refusals.  A refused unit leaves the refusal recorded before the caller *)
(* sees it, and a recorded refusal stays: so `run`, which looks when the   *)
(* operation ends, finds it whatever the operation did in between.         *)

LEMMA RefusalKept ==
    [Next]_vars =>
        \A s \in Counts : exhausted[s] # NotYet => exhausted'[s] = exhausted[s]
<1> SUFFICES ASSUME [Next]_vars, NEW s \in Counts, exhausted[s] # NotYet
             PROVE  exhausted'[s] = exhausted[s]
  OBVIOUS
<1>1. CASE UNCHANGED exhausted BY <1>1
<1>2. ASSUME NEW t \in Threads, Refuse(t) PROVE exhausted'[s] = exhausted[s]
  BY <1>2 DEF Refuse, First
<1> QED BY <1>1, <1>2
    DEF Next, Charge, Cancel, DeadlinePasses, Run, Unit, Finish, Leave,
        ReadExhausted, ReadToken, ReadSpent, FetchAdd, StoreOver,
        ReadDeadline, shared, vars

\* Every open operation that was denied a unit has its refusal recorded.
FramesRecorded(t) == \A i \in 1 .. Len(installed[t]) :
    installed[t][i].denied => exhausted[CountOf[installed[t][i].handle]] # NotYet

OutcomeRecorded(t) ==
    /\ outcome[t].denied => exhausted[CountOf[outcome[t].handle]] # NotYet
    /\ outcome[t].error # NotYet =>
           outcome[t].error = exhausted[CountOf[outcome[t].handle]]
    /\ outcome[t].denied /\ pc[t] # "leave" => outcome[t].error # NotYet

Recorded == \A t \in Threads : FramesRecorded(t) /\ OutcomeRecorded(t)

LEMMA InitRecorded == Init => Recorded
<1> SUFFICES ASSUME Init, NEW t \in Threads
             PROVE  FramesRecorded(t) /\ OutcomeRecorded(t)
  BY DEF Recorded
<1>1. installed[t] = << >> /\ outcome[t] = NoOutcome BY DEF Init
<1>2. ~NoOutcome.denied /\ NoOutcome.error = NotYet BY DEF NoOutcome
<1>3. Len(<< >>) = 0 BY EmptySeq
<1> QED BY <1>1, <1>2, <1>3 DEF FramesRecorded, OutcomeRecorded

\* Handles name counts, in frames and in outcomes.
LEMMA Named ==
    ASSUME TypeInv, NEW t \in Threads
    PROVE  /\ Len(installed[t]) \in Nat
           /\ \A i \in 1 .. Len(installed[t]) :
                  CountOf[installed[t][i].handle] \in Counts
           /\ outcome[t] \in Ended => CountOf[outcome[t].handle] \in Counts
           /\ outcome[t] \notin Ended => outcome[t] = NoOutcome
<1> USE HandleAssumption DEF TypeInv, TypeOK
<1>1. installed[t] \in Seq(Frames) OBVIOUS
<1>2. Len(installed[t]) \in Nat BY <1>1, LenProperties
<1>3. \A i \in 1 .. Len(installed[t]) : installed[t][i] \in Frames
  BY <1>1, ElementOfSeq
<1>4. outcome[t] \in Ended => CountOf[outcome[t].handle] \in Counts
  BY DEF Ended
<1> QED BY <1>2, <1>3, <1>4 DEF Frames

\* A thread that keeps its frames, or its outcome, keeps them recorded.
LEMMA KeptFrames ==
    ASSUME TypeInv, [Next]_vars, NEW t \in Threads, FramesRecorded(t),
           installed'[t] = installed[t]
    PROVE  FramesRecorded(t)'
  BY Named, RefusalKept DEF FramesRecorded

LEMMA KeptOutcome ==
    ASSUME TypeInv, [Next]_vars, NEW t \in Threads, OutcomeRecorded(t),
           outcome'[t] = outcome[t], pc[t] # "leave" \/ pc'[t] = "leave"
    PROVE  OutcomeRecorded(t)'
<1>1. CASE outcome[t] \in Ended
  BY <1>1, Named, RefusalKept DEF OutcomeRecorded
<1>2. CASE outcome[t] = NoOutcome
  BY <1>2 DEF OutcomeRecorded, NoOutcome
<1> QED BY <1>1, <1>2, Named

\* The refusal e, just returned to thread t, is recorded on both sides.
LEMMA RefusedRecorded ==
    ASSUME TypeInv, [Next]_vars, Recorded, NEW t \in Threads, NEW e,
           pc[t] \notin {"caller", "leave"},
           Refused(t, e), e # NotYet, exhausted'[Count(t)] = e
    PROVE  Recorded'
<1> SUFFICES ASSUME NEW u \in Threads
             PROVE  FramesRecorded(u)' /\ OutcomeRecorded(u)'
  BY DEF Recorded
<1>0. FramesRecorded(u) /\ OutcomeRecorded(u) BY DEF Recorded
<1>1. pc' = [pc EXCEPT ![t] = "caller"] /\ pc \in [Threads -> PcValues]
  BY DEF Refused, TypeInv, TypeOK
<1>2. CASE asked[t] = 0
  <2>1. outcome' = [outcome EXCEPT ![t] =
            [handle |-> handle[t], denied |-> TRUE, error |-> e]]
    BY <1>2 DEF Refused
  <2>2. installed' = installed BY <1>2 DEF Refused
  <2>3. outcome \in [Threads -> Ended \cup {NoOutcome}] BY DEF TypeInv, TypeOK
  <2>4. FramesRecorded(u)' BY <1>0, <2>2, KeptFrames
  <2>5. CASE u = t
    <3>1. outcome'[t] = [handle |-> handle[t], denied |-> TRUE, error |-> e]
      BY <2>1, <2>3
    <3> QED BY <2>4, <2>5, <3>1 DEF OutcomeRecorded, Count
  <2>6. CASE u # t
    BY <1>0, <1>1, <2>1, <2>3, <2>4, <2>6, KeptOutcome
  <2> QED BY <2>5, <2>6
<1>3. CASE asked[t] # 0
  <2> DEFINE f == [Top(t) EXCEPT !.denied = TRUE]
             s == installed[t]
  <2>1. installed' = [installed EXCEPT ![t] = [@ EXCEPT ![Len(s)] = f]]
    BY <1>3 DEF Refused
  <2>2. outcome' = outcome BY <1>3 DEF Refused
  <2>3. /\ installed \in [Threads -> Seq(Frames)]
        /\ s \in Seq(Frames) /\ s # << >> /\ Top(t).handle = handle[t]
    BY <1>3 DEF TypeInv, TypeOK, Attached
  <2>4. Top(t) \in Frames BY <2>3, PopTyping DEF Top
  <2>5. f \in Frames /\ f.handle = handle[t] BY <2>3, <2>4 DEF Frames
  <2>6. OutcomeRecorded(u)' BY <1>0, <1>1, <2>2, KeptOutcome
  <2>7. CASE u # t BY <1>0, <2>1, <2>3, <2>6, <2>7, KeptFrames
  <2>8. CASE u = t
    <3> HIDE DEF f
    <3>1. installed'[t] = [s EXCEPT ![Len(s)] = f] BY <2>1, <2>3
    <3>2. /\ Len(installed'[t]) = Len(s)
          /\ installed'[t][Len(s)] = f
          /\ \A i \in 1 .. Len(s) : i # Len(s) => installed'[t][i] = s[i]
      BY <2>3, <2>5, <3>1, MarkTyping
    <3>3. ASSUME NEW i \in 1 .. Len(s), installed'[t][i].denied
          PROVE  exhausted'[CountOf[installed'[t][i].handle]] # NotYet
      <4>1. CASE i = Len(s) BY <2>5, <3>2, <4>1 DEF Count
      <4>2. CASE i # Len(s)
        <5>1. installed'[t][i] = s[i] BY <3>2, <4>2
        <5>2. exhausted[CountOf[s[i].handle]] # NotYet
          BY <1>0, <2>8, <3>3, <5>1 DEF FramesRecorded
        <5> QED BY <5>1, <5>2, Named, RefusalKept
      <4> QED BY <4>1, <4>2
    <3> QED BY <2>6, <2>8, <3>2, <3>3 DEF FramesRecorded
  <2> QED BY <2>7, <2>8
<1> QED BY <1>2, <1>3

LEMMA StepRecorded == TypeInv /\ Recorded /\ [Next]_vars => Recorded'
<1> SUFFICES ASSUME TypeInv, Recorded, [Next]_vars PROVE Recorded' OBVIOUS
<1>0. \A u \in Threads : FramesRecorded(u) /\ OutcomeRecorded(u)
  BY DEF Recorded
<1>a. /\ pc \in [Threads -> PcValues] /\ installed \in [Threads -> Seq(Frames)]
      /\ outcome \in [Threads -> Ended \cup {NoOutcome}]
  BY DEF TypeInv, TypeOK
<1>b. ASSUME installed' = installed, outcome' = outcome,
             \A u \in Threads : pc[u] # "leave" \/ pc'[u] = "leave"
      PROVE  Recorded'
  BY <1>0, <1>b, KeptFrames, KeptOutcome DEF Recorded
<1>1. CASE UNCHANGED vars BY <1>1, <1>b DEF vars, local
<1>2. ASSUME NEW k \in Tokens, Cancel(k) PROVE Recorded'
  BY <1>2, <1>b DEF Cancel, local
<1>3. ASSUME NEW h \in Timed, DeadlinePasses(h) PROVE Recorded'
  BY <1>3, <1>b DEF DeadlinePasses, local
<1>4. ASSUME NEW t \in Threads, NEW h \in Handles, Run(t, h) PROVE Recorded'
  BY <1>4, <1>a, <1>b DEF Run, Charging
<1>5. ASSUME NEW t \in Threads, NEW n \in 1 .. MaxRun, Unit(t, n)
      PROVE  Recorded'
  BY <1>5, <1>a, <1>b DEF Unit, Charging
<1>6. ASSUME NEW t \in Threads, Finish(t) PROVE Recorded'
  <2> DEFINE s == installed[t]
             o == [handle |-> Top(t).handle, denied |-> Top(t).denied,
                   error |-> NotYet]
  <2>1. /\ s # << >> /\ s \in Seq(Frames)
        /\ installed' = [installed EXCEPT ![t] = Under(t)]
        /\ outcome' = [outcome EXCEPT ![t] = o]
        /\ pc' = [pc EXCEPT ![t] = "leave"]
        /\ exhausted' = exhausted
    BY <1>6, <1>a DEF Finish, shared
  <2>2. /\ Len(s) \in 1 .. Len(s)
        /\ Len(Under(t)) = Len(s) - 1
        /\ \A i \in 1 .. Len(s) - 1 : Under(t)[i] = s[i] /\ i \in 1 .. Len(s)
    <3>1. Len(s) \in Nat \ {0} BY <2>1, EmptySeq
    <3> QED BY <2>1, <3>1, PopTyping DEF Under
  <2>3. FramesRecorded(t)'
    <3>1. installed'[t] = Under(t) BY <1>a, <2>1
    <3> QED BY <1>0, <2>1, <2>2, <3>1 DEF FramesRecorded
  <2>4. OutcomeRecorded(t)'
    <3>1. outcome'[t] = o /\ pc'[t] = "leave" BY <1>a, <2>1
    <3>2. Top(t).denied => exhausted[CountOf[Top(t).handle]] # NotYet
      BY <1>0, <2>2 DEF FramesRecorded, Top
    <3> QED BY <2>1, <3>1, <3>2 DEF OutcomeRecorded
  <2>5. ASSUME NEW u \in Threads, u # t
        PROVE  FramesRecorded(u)' /\ OutcomeRecorded(u)'
    <3>1. installed'[u] = installed[u] /\ outcome'[u] = outcome[u] /\ pc'[u] = pc[u]
      BY <1>a, <2>1, <2>5
    <3> QED BY <1>0, <3>1, KeptFrames, KeptOutcome
  <2> QED BY <2>3, <2>4, <2>5 DEF Recorded
<1>7. ASSUME NEW t \in Threads, Leave(t) PROVE Recorded'
  <2>1. /\ pc[t] = "leave" /\ pc' = [pc EXCEPT ![t] = "caller"]
        /\ installed' = installed /\ exhausted' = exhausted
        /\ outcome' = [outcome EXCEPT ![t].error = exhausted[Count(t)]]
    BY <1>7 DEF Leave, shared, End
  <2>2. outcome[t] \in Ended /\ outcome[t].handle = handle[t]
    BY <2>1 DEF TypeInv, Attached
  <2>3. OutcomeRecorded(t)'
    <3>1. /\ outcome'[t].error = exhausted[Count(t)]
          /\ outcome'[t].handle = outcome[t].handle
          /\ outcome'[t].denied = outcome[t].denied
      BY <1>a, <2>1, <2>2 DEF Ended
    <3> QED BY <1>0, <2>1, <2>2, <3>1 DEF OutcomeRecorded, Count
  <2>4. ASSUME NEW u \in Threads, u # t PROVE OutcomeRecorded(u)'
    <3>1. outcome'[u] = outcome[u] /\ pc'[u] = pc[u] BY <1>a, <2>1, <2>4
    <3> QED BY <1>0, <3>1, KeptOutcome
  <2>5. \A u \in Threads : FramesRecorded(u)' BY <1>0, <2>1, KeptFrames
  <2> QED BY <2>3, <2>4, <2>5 DEF Recorded
<1>8. ASSUME NEW t \in Threads, ReadExhausted(t) PROVE Recorded'
  <2>1. CASE exhausted[Count(t)] # NotYet
    <3>1. /\ pc[t] = "exhausted" /\ Refused(t, exhausted[Count(t)])
          /\ exhausted' = exhausted
      BY <1>8, <2>1 DEF ReadExhausted, shared
    <3> QED BY <2>1, <3>1, RefusedRecorded
  <2>2. CASE exhausted[Count(t)] = NotYet
    BY <1>8, <2>2, <1>a, <1>b DEF ReadExhausted
  <2> QED BY <2>1, <2>2
<1>9. ASSUME NEW t \in Threads, ReadToken(t) PROVE Recorded'
  BY <1>9, <1>a, <1>b DEF ReadToken
<1>10. ASSUME NEW t \in Threads, ReadSpent(t) PROVE Recorded'
  BY <1>10, <1>a, <1>b DEF ReadSpent
<1>11. ASSUME NEW t \in Threads, FetchAdd(t) PROVE Recorded'
  BY <1>11, <1>a, <1>b DEF FetchAdd
<1>12. ASSUME NEW t \in Threads, StoreOver(t) PROVE Recorded'
  BY <1>12, <1>a, <1>b DEF StoreOver
<1>13. ASSUME NEW t \in Threads, ReadDeadline(t) PROVE Recorded'
  <2>1. CASE handle[t] \in past
    BY <1>13, <2>1, <1>a, <1>b DEF ReadDeadline
  <2>2. CASE handle[t] \notin past
    <3> DEFINE f == [handle |-> handle[t], denied |-> FALSE]
               s == installed[t]
    <3>1. /\ Granted(t) /\ exhausted' = exhausted /\ pc[t] = "deadline"
          /\ pc' = [pc EXCEPT ![t] = "caller"] /\ outcome' = outcome
      BY <1>13, <2>2 DEF ReadDeadline, Granted, shared
    <3>2. \A u \in Threads : OutcomeRecorded(u)'
      BY <1>0, <1>a, <3>1, KeptOutcome
    <3>3. ASSUME NEW u \in Threads, installed'[u] = installed[u]
          PROVE  FramesRecorded(u)'
      BY <1>0, <3>3, KeptFrames
    <3>4. CASE asked[t] = 0
      <4>1. installed' = [installed EXCEPT ![t] = Append(@, f)]
        BY <3>1, <3>4 DEF Granted
      <4>2. f \in Frames BY DEF Frames, TypeInv, TypeOK
      <4>3. ~f.denied OBVIOUS
      <4>4. s \in Seq(Frames) /\ Len(s) \in Nat BY <1>a, Named
      <4> HIDE DEF f
      <4>5. /\ installed'[t] = Append(s, f)
            /\ Len(Append(s, f)) = Len(s) + 1
            /\ Append(s, f)[Len(s) + 1] = f
            /\ \A i \in 1 .. Len(s) : Append(s, f)[i] = s[i]
        BY <1>a, <4>1, <4>2, <4>4, PushTyping
      <4>6. ASSUME NEW i \in 1 .. Len(s) + 1, Append(s, f)[i].denied
            PROVE  exhausted[CountOf[Append(s, f)[i].handle]] # NotYet
        <5>1. i # Len(s) + 1 BY <4>3, <4>5, <4>6
        <5>2. i \in 1 .. Len(s) BY <4>4, <5>1
        <5> QED BY <1>0, <4>5, <4>6, <5>2 DEF FramesRecorded
      <4>7. FramesRecorded(t)' BY <3>1, <4>5, <4>6 DEF FramesRecorded
      <4>8. \A u \in Threads \ {t} : installed'[u] = installed[u]
        BY <1>a, <4>1
      <4> QED BY <3>2, <3>3, <4>7, <4>8 DEF Recorded
    <3>5. CASE asked[t] # 0
      <4>1. installed' = installed BY <3>1, <3>5 DEF Granted
      <4> QED BY <3>2, <3>3, <4>1 DEF Recorded
    <3> QED BY <3>4, <3>5
  <2> QED BY <2>1, <2>2
<1>14. ASSUME NEW t \in Threads, Refuse(t) PROVE Recorded'
  <2> DEFINE e == First(Count(t), [cause |-> cause[t], work |-> after[t]])
  <2>1. /\ pc[t] = "refuse" /\ Refused(t, e)
        /\ exhausted' = [exhausted EXCEPT ![Count(t)] = e]
    BY <1>14 DEF Refuse
  <2>2. e # NotYet
    BY DEF First, NotYet, Causes, TypeInv, TypeOK
  <2>3. exhausted'[Count(t)] = e
    BY <2>1, HandleAssumption DEF Count, TypeInv, TypeOK
  <2> HIDE DEF e
  <2> QED BY <2>1, <2>2, <2>3, RefusedRecorded
<1> QED BY <1>1, <1>2, <1>3, <1>4, <1>5, <1>6, <1>7, <1>8, <1>9, <1>10,
           <1>11, <1>12, <1>13, <1>14 DEF Next, Charge

\* An operation that was refused a unit never returns a result of its own,
\* and whatever refusal it returns is its budget's one refusal.
THEOREM NeverPartial == Spec => []NoPartialResult
<1>1. Init => TypeInv /\ Recorded BY InitTyping, InitRecorded
<1>2. (TypeInv /\ Recorded) /\ [Next]_vars => (TypeInv /\ Recorded)'
  BY StepTyping, StepRecorded
<1>3. Recorded => NoPartialResult
  BY DEF Recorded, OutcomeRecorded, NoPartialResult
<1> QED BY <1>1, <1>2, <1>3, PTL DEF Spec

=============================================================================
