------------------------ MODULE GeneratedCode_proofs ------------------------
(***************************************************************************)
(* Proofs about what the generator makes of a feature set, and about what  *)
(* the library does with it, in the order in which it is made: the         *)
(* definitions of a batch (BatchDefinitions), the lines Maple prints for   *)
(* it (OutputBlocks), and the function they become with its three callers  *)
(* (GeneratedKernel). They are for any number of features.                 *)
(***************************************************************************)
EXTENDS BatchDefinitions, OutputBlocks, GeneratedKernel, SpinComponents_proofs,
        SequenceTheorems

(* BatchDefinitions: the inductive invariant says what the worklist still owes.
   What a collected key is derived from is collected as well or waits on the
   stack, and so is every output of the batch. *)

Waiting(k) == \E i \in 1..Len(pending) : pending[i] = k

(* The derivative of one order less that both loops and next() agree on. *)
Lowered(e) == [e EXCEPT ![FirstNonzero(e)] = @ - 1]

Wanted(k) ==
  \E i \in 1..Len(batch) :
    k[2] = batch[i][2] /\ \A j \in 1..Width : k[1][j] =< batch[i][1][j]

PendingInv ==
  \A i \in 1..Len(pending) :
    Degree(pending[i][1]) =< MaxOrder /\ Wanted(pending[i])

SeenInv ==
  \A k \in seen :
    /\ ~IsZero(k[1])
    /\ Degree(k[1]) =< MaxOrder
    /\ Wanted(k)
    /\ \/ IsZero(Lowered(k[1]))
       \/ <<Lowered(k[1]), k[2]>> \in seen
       \/ Waiting(<<Lowered(k[1]), k[2]>>)

OutputsInv ==
  \A i \in 1..Len(batch) :
    IsZero(batch[i][1]) \/ batch[i] \in seen \/ Waiting(batch[i])

PhaseInv ==
  /\ phase # "collect" => pending = << >>
  /\ phase = "collect" => definitions = << >> /\ level = 1
  /\ phase = "define" => level =< MaxOrder \/ level = 1
  /\ phase = "done" => level > MaxOrder

DefinitionsInv ==
  /\ \A i \in 1..Len(definitions) :
       LET d == definitions[i]
       IN  /\ <<d.exponents, d.feature>> \in seen
           /\ d.of = Lowered(d.exponents)
           /\ d.by = FirstNonzero(d.exponents)
  /\ \A k \in seen : Degree(k[1]) < level => k \in Defined

WorklistInvariant ==
  /\ TypeOK /\ PendingInv /\ SeenInv /\ OutputsInv /\ PhaseInv
  /\ DefinitionsInv /\ DefinedBeforeUsed /\ DefinedOnce
-----------------------------------------------------------------------------
(* A derivation of order above 0 has a first variable, and lowering it gives
   a derivation of one order less. *)
LEMMA FirstNonzeroIs ==
  ASSUME NEW e \in Exponents, ~IsZero(e)
  PROVE  /\ FirstNonzero(e) \in 1..Width
         /\ e[FirstNonzero(e)] # 0
         /\ \A j \in 1..FirstNonzero(e)-1 : e[j] = 0
<1> DEFINE P(i) == e[i] # 0 /\ \A j \in 1..i-1 : e[j] = 0
<1>1. \E i \in 1..Width : P(i)
  <2>1. 1..Width = {1, 2, 3, 4, 5, 6, 7, 8, 9}
    BY DEF Width
  <2>2. \E i \in {1, 2, 3, 4, 5, 6, 7, 8, 9} : e[i] # 0
    BY <2>1 DEF IsZero
  <2>3. CASE e[1] # 0
    BY <2>1, <2>3
  <2>4. CASE e[1] = 0 /\ e[2] # 0
    BY <2>1, <2>4
  <2>5. CASE e[1] = 0 /\ e[2] = 0 /\ e[3] # 0
    BY <2>1, <2>5
  <2>6. CASE e[1] = 0 /\ e[2] = 0 /\ e[3] = 0 /\ e[4] # 0
    BY <2>1, <2>6
  <2>7. CASE e[1] = 0 /\ e[2] = 0 /\ e[3] = 0 /\ e[4] = 0 /\ e[5] # 0
    BY <2>1, <2>7
  <2>8. CASE e[1] = 0 /\ e[2] = 0 /\ e[3] = 0 /\ e[4] = 0 /\ e[5] = 0
             /\ e[6] # 0
    BY <2>1, <2>8
  <2>9. CASE e[1] = 0 /\ e[2] = 0 /\ e[3] = 0 /\ e[4] = 0 /\ e[5] = 0
             /\ e[6] = 0 /\ e[7] # 0
    BY <2>1, <2>9
  <2>10. CASE e[1] = 0 /\ e[2] = 0 /\ e[3] = 0 /\ e[4] = 0 /\ e[5] = 0
              /\ e[6] = 0 /\ e[7] = 0 /\ e[8] # 0
    BY <2>1, <2>10
  <2>11. CASE e[1] = 0 /\ e[2] = 0 /\ e[3] = 0 /\ e[4] = 0 /\ e[5] = 0
              /\ e[6] = 0 /\ e[7] = 0 /\ e[8] = 0 /\ e[9] # 0
    BY <2>1, <2>11
  <2> QED
    BY <2>2, <2>3, <2>4, <2>5, <2>6, <2>7, <2>8, <2>9, <2>10, <2>11
<1> HIDE DEF P
<1>2. P(CHOOSE i \in 1..Width : P(i))
      /\ (CHOOSE i \in 1..Width : P(i)) \in 1..Width
  BY <1>1
<1>3. FirstNonzero(e) = CHOOSE i \in 1..Width : P(i)
  BY DEF P, FirstNonzero
<1> QED
  BY <1>2, <1>3 DEF P

(* The loop of the worklist, the loop that writes definitions and next() choose
   the same variable of a derivative. *)
LEMMA ChoicesAgree ==
  ASSUME NEW e \in Exponents, ~IsZero(e)
  PROVE  Pushed(e) = Lowered(e) /\ Differentiated(e) = Lowered(e)
<1> DEFINE m == FirstNonzero(e)
           Stops(i) == e[i] # 0 /\ \A j \in 1..i-1 : e[j] = 0
<1>1. m \in 1..Width /\ Stops(m)
  BY FirstNonzeroIs
<1>2. e = [j \in 1..Width |-> e[j]]
  BY DEF Exponents
<1>3. ASSUME NEW i \in 1..Width, Stops(i)
      PROVE  i = m
  <2>1. m \in Int /\ i \in Int /\ 1 =< m /\ 1 =< i
    BY <1>1 DEF Width
  <2>2. ~(m < i)
    BY <2>1, <1>1, <1>3
  <2>3. ~(i < m)
    BY <2>1, <1>1, <1>3
  <2> QED
    BY <2>1, <2>2, <2>3
<1>4. \A i \in 1..Width : Stops(i) <=> i = m
  BY <1>1, <1>3
<1>5. Lowered(e) = [i \in 1..Width |-> IF i = m THEN e[i] - 1 ELSE e[i]]
  BY <1>1, <1>2 DEF Lowered
<1>6. Pushed(e) = [i \in 1..Width |-> IF Stops(i) THEN e[i] - 1 ELSE e[i]]
  BY DEF Pushed
<1>7. Differentiated(e) = [i \in 1..Width |-> IF Stops(i) THEN e[i] - 1 ELSE e[i]]
  BY DEF Differentiated
<1> HIDE DEF Stops, m
<1> QED
  BY <1>4, <1>5, <1>6, <1>7

(* Differentiating once less keeps a vector a vector and lowers its degree by one. *)
LEMMA Lowering ==
  ASSUME NEW e \in Exponents, ~IsZero(e)
  PROVE  /\ Lowered(e) \in Exponents
         /\ Degree(e) \in Nat /\ Degree(e) > 0
         /\ Degree(Lowered(e)) = Degree(e) - 1
         /\ e = [Lowered(e) EXCEPT ![FirstNonzero(e)] = @ + 1]
         /\ \A j \in 1..Width : Lowered(e)[j] =< e[j]
<1> DEFINE m == FirstNonzero(e)
<1> DEFINE l == [e EXCEPT ![m] = @ - 1]
<1>1. m \in 1..Width /\ e[m] \in Nat /\ e[m] # 0
  BY FirstNonzeroIs DEF Exponents
<1>2. \A j \in 1..Width : e[j] \in Nat
  BY DEF Exponents
<1>3. DOMAIN e = 1..Width /\ e = [j \in 1..Width |-> e[j]]
  BY DEF Exponents
<1> HIDE DEF m
<1>4. l = [j \in 1..Width |-> IF j = m THEN e[m] - 1 ELSE e[j]]
  BY <1>1, <1>3
<1> HIDE DEF l
<1>5. l \in Exponents
  BY <1>1, <1>2, <1>4 DEF Exponents
<1>6. \A j \in 1..Width : l[j] = IF j = m THEN e[m] - 1 ELSE e[j]
  BY <1>4
<1>7. e = [l EXCEPT ![m] = @ + 1]
  <2>1. [l EXCEPT ![m] = @ + 1] =
          [j \in 1..Width |-> IF j = m THEN l[m] + 1 ELSE l[j]]
    BY <1>1, <1>4
  <2>2. l[m] + 1 = e[m]
    BY <1>1, <1>6
  <2>3. [j \in 1..Width |-> IF j = m THEN l[m] + 1 ELSE l[j]] =
          [j \in 1..Width |-> e[j]]
    BY <2>2, <1>6
  <2> QED
    BY <2>1, <2>3, <1>3
<1>8. Degree(l) = Degree(e) - 1 /\ Degree(e) \in Nat /\ Degree(e) > 0
  <2>1. 1..Width = {1, 2, 3, 4, 5, 6, 7, 8, 9}
    BY DEF Width
  <2>2. \A j \in {1, 2, 3, 4, 5, 6, 7, 8, 9} :
          e[j] \in Nat /\ l[j] = IF j = m THEN e[j] - 1 ELSE e[j]
    BY <2>1, <1>2, <1>6
  <2>3. m \in {1, 2, 3, 4, 5, 6, 7, 8, 9} /\ e[m] \in Nat /\ e[m] # 0
    BY <2>1, <1>1
  <2>4. \A x1, x2, x3, x4, x5, x6, x7, x8, x9 \in Nat :
          x1 + x2 + x3 + x4 + x5 + x6 + x7 + x8 + x9 \in Nat
    OBVIOUS
  <2>5. Degree(e) \in Nat
    BY <2>2, <2>4 DEF Degree
  <2>6. e[1] \in Nat /\ e[2] \in Nat /\ e[3] \in Nat /\ e[4] \in Nat
        /\ e[5] \in Nat /\ e[6] \in Nat /\ e[7] \in Nat /\ e[8] \in Nat
        /\ e[9] \in Nat
    BY <2>2
  <2>7. l[1] = (IF m = 1 THEN e[1] - 1 ELSE e[1])
        /\ l[2] = (IF m = 2 THEN e[2] - 1 ELSE e[2])
        /\ l[3] = (IF m = 3 THEN e[3] - 1 ELSE e[3])
        /\ l[4] = (IF m = 4 THEN e[4] - 1 ELSE e[4])
        /\ l[5] = (IF m = 5 THEN e[5] - 1 ELSE e[5])
        /\ l[6] = (IF m = 6 THEN e[6] - 1 ELSE e[6])
        /\ l[7] = (IF m = 7 THEN e[7] - 1 ELSE e[7])
        /\ l[8] = (IF m = 8 THEN e[8] - 1 ELSE e[8])
        /\ l[9] = (IF m = 9 THEN e[9] - 1 ELSE e[9])
    BY <2>2
  <2>8. m \in 1..9
    BY <2>3
  <2>9. e[m] \in Nat /\ e[m] > 0
    BY <1>1
  <2> SUFFICES Degree(l) = Degree(e) - 1 /\ Degree(e) > 0
    BY <2>5
  <2>10. CASE m = 1
    BY <2>6, <2>7, <2>9, <2>10, SMTT(20) DEF Degree
  <2>11. CASE m = 2
    BY <2>6, <2>7, <2>9, <2>11, SMTT(20) DEF Degree
  <2>12. CASE m = 3
    BY <2>6, <2>7, <2>9, <2>12, SMTT(20) DEF Degree
  <2>13. CASE m = 4
    BY <2>6, <2>7, <2>9, <2>13, SMTT(20) DEF Degree
  <2>14. CASE m = 5
    BY <2>6, <2>7, <2>9, <2>14, SMTT(20) DEF Degree
  <2>15. CASE m = 6
    BY <2>6, <2>7, <2>9, <2>15, SMTT(20) DEF Degree
  <2>16. CASE m = 7
    BY <2>6, <2>7, <2>9, <2>16, SMTT(20) DEF Degree
  <2>17. CASE m = 8
    BY <2>6, <2>7, <2>9, <2>17, SMTT(20) DEF Degree
  <2>18. CASE m = 9
    BY <2>6, <2>7, <2>9, <2>18, SMTT(20) DEF Degree
  <2> QED
    BY <2>8, <2>10, <2>11, <2>12, <2>13, <2>14, <2>15, <2>16, <2>17, <2>18
<1>9. \A j \in 1..Width : l[j] =< e[j]
  BY <1>1, <1>2, <1>6
<1>10. Lowered(e) = l
  BY DEF Lowered, l, m
<1> QED
  BY <1>5, <1>7, <1>8, <1>9, <1>10 DEF m

(* The degree of a vector of exponents is a natural number. *)
LEMMA DegreeIsNat ==
  ASSUME NEW e \in Exponents
  PROVE  Degree(e) \in Nat
<1>1. 1..Width = {1, 2, 3, 4, 5, 6, 7, 8, 9}
  BY DEF Width
<1>2. \A j \in {1, 2, 3, 4, 5, 6, 7, 8, 9} : e[j] \in Nat
  BY <1>1 DEF Exponents
<1>3. \A x1, x2, x3, x4, x5, x6, x7, x8, x9 \in Nat :
        x1 + x2 + x3 + x4 + x5 + x6 + x7 + x8 + x9 \in Nat
  OBVIOUS
<1> QED
  BY <1>2, <1>3 DEF Degree
-----------------------------------------------------------------------------
(* The stack is its rest with its top at the end. *)
LEMMA StackParts ==
  ASSUME pending \in Seq(Keys), pending # << >>
  PROVE  /\ Rest \in Seq(Keys)
         /\ Len(pending) \in Nat /\ Len(pending) > 0
         /\ Len(Rest) = Len(pending) - 1
         /\ \A i \in 1..Len(Rest) : Rest[i] = pending[i]
         /\ Top \in Keys
<1>1. Len(pending) \in Nat /\ Len(pending) > 0
  OBVIOUS
<1>2. Len(pending) \in 1..Len(pending)
  BY <1>1
<1>3. Top \in Keys
  BY <1>2 DEF Top
<1>4. /\ Rest \in Seq(Keys)
      /\ Len(Rest) = Len(pending) - 1
      /\ \A i \in 1..Len(Rest) : Rest[i] = pending[i]
  <2>1. PICK n : n = Len(pending) - 1
    OBVIOUS
  <2>2. n \in Nat /\ n =< Len(pending) /\ Rest = SubSeq(pending, 1, n)
    BY <1>1, <2>1 DEF Rest
  <2>3. Rest \in Seq(Keys) /\ Len(Rest) = n
    BY <2>2, <1>1, SubSeqProperties
  <2>4. \A i \in 1..n : Rest[i] = pending[i]
    BY <2>2, <1>1, SubSeqProperties
  <2> QED
    BY <2>1, <2>3, <2>4
<1> QED
  BY <1>1, <1>3, <1>4

(* The invariant holds when the generator starts on a batch. *)
LEMMA DefinitionsStart == DefinitionsInit => WorklistInvariant
<1> SUFFICES ASSUME DefinitionsInit PROVE WorklistInvariant
  OBVIOUS
<1> USE BatchAssumption DEF DefinitionsInit
<1>1. batch \in Seq(Keys) /\ \A i \in 1..Len(batch) : Degree(batch[i][1]) =< MaxOrder
  OBVIOUS
<1>2. TypeOK
  BY <1>1 DEF TypeOK
<1>3. \A i \in 1..Len(batch) : batch[i][1] \in Exponents
  BY <1>1 DEF Keys
<1>4. PendingInv
  <2>1. \A i \in 1..Len(batch) : \A j \in 1..Width :
          batch[i][1][j] =< batch[i][1][j]
    <3>1. \A i \in 1..Len(batch) : \A j \in 1..Width : batch[i][1][j] \in Nat
      BY <1>3 DEF Exponents
    <3>2. \A x \in Nat : x =< x
      OBVIOUS
    <3> QED
      BY <3>1, <3>2
  <2> QED
    BY <1>1, <2>1 DEF PendingInv, Wanted
<1>5. SeenInv /\ OutputsInv /\ PhaseInv
  BY DEF SeenInv, OutputsInv, PhaseInv, Waiting
<1>6. DefinitionsInv /\ DefinedBeforeUsed /\ DefinedOnce
  BY DEF DefinitionsInv, DefinedBeforeUsed, DefinedOnce
<1> QED
  BY <1>2, <1>4, <1>5, <1>6 DEF WorklistInvariant

(* Taking a key off the stack that is zero or known already. *)
LEMMA SkipStep == WorklistInvariant /\ SkipKey => WorklistInvariant'
<1> SUFFICES ASSUME WorklistInvariant, SkipKey PROVE WorklistInvariant'
  OBVIOUS
<1> USE DEF WorklistInvariant
<1>1. /\ pending \in Seq(Keys) /\ pending # << >> /\ pending' = Rest
      /\ Top \in seen \/ IsZero(Top[1])
      /\ UNCHANGED <<batch, phase, seen, level, definitions>>
      /\ phase = "collect"
  BY DEF SkipKey, TypeOK
<1>2. TypeOK'
  BY <1>1, StackParts DEF TypeOK
<1>3. PendingInv'
  <2>1. \A k : Wanted(k)' <=> Wanted(k)
    BY <1>1 DEF Wanted
  <2> SUFFICES ASSUME NEW i \in 1..Len(pending')
               PROVE  Degree(pending'[i][1]) =< MaxOrder /\ Wanted(pending'[i])
    BY <2>1 DEF PendingInv
  <2>2. i \in 1..Len(pending) /\ pending'[i] = pending[i]
    BY <1>1, StackParts
  <2> QED
    BY <2>2 DEF PendingInv
<1>4. \A k : Waiting(k) => Waiting(k)' \/ k = Top
  <2> SUFFICES ASSUME NEW k, NEW i \in 1..Len(pending), pending[i] = k, k # Top
               PROVE  Waiting(k)'
    BY DEF Waiting
  <2>1. i \in 1..Len(Rest)
    BY <1>1, StackParts DEF Top
  <2> QED
    BY <2>1, <1>1, StackParts DEF Waiting
<1>5. SeenInv'
  <2> SUFFICES ASSUME NEW k \in seen
               PROVE  /\ ~IsZero(k[1]) /\ Degree(k[1]) =< MaxOrder /\ Wanted(k)'
                      /\ \/ IsZero(Lowered(k[1]))
                         \/ <<Lowered(k[1]), k[2]>> \in seen
                         \/ Waiting(<<Lowered(k[1]), k[2]>>)'
    BY <1>1 DEF SeenInv
  <2>1. Wanted(k)' <=> Wanted(k)
    BY <1>1 DEF Wanted
  <2>2. <<Lowered(k[1]), k[2]>>[1] = Lowered(k[1])
    OBVIOUS
  <2>3. CASE Waiting(<<Lowered(k[1]), k[2]>>)
             /\ <<Lowered(k[1]), k[2]>> = Top
    BY <1>1, <2>1, <2>2, <2>3 DEF SeenInv
  <2> QED
    BY <1>4, <2>1, <2>3 DEF SeenInv
<1>6. OutputsInv'
  BY <1>1, <1>4 DEF OutputsInv
<1>7. PhaseInv' /\ DefinitionsInv' /\ DefinedBeforeUsed' /\ DefinedOnce'
  BY <1>1 DEF PhaseInv, DefinitionsInv, DefinedBeforeUsed, DefinedOnce, Defined
<1> QED
  BY <1>2, <1>3, <1>5, <1>6, <1>7

(* A key is collected; what it is derived from goes on the stack. *)
LEMMA VisitStep == WorklistInvariant /\ VisitKey => WorklistInvariant'
<1> SUFFICES ASSUME WorklistInvariant, VisitKey PROVE WorklistInvariant'
  OBVIOUS
<1> USE DEF WorklistInvariant
<1>0. PICK e, low : e = Top[1] /\ low = <<Lowered(e), Top[2]>>
  OBVIOUS
<1>taken. /\ pending \in Seq(Keys) /\ pending # << >> /\ phase = "collect"
          /\ seen' = seen \cup {Top} /\ ~IsZero(e)
          /\ pending' = IF IsZero(Pushed(e)) THEN Rest
                        ELSE Append(Rest, <<Pushed(e), Top[2]>>)
          /\ UNCHANGED <<batch, phase, level, definitions>>
  BY <1>0 DEF VisitKey, TypeOK
<1>2. Top \in Keys /\ e \in Exponents /\ Top[2] \in Nat /\ Top = <<e, Top[2]>>
  BY <1>0, <1>taken, StackParts DEF Keys
<1>same. Pushed(e) = Lowered(e)
  BY <1>taken, <1>2, ChoicesAgree
<1>1. /\ pending \in Seq(Keys) /\ pending # << >> /\ phase = "collect"
      /\ seen' = seen \cup {Top} /\ ~IsZero(e)
      /\ pending' = IF IsZero(Lowered(e)) THEN Rest ELSE Append(Rest, low)
      /\ UNCHANGED <<batch, phase, level, definitions>>
  BY <1>0, <1>taken, <1>same
<1>3. /\ Lowered(e) \in Exponents /\ Degree(e) \in Nat /\ Degree(e) > 0
      /\ Degree(Lowered(e)) = Degree(e) - 1
      /\ \A j \in 1..Width : Lowered(e)[j] =< e[j]
  BY <1>1, <1>2, Lowering
<1>4. low \in Keys /\ low[1] = Lowered(e) /\ low[2] = Top[2]
  BY <1>0, <1>2, <1>3 DEF Keys
<1>5. Degree(e) =< MaxOrder /\ Wanted(Top)
  BY <1>0, <1>1, StackParts DEF PendingInv, Top
<1>6. Degree(low[1]) =< MaxOrder
  BY <1>3, <1>4, <1>5, BatchAssumption
<1>7. Wanted(low)
  <2>1. PICK i \in 1..Len(batch) :
          Top[2] = batch[i][2] /\ \A j \in 1..Width : e[j] =< batch[i][1][j]
    BY <1>0, <1>5 DEF Wanted
  <2>2. batch[i][1] \in Exponents
    BY <2>1 DEF TypeOK, Keys
  <2>3. \A j \in 1..Width : Lowered(e)[j] =< batch[i][1][j]
    <3>1. \A j \in 1..Width :
            Lowered(e)[j] \in Nat /\ e[j] \in Nat /\ batch[i][1][j] \in Nat
      BY <1>2, <1>3, <2>2 DEF Exponents
    <3> QED
      BY <1>3, <2>1, <3>1
  <2> QED
    BY <1>4, <2>1, <2>3 DEF Wanted
<1>8. Rest \in Seq(Keys) /\ Len(Rest) = Len(pending) - 1
      /\ \A i \in 1..Len(Rest) : Rest[i] = pending[i]
  BY <1>1, StackParts
<1>9. /\ pending' \in Seq(Keys)
      /\ \A i \in 1..Len(pending') :
           (i \in 1..Len(Rest) /\ pending'[i] = Rest[i]) \/ pending'[i] = low
      /\ \A i \in 1..Len(Rest) : i \in 1..Len(pending') /\ pending'[i] = Rest[i]
      /\ IsZero(Lowered(e)) \/ \E i \in 1..Len(pending') : pending'[i] = low
  <2>1. CASE IsZero(Lowered(e))
    BY <1>1, <1>8, <2>1
  <2>2. CASE ~IsZero(Lowered(e))
    <3>1. pending' = Append(Rest, low)
      BY <1>1, <2>2
    <3>2. /\ pending' \in Seq(Keys) /\ Len(pending') = Len(Rest) + 1
          /\ \A i \in 1..Len(Rest) : pending'[i] = Rest[i]
          /\ pending'[Len(Rest) + 1] = low /\ Len(Rest) \in Nat
      BY <3>1, <1>4, <1>8
    <3>3. \A i \in 1..Len(pending') : i \in 1..Len(Rest) \/ i = Len(Rest) + 1
      BY <3>2
    <3>4. \A i \in 1..Len(Rest) : i \in 1..Len(pending')
      BY <3>2
    <3>5. Len(Rest) + 1 \in 1..Len(pending')
      BY <3>2
    <3> QED
      BY <3>2, <3>3, <3>4, <3>5
  <2> QED
    BY <2>1, <2>2
<1>10. TypeOK'
  BY <1>1, <1>2, <1>9 DEF TypeOK
<1>11. \A k : Wanted(k)' <=> Wanted(k)
  BY <1>1 DEF Wanted
<1>12. PendingInv'
  <2> SUFFICES ASSUME NEW i \in 1..Len(pending')
               PROVE  Degree(pending'[i][1]) =< MaxOrder /\ Wanted(pending'[i])
    BY <1>11 DEF PendingInv
  <2>1. CASE pending'[i] = low
    BY <1>6, <1>7, <2>1
  <2>2. CASE i \in 1..Len(Rest) /\ pending'[i] = Rest[i]
    BY <1>1, <1>8, <2>2, StackParts DEF PendingInv
  <2> QED
    BY <1>9, <2>1, <2>2
<1>13. \A k : Waiting(k) => Waiting(k)' \/ k = Top
  <2> SUFFICES ASSUME NEW k, NEW i \in 1..Len(pending), pending[i] = k, k # Top
               PROVE  Waiting(k)'
    BY DEF Waiting
  <2>1. i \in 1..Len(Rest)
    BY <1>1, <1>8, StackParts DEF Top
  <2> QED
    BY <2>1, <1>8, <1>9 DEF Waiting
<1>14. SeenInv'
  <2> SUFFICES ASSUME NEW k \in seen'
               PROVE  /\ ~IsZero(k[1]) /\ Degree(k[1]) =< MaxOrder /\ Wanted(k)
                      /\ \/ IsZero(Lowered(k[1]))
                         \/ <<Lowered(k[1]), k[2]>> \in seen'
                         \/ Waiting(<<Lowered(k[1]), k[2]>>)'
    BY <1>11 DEF SeenInv
  <2>1. CASE k = Top
    <3>1. IsZero(Lowered(e)) \/ Waiting(low)'
      BY <1>9 DEF Waiting
    <3> QED
      BY <1>0, <1>1, <1>5, <2>1, <3>1
  <2>2. CASE k \in seen
    BY <1>1, <1>13, <2>2 DEF SeenInv
  <2> QED
    BY <1>1, <2>1, <2>2
<1>15. OutputsInv'
  BY <1>1, <1>13 DEF OutputsInv
<1>16. PhaseInv'
  BY <1>1 DEF PhaseInv
<1>17. DefinitionsInv' /\ DefinedBeforeUsed' /\ DefinedOnce'
  <2>1. definitions' = << >> /\ level' = 1
    BY <1>1 DEF PhaseInv
  <2>2. \A k \in seen' : ~(Degree(k[1]) < 1)
    <3> SUFFICES ASSUME NEW k \in seen' PROVE ~(Degree(k[1]) < 1)
      OBVIOUS
    <3>1. k[1] \in Exponents
      BY <1>10 DEF TypeOK, Keys
    <3>2. ~IsZero(k[1])
      BY <1>14 DEF SeenInv
    <3> QED
      BY <3>1, <3>2, Lowering
  <2> QED
    BY <2>1, <2>2 DEF DefinitionsInv, DefinedBeforeUsed, DefinedOnce
<1> QED
  BY <1>10, <1>12, <1>14, <1>15, <1>16, <1>17

(* Leaving the worklist loop keeps the invariant: nothing is pending. *)
LEMMA CollectedStep == WorklistInvariant /\ KeysCollected => WorklistInvariant'
<1> SUFFICES ASSUME WorklistInvariant, KeysCollected PROVE WorklistInvariant'
  OBVIOUS
<1> USE DEF WorklistInvariant, KeysCollected
<1>1. TypeOK' /\ PendingInv'
  BY DEF TypeOK, PendingInv, Wanted
<1>2. SeenInv' /\ OutputsInv'
  BY DEF SeenInv, OutputsInv, Waiting, Wanted
<1>3. PhaseInv'
  BY DEF PhaseInv
<1>4. DefinitionsInv' /\ DefinedBeforeUsed' /\ DefinedOnce'
  BY DEF DefinitionsInv, DefinedBeforeUsed, DefinedOnce, Defined
<1> QED
  BY <1>1, <1>2, <1>3, <1>4

(* One more definition: what it refers to is of one order less, and all of
   those are written. *)
LEMMA DefineStep == WorklistInvariant /\ Define => WorklistInvariant'
<1> SUFFICES ASSUME WorklistInvariant, Define PROVE WorklistInvariant'
  OBVIOUS
<1> USE DEF WorklistInvariant
<1>written. PICK k \in Needed(level) \ Defined :
        definitions' = Append(definitions,
          [exponents |-> k[1], feature |-> k[2],
           of |-> Differentiated(k[1]), by |-> FirstNonzero(k[1])])
  BY DEF Define
<1>4. k \in seen /\ Degree(k[1]) = level /\ ~IsZero(k[1])
  BY DEF Needed, SeenInv
<1>5. k[1] \in Exponents /\ k[2] \in Nat /\ k = <<k[1], k[2]>>
  BY <1>4 DEF TypeOK, Keys
<1>1. definitions' = Append(definitions,
        [exponents |-> k[1], feature |-> k[2],
         of |-> Lowered(k[1]), by |-> FirstNonzero(k[1])])
  BY <1>written, <1>4, <1>5, ChoicesAgree
<1>2. phase = "define" /\ UNCHANGED <<batch, phase, pending, seen, level>>
  BY DEF Define
<1>3. PICK d : d = [exponents |-> k[1], feature |-> k[2],
                    of |-> Lowered(k[1]), by |-> FirstNonzero(k[1])]
  OBVIOUS
<1>6. /\ Lowered(k[1]) \in Exponents
      /\ Degree(Lowered(k[1])) = level - 1
  BY <1>4, <1>5, Lowering
<1>7. FirstNonzero(k[1]) \in 1..Width
  BY <1>4, <1>5, FirstNonzeroIs
<1>8. d \in Definitions
  BY <1>3, <1>5, <1>6, <1>7 DEF Definitions
<1>9. definitions \in Seq(Definitions) /\ level \in Nat
  BY BatchAssumption DEF TypeOK
<1>10. PICK n \in Nat : n = Len(definitions)
  BY <1>9
<1>11. /\ definitions' \in Seq(Definitions) /\ Len(definitions') = n + 1
       /\ \A i \in 1..n : definitions'[i] = definitions[i]
       /\ definitions'[n + 1] = d
  BY <1>1, <1>3, <1>8, <1>9, <1>10
<1>12. /\ DOMAIN definitions = 1..n /\ DOMAIN definitions' = 1..n+1
       /\ \A i \in 1..n+1 : i \in 1..n \/ i = n + 1
       /\ \A i \in 1..n : i \in 1..n+1
       /\ n + 1 \in 1..n+1
  BY <1>9, <1>10, <1>11
<1>13. TypeOK'
  BY <1>2, <1>11 DEF TypeOK
<1>14. PendingInv' /\ SeenInv' /\ OutputsInv' /\ PhaseInv'
  BY <1>2 DEF PendingInv, SeenInv, OutputsInv, PhaseInv, Waiting, Wanted
<1>15. Defined' = Defined \cup {k}
  BY <1>3, <1>5, <1>11, <1>12, SMTT(30) DEF Defined
<1>16. DefinitionsInv'
  <2>1. \A i \in 1..n+1 :
          /\ <<definitions'[i].exponents, definitions'[i].feature>> \in seen
          /\ definitions'[i].of = Lowered(definitions'[i].exponents)
          /\ definitions'[i].by = FirstNonzero(definitions'[i].exponents)
    <3> SUFFICES ASSUME NEW i \in 1..n+1
                 PROVE /\ <<definitions'[i].exponents, definitions'[i].feature>> \in seen
                       /\ definitions'[i].of = Lowered(definitions'[i].exponents)
                       /\ definitions'[i].by = FirstNonzero(definitions'[i].exponents)
      OBVIOUS
    <3>1. CASE i \in 1..n
      BY <3>1, <1>10, <1>11 DEF DefinitionsInv
    <3>2. CASE i = n + 1
      BY <3>2, <1>3, <1>4, <1>5, <1>11
    <3> QED
      BY <3>1, <3>2, <1>12
  <2>2. \A l \in seen : Degree(l[1]) < level => l \in Defined'
    BY <1>15 DEF DefinitionsInv
  <2> QED
    BY <2>1, <2>2, <1>2, <1>11 DEF DefinitionsInv
<1>17. DefinedBeforeUsed'
  <2> SUFFICES ASSUME NEW i \in 1..n+1
               PROVE  \/ IsZero(definitions'[i].of)
                      \/ \E j \in 1..i-1 :
                           /\ definitions'[j].exponents = definitions'[i].of
                           /\ definitions'[j].feature = definitions'[i].feature
    BY <1>12 DEF DefinedBeforeUsed
  <2>1. CASE i \in 1..n
    <3>1. \A j \in 1..i-1 : definitions'[j] = definitions[j]
      BY <2>1, <1>11
    <3> QED
      BY <2>1, <3>1, <1>11, <1>12 DEF DefinedBeforeUsed
  <2>2. CASE i = n + 1 /\ ~IsZero(Lowered(k[1]))
    <3>1. <<Lowered(k[1]), k[2]>> \in seen
      BY <1>2, <1>4, <2>2 DEF SeenInv, PhaseInv, Waiting
    <3>2. Degree(<<Lowered(k[1]), k[2]>>[1]) < level
      BY <1>6, <1>9
    <3>3. <<Lowered(k[1]), k[2]>> \in Defined
      BY <3>1, <3>2 DEF DefinitionsInv
    <3>4. PICK j \in 1..n : /\ definitions[j].exponents = Lowered(k[1])
                            /\ definitions[j].feature = k[2]
      BY <3>3, <1>12 DEF Defined
    <3>5. j \in 1..i-1 /\ definitions'[j] = definitions[j]
      BY <3>4, <2>2, <1>11
    <3>6. definitions'[i].of = Lowered(k[1]) /\ definitions'[i].feature = k[2]
      BY <2>2, <1>3, <1>11
    <3> QED
      BY <3>4, <3>5, <3>6
  <2>3. CASE i = n + 1 /\ IsZero(Lowered(k[1]))
    BY <2>3, <1>3, <1>11
  <2> QED
    BY <2>1, <2>2, <2>3, <1>12
<1>18. DefinedOnce'
  <2> SUFFICES ASSUME NEW i \in 1..n+1, NEW j \in 1..n+1,
                      definitions'[i].exponents = definitions'[j].exponents,
                      definitions'[i].feature = definitions'[j].feature
               PROVE  i = j
    BY <1>12 DEF DefinedOnce
  <2>1. CASE i \in 1..n /\ j \in 1..n
    BY <2>1, <1>11, <1>12 DEF DefinedOnce
  <2>2. \A m \in 1..n : ~(definitions[m].exponents = k[1]
                          /\ definitions[m].feature = k[2])
    BY <1>1, <1>5, <1>12 DEF Defined
  <2>3. definitions'[n + 1].exponents = k[1] /\ definitions'[n + 1].feature = k[2]
    BY <1>3, <1>11
  <2> QED
    BY <2>1, <2>2, <2>3, <1>11, <1>12
<1> QED
  BY <1>13, <1>14, <1>16, <1>17, <1>18

(* The next order is begun when all definitions of this one are written. *)
LEMMA LevelStep == WorklistInvariant /\ NextLevel => WorklistInvariant'
<1> SUFFICES ASSUME WorklistInvariant, NextLevel PROVE WorklistInvariant'
  OBVIOUS
<1> USE BatchAssumption DEF WorklistInvariant
<1>1. /\ phase = "define" /\ level' = level + 1 /\ level \in Nat
      /\ level =< MaxOrder => Needed(level) \subseteq Defined
      /\ phase' = IF level >= MaxOrder THEN "done" ELSE "define"
      /\ UNCHANGED <<batch, pending, seen, definitions>>
  BY DEF NextLevel, TypeOK
<1>2. PhaseInv' /\ TypeOK'
  BY <1>1 DEF PhaseInv, TypeOK
<1>3. PendingInv' /\ SeenInv' /\ OutputsInv'
  BY <1>1 DEF PendingInv, SeenInv, OutputsInv, Waiting, Wanted
<1>4. DefinedBeforeUsed' /\ DefinedOnce'
  BY <1>1 DEF DefinedBeforeUsed, DefinedOnce
<1>5. DefinitionsInv'
  <2>1. Defined' = Defined
    BY <1>1 DEF Defined
  <2> SUFFICES ASSUME NEW k \in seen, Degree(k[1]) < level + 1
               PROVE  k \in Defined
    BY <1>1, <2>1 DEF DefinitionsInv
  <2>2. Degree(k[1]) \in Nat
    BY DegreeIsNat DEF TypeOK, Keys
  <2>3. Degree(k[1]) =< MaxOrder
    BY DEF SeenInv
  <2>4. CASE Degree(k[1]) = level
    BY <2>3, <2>4, <1>1 DEF Needed
  <2> QED
    BY <2>2, <2>4, <1>1 DEF DefinitionsInv
<1> QED
  BY <1>2, <1>3, <1>4, <1>5

(* The invariant of the worklist and of the definitions holds in every
   reachable state; the theorems below read their properties off it. *)
THEOREM DefinitionsKept == DefinitionsSpec => []WorklistInvariant
<1>1. WorklistInvariant /\ [DefinitionsNext]_definitionsVars => WorklistInvariant'
  <2>1. ASSUME WorklistInvariant, UNCHANGED definitionsVars PROVE WorklistInvariant'
    <3> USE DEF WorklistInvariant, definitionsVars
    <3>1. TypeOK' /\ PendingInv' /\ PhaseInv'
      BY <2>1 DEF TypeOK, PendingInv, PhaseInv, Wanted
    <3>2. SeenInv' /\ OutputsInv'
      BY <2>1 DEF SeenInv, OutputsInv, Waiting, Wanted
    <3>3. DefinitionsInv' /\ DefinedBeforeUsed' /\ DefinedOnce'
      BY <2>1 DEF DefinitionsInv, DefinedBeforeUsed, DefinedOnce, Defined
    <3> QED
      BY <3>1, <3>2, <3>3
  <2> QED
    BY <2>1, SkipStep, VisitStep, CollectedStep, DefineStep, LevelStep DEF DefinitionsNext
<1> QED
  BY <1>1, DefinitionsStart, PTL DEF DefinitionsSpec
-----------------------------------------------------------------------------
(* The variables of the worklist keep their types: no exponent ever becomes
   negative and the level stays in range. *)
THEOREM BatchTypeCorrect == DefinitionsSpec => []TypeOK
<1>1. WorklistInvariant => TypeOK
  BY DEF WorklistInvariant
<1> QED
  BY <1>1, DefinitionsKept, PTL

(* No definition refers to one that is missing or comes after it. *)
THEOREM UsesAreDefined == DefinitionsSpec => []DefinedBeforeUsed
<1>1. WorklistInvariant => DefinedBeforeUsed
  BY DEF WorklistInvariant
<1> QED
  BY <1>1, DefinitionsKept, PTL

(* No name is defined twice. *)
THEOREM NamesAreUnique == DefinitionsSpec => []DefinedOnce
<1>1. WorklistInvariant => DefinedOnce
  BY DEF WorklistInvariant
<1> QED
  BY <1>1, DefinitionsKept, PTL

(* Every definition is the derivative it is named for. *)
THEOREM NamesAreRight == DefinitionsSpec => []DefinitionIsDerivative
<1>1. WorklistInvariant => DefinitionIsDerivative
  <2> SUFFICES ASSUME WorklistInvariant, NEW i \in DOMAIN definitions
               PROVE  definitions[i].exponents =
                        [definitions[i].of EXCEPT ![definitions[i].by] = @ + 1]
    BY DEF DefinitionIsDerivative
  <2>1. definitions[i] \in Definitions /\ i \in 1..Len(definitions)
    BY DEF WorklistInvariant, TypeOK
  <2>2. PICK e \in Exponents : e = definitions[i].exponents
    BY <2>1 DEF Definitions
  <2>3. /\ <<e, definitions[i].feature>> \in seen
        /\ definitions[i].of = Lowered(e) /\ definitions[i].by = FirstNonzero(e)
    BY <2>1, <2>2 DEF WorklistInvariant, DefinitionsInv
  <2>4. ~IsZero(e)
    BY <2>3 DEF WorklistInvariant, SeenInv
  <2> QED
    BY <2>2, <2>3, <2>4, Lowering
<1> QED
  BY <1>1, DefinitionsKept, PTL

(* A finished batch has a definition for every output of it. *)
THEOREM EveryOutputIsDefined == DefinitionsSpec => []OutputsDefined
<1>1. WorklistInvariant => OutputsDefined
  <2> SUFFICES ASSUME WorklistInvariant, phase = "done", NEW i \in DOMAIN batch,
                      ~IsZero(batch[i][1])
               PROVE  batch[i] \in Defined
    BY DEF OutputsDefined
  <2>1. i \in 1..Len(batch) /\ pending = << >> /\ level > MaxOrder
    BY DEF WorklistInvariant, TypeOK, PhaseInv
  <2>2. batch[i] \in seen
    BY <2>1 DEF WorklistInvariant, OutputsInv, Waiting
  <2>3. Degree(batch[i][1]) =< MaxOrder /\ Degree(batch[i][1]) \in Nat
    BY <2>2, DegreeIsNat DEF WorklistInvariant, SeenInv, TypeOK, Keys
  <2>4. Degree(batch[i][1]) < level
    BY <2>1, <2>3, BatchAssumption DEF WorklistInvariant, TypeOK
  <2> QED
    BY <2>2, <2>4 DEF WorklistInvariant, DefinitionsInv
<1> QED
  BY <1>1, DefinitionsKept, PTL

(* Nothing is defined that the batch has no use for. *)
THEOREM NothingExtraDefined == DefinitionsSpec => []OnlyNeeded
<1>1. WorklistInvariant => OnlyNeeded
  <2> SUFFICES ASSUME WorklistInvariant, NEW k \in Defined PROVE Wanted(k)
    <3>1. WorklistInvariant => DOMAIN batch = 1..Len(batch)
      BY DEF WorklistInvariant, TypeOK
    <3>2. DOMAIN batch = 1..Len(batch) /\ (\A k \in Defined : Wanted(k)) => OnlyNeeded
      BY DEF OnlyNeeded, Wanted
    <3> QED
      BY <3>1, <3>2
  <2>1. PICK i \in DOMAIN definitions :
          k = <<definitions[i].exponents, definitions[i].feature>>
    BY DEF Defined
  <2>2. i \in 1..Len(definitions)
    BY DEF WorklistInvariant, TypeOK
  <2>3. k \in seen
    BY <2>1, <2>2 DEF WorklistInvariant, DefinitionsInv
  <2> QED
    BY <2>3 DEF WorklistInvariant, SeenInv
<1> QED
  BY <1>1, DefinitionsKept, PTL

(* Whatever the batch, its definitions are in an order in which Maple can use
   them, and each is what its name says. *)
THEOREM DefinitionsAreSound == DefinitionsSpec => []WellDefined
BY UsesAreDefined, NamesAreRight, NamesAreUnique, PTL DEF WellDefined

(* Whatever the batch, exactly what its outputs need is defined. *)
THEOREM ExactlyTheNeeded == DefinitionsSpec => []ExactlyNeeded
BY EveryOutputIsDefined, NothingExtraDefined, PTL DEF ExactlyNeeded
-----------------------------------------------------------------------------
(* OutputBlocks: with every plan the generator makes, the outputs of an order
   follow one another and end with the one the loop looks for. Then every output
   read so far is in one block or pending. *)

(* Every stage of a flattening is a list of the same elements. *)
LEMMA StagesAreLists ==
  ASSUME NEW E, NEW ss \in Seq(Seq(E)), NEW flat, IsFlattening(flat, ss)
  PROVE  \A m \in 1..Len(ss) : flat[m] \in Seq(E)
<1>. DEFINE N == Len(ss)
            S == {k \in Nat : k + 1 =< N => flat[k+1] \in Seq(E)}
<1>1. N \in Nat /\ \A i \in 1..N : ss[i] \in Seq(E)
  OBVIOUS
<1>2. 0 \in S
  BY <1>1 DEF IsFlattening
<1>3. ASSUME NEW k \in Nat, k \in S PROVE k + 1 \in S
  <2>1. SUFFICES ASSUME (k + 1) + 1 =< N PROVE flat[(k+1)+1] \in Seq(E)
    OBVIOUS
  <2>. DEFINE m == k + 1
  <2>2. m + 1 \in 2..N /\ m + 1 \in 1..N /\ (m + 1) - 1 = m
    BY <1>1, <2>1
  <2>3. flat[m] \in Seq(E)
    BY <1>1, <1>3, <2>1
  <2>4. flat[m+1] = flat[m] \o ss[m+1]
    BY <2>2 DEF IsFlattening
  <2>5. QED
    BY <1>1, <2>2, <2>3, <2>4
<1>4. \A k \in Nat : k \in S
  <2>. HIDE DEF S
  <2>1. QED
    BY <1>2, <1>3, SetInduction
<1>5. ASSUME NEW m \in 1..N PROVE flat[m] \in Seq(E)
  <2>1. m - 1 \in Nat /\ (m - 1) + 1 = m /\ m =< N
    BY <1>1
  <2>2. m - 1 \in S
    BY <1>4, <2>1
  <2>3. QED
    BY <2>1, <2>2
<1>6. QED
  BY <1>5

(* The last element of a flattened list is that of the last list. *)
LEMMA LastFlattened ==
  ASSUME NEW E, NEW ss \in Seq(Seq(E)), ss # << >>, Last(ss) # << >>
  PROVE  /\ FlattenSeq(ss) \in Seq(E) /\ FlattenSeq(ss) # << >>
         /\ Last(FlattenSeq(ss)) = Last(Last(ss))
<1>. DEFINE N == Len(ss)
<1>1. N \in Nat \ {0} /\ N \in 1..N /\ ss[N] \in Seq(E) /\ ss[N] # << >> /\ Last(ss) = ss[N]
  BY DEF Last
<1>2. PICK flat : IsFlattening(flat, ss) /\ FlattenSeq(ss) = flat[N]
  BY <1>1, FlattenSteps
<1>3. \A m \in 1..N : flat[m] \in Seq(E)
  BY <1>2, StagesAreLists
<1>4. CASE N = 1
  <2>1. flat[N] = ss[N]
    BY <1>2, <1>4 DEF IsFlattening
  <2>2. QED
    BY <1>1, <1>2, <2>1
<1>5. CASE N # 1
  <2>. DEFINE s == flat[N-1]
              t == ss[N]
  <2>1. N \in 2..N /\ N - 1 \in 1..N
    <3>. HIDE DEF N
    <3>1. QED
      BY <1>1, <1>5
  <2>2. flat[N] = s \o t /\ s \in Seq(E)
    BY <1>2, <1>3, <2>1 DEF IsFlattening
  <2>. HIDE DEF s
  <2>3. t \in Seq(E) /\ t # << >>
    BY <1>1
  <2>. HIDE DEF t, N
  <2>4. /\ s \o t \in Seq(E) /\ s \o t # << >>
        /\ (s \o t)[Len(s \o t)] = t[Len(t)]
    <3>1. Len(t) \in Nat \ {0} /\ Len(s) \in Nat /\ Len(s \o t) = Len(s) + Len(t)
      BY <2>2, <2>3
    <3>2. QED
      BY <2>2, <2>3, <3>1
  <2>5. QED
    BY <1>1, <1>2, <2>2, <2>4 DEF Last, t
<1>6. QED
  BY <1>4, <1>5

(* One list more at the end is appended. *)
LEMMA FlattenedAppend ==
  ASSUME NEW E, NEW ss \in Seq(Seq(E)), NEW s \in Seq(E)
  PROVE  /\ FlattenSeq(ss) \in Seq(E)
         /\ FlattenSeq(Append(ss, s)) = FlattenSeq(ss) \o s
<1>. DEFINE N == Len(ss)
            tt == Append(ss, s)
<1>1. /\ N \in Nat /\ DOMAIN ss = 1..N /\ \A i \in 1..N : ss[i] \in Seq(E)
      /\ tt \in Seq(Seq(E)) /\ Len(tt) = N + 1
      /\ tt[N+1] = s /\ \A i \in 1..N : tt[i] = ss[i]
  OBVIOUS
<1>. HIDE DEF tt
<1>2. PICK g : IsFlattening(g, tt) /\ FlattenSeq(tt) = g[N+1]
  <2>1. Len(tt) \in Nat \ {0}
    BY <1>1
  <2>2. QED
    BY <1>1, <2>1, FlattenSteps
<1>3. CASE N = 0
  <2>1. FlattenSeq(ss) = ss
    BY <1>3 DEF FlattenSeq
  <2>2. ss = << >>
    BY <1>3
  <2>3. FlattenSeq(tt) = s
    BY <1>1, <1>2, <1>3 DEF IsFlattening
  <2>4. << >> \o s = s /\ << >> \in Seq(E)
    OBVIOUS
  <2>5. QED
    BY <2>1, <2>2, <2>3, <2>4 DEF tt
<1>4. CASE N # 0
  <2>1. PICK f : IsFlattening(f, ss) /\ FlattenSeq(ss) = f[N]
    BY <1>1, <1>4, FlattenSteps
  <2>2. f[N] \in Seq(E)
    <3>1. \A m \in 1..N : f[m] \in Seq(E)
      BY <2>1, StagesAreLists
    <3>2. N \in 1..N
      BY <1>1, <1>4
    <3>3. QED
      BY <3>1, <3>2
  <2>. DEFINE S == {k \in Nat : k + 1 =< N => g[k+1] = f[k+1]}
  <2>3. 0 \in S
    BY <1>1, <1>2, <1>4, <2>1 DEF IsFlattening
  <2>4. ASSUME NEW k \in Nat, k \in S PROVE k + 1 \in S
    <3>1. SUFFICES ASSUME (k + 1) + 1 =< N PROVE g[(k+1)+1] = f[(k+1)+1]
      OBVIOUS
    <3>. DEFINE m == k + 1
    <3>2. /\ m + 1 \in 2..N /\ m + 1 \in 2..N+1 /\ m + 1 \in 1..N /\ (m + 1) - 1 = m
      BY <1>1, <3>1
    <3>3. g[m] = f[m]
      BY <1>1, <2>4, <3>1
    <3>4. g[m+1] = g[m] \o tt[m+1] /\ f[m+1] = f[m] \o ss[m+1]
      BY <1>1, <1>2, <2>1, <3>2 DEF IsFlattening
    <3>5. QED
      BY <1>1, <3>2, <3>3, <3>4
  <2>5. \A k \in Nat : k \in S
    <3>. HIDE DEF S
    <3>1. QED
      BY <2>3, <2>4, SetInduction
  <2>6. g[N] = f[N]
    <3>1. N - 1 \in Nat /\ (N - 1) + 1 = N /\ N =< N
      BY <1>1, <1>4
    <3>2. N - 1 \in S
      BY <2>5, <3>1
    <3>3. QED
      BY <3>1, <3>2
  <2>7. g[N+1] = g[N] \o tt[N+1]
    <3>1. N + 1 \in 2..N+1 /\ (N + 1) - 1 = N
      BY <1>1, <1>4
    <3>2. QED
      BY <1>1, <1>2, <3>1 DEF IsFlattening
  <2>8. QED
    BY <1>1, <1>2, <2>1, <2>2, <2>6, <2>7 DEF tt
<1>5. QED
  BY <1>3, <1>4

AppendsLater(a, b, x) == a \o Append(b, x) = Append(a \o b, x)

(* Joining and appending can be done in either order. *)
LEMMA AppendedLater ==
  ASSUME NEW E, NEW a \in Seq(E), NEW b \in Seq(E), NEW x \in E
  PROVE  AppendsLater(a, b, x)
<1>. DEFINE c == <<x>>
<1>1. a \o b \in Seq(E) /\ c \in Seq(E)
  BY ConcatProperties
<1>2. Append(b, x) = b \o c
  BY AppendIsConcat
<1>3. Append(a \o b, x) = (a \o b) \o c
  BY <1>1, AppendIsConcat
<1>. HIDE DEF c
<1>4. (a \o b) \o c = a \o (b \o c)
  BY <1>1, ConcatAssociative
<1>5. QED
  BY <1>2, <1>3, <1>4 DEF AppendsLater

GrowsBy(tt, ss, x) == FlattenSeq(tt) = Append(FlattenSeq(ss), x)

(* A list that grows before empty ones grows the whole. *)
LEMMA FlattenedGrows ==
  ASSUME NEW E, NEW ss \in Seq(Seq(E)), NEW tt \in Seq(Seq(E)), NEW x \in E,
         Len(tt) = Len(ss), NEW o \in 1..Len(ss), tt[o] = Append(ss[o], x),
         \A i \in 1..Len(ss) : i # o => tt[i] = ss[i],
         \A i \in 1..Len(ss) : o < i => ss[i] = << >>
  PROVE  GrowsBy(tt, ss, x)
<1>. DEFINE N == Len(ss)
<1>1. /\ N \in Nat \ {0} /\ o \in Nat /\ \A i \in 1..N : ss[i] \in Seq(E) /\ tt[i] \in Seq(E)
  OBVIOUS
<1>2. PICK f : IsFlattening(f, ss) /\ FlattenSeq(ss) = f[N]
  BY <1>1, FlattenSteps
<1>3. PICK g : IsFlattening(g, tt) /\ FlattenSeq(tt) = g[N]
  BY <1>1, FlattenSteps
<1>4. \A m \in 1..N : f[m] \in Seq(E)
  BY <1>2, StagesAreLists
<1>. DEFINE Good(m) == g[m] = IF m < o THEN f[m] ELSE Append(f[m], x)
            S == {k \in Nat : k + 1 =< N => Good(k + 1)}
<1>5. 0 \in S
  <2>1. g[1] = tt[1] /\ f[1] = ss[1] /\ 1 \in 1..N
    BY <1>1, <1>2, <1>3 DEF IsFlattening
  <2>2. CASE o = 1
    BY <2>1, <2>2
  <2>3. CASE o # 1
    <3>1. 1 < o
      BY <1>1, <2>3
    <3>2. QED
      BY <2>1, <3>1
  <2>4. QED
    BY <2>2, <2>3
<1>6. ASSUME NEW k \in Nat, k \in S PROVE k + 1 \in S
  <2>1. SUFFICES ASSUME (k + 1) + 1 =< N PROVE Good((k + 1) + 1)
    OBVIOUS
  <2>. DEFINE m == k + 1
  <2>2. /\ m + 1 \in 2..N /\ m + 1 \in 1..N /\ m \in 1..N /\ (m + 1) - 1 = m
    BY <1>1, <2>1
  <2>3. g[m+1] = g[m] \o tt[m+1] /\ f[m+1] = f[m] \o ss[m+1]
    BY <1>2, <1>3, <2>2 DEF IsFlattening
  <2>4. Good(m)
    BY <1>1, <1>6, <2>1
  <2>5. f[m] \in Seq(E) /\ ss[m+1] \in Seq(E)
    BY <1>1, <1>4, <2>2
  <2>. HIDE DEF m
  <2>6. CASE m + 1 < o
    <3>1. m < o /\ m + 1 # o
      <4>1. m \in Nat /\ o \in Nat
        BY <1>1, <2>2
      <4>2. QED
        BY <2>6, <4>1
    <3>2. QED
      BY <2>2, <2>3, <2>4, <2>6, <3>1 DEF m
  <2>7. CASE m + 1 = o
    <3>1. m < o /\ ~(m + 1 < o)
      BY <1>1, <2>2, <2>7
    <3>2. g[m] = f[m] /\ tt[m+1] = Append(ss[m+1], x)
      BY <2>4, <2>7, <3>1
    <3>3. f[m] \o Append(ss[m+1], x) = Append(f[m] \o ss[m+1], x)
      <4>1. AppendsLater(f[m], ss[m+1], x)
        BY <2>5, AppendedLater
      <4>2. QED
        BY <4>1 DEF AppendsLater
    <3>4. g[m+1] = Append(f[m+1], x)
      BY <2>3, <3>2, <3>3
    <3>5. QED
      BY <3>1, <3>4 DEF m
  <2>8. CASE o < m + 1
    <3>1. ~(m < o) /\ m + 1 # o /\ ~(m + 1 < o)
      BY <1>1, <2>2, <2>8
    <3>2. ss[m+1] = << >> /\ tt[m+1] = << >>
      BY <2>2, <2>8, <3>1
    <3>3. g[m] = Append(f[m], x)
      BY <2>4, <3>1
    <3>4. f[m+1] = f[m] /\ g[m+1] = g[m]
      BY <2>3, <2>5, <3>2, <3>3
    <3>5. QED
      BY <3>1, <3>3, <3>4 DEF m
  <2>9. QED
    BY <1>1, <2>2, <2>6, <2>7, <2>8
<1>7. \A k \in Nat : k \in S
  <2>. HIDE DEF S
  <2>1. QED
    BY <1>5, <1>6, SetInduction
<1>8. Good(N)
  <2>1. N - 1 \in Nat /\ (N - 1) + 1 = N /\ N =< N
    BY <1>1
  <2>2. N - 1 \in S
    BY <1>7, <2>1
  <2>3. QED
    BY <2>1, <2>2
<1>9. ~(N < o)
  BY <1>1
<1>10. QED
  BY <1>2, <1>3, <1>8, <1>9 DEF GrowsBy

(* There is a derivative of every order. *)
LEMMA SomeName ==
  ASSUME NEW order \in 0..3
  PROVE  \E name : IsListed(name, order)
<1>. DEFINE name == [i \in 1..order |-> RHO]
<1>1. RHO \in Nat
  BY DEF RHO
<1>2. name \in Seq(Nat) /\ Len(name) = order /\ \A i \in 1..order : name[i] = RHO
  BY <1>1
<1>. HIDE DEF name
<1>3. IsSplit(name, order, 0, 0)
  BY <1>2 DEF IsSplit
<1>4. 0 \in 0..3 /\ order + 0 + 0 = order
  OBVIOUS
<1>5. QED
  BY <1>3, <1>4 DEF IsListed

(* With batches or without, the last output of an order is the last feature's
   of the last derivative. *)
LEMMA LastsAgree ==
  ASSUME NEW nspin \in Spins, NEW n \in Nat \ {0}, NEW order \in 0..3
  PROVE  /\ FeatureOutputs(nspin, n, order) # << >>
         /\ Last(Expanded(nspin, n, order)) = Last(FeatureOutputs(nspin, n, order))
<1>. DEFINE ds == Derivatives(nspin, order)
            N == Len(ds)
            E == AllOutputs(n)
<1>1. /\ N \in Nat /\ DOMAIN ds = 1..N
      /\ \A i \in 1..N : IsListedDerivative(ds[i], nspin, order)
  BY ListedDerivatives
<1>2. N # 0
  <2>1. PICK name : IsListed(name, order)
    BY SomeName
  <2>2. 0 \in 0..Count(nspin, name)-1
    BY <2>1, PartOfName
  <2>3. Derivative(name, 0) \in Elements(ds)
    BY <2>1, <2>2, DerivativesListed DEF IsListOf
  <2>4. QED
    BY <1>1, <2>3 DEF Elements
<1>. DEFINE tt == [i \in 1..N |-> OutputsOf(ds[i], n)]
<1>3. FeatureOutputs(nspin, n, order) = FlattenSeq(tt)
  BY OutputsFlattened
<1>4. Expanded(nspin, n, order) =
        FlattenSeq([f \in 1..n |->
          [i \in 1..N |-> [name |-> ds[i].name, exponents |-> ds[i].exponents,
                           index |-> FlattenFeatureOutput(ds[i].number, n, f - 1)]]])
  BY <1>1 DEF Expanded
<1>. HIDE DEF ds
<1>5. \A i \in 1..N : /\ ds[i].name \in Seq(Nat) /\ ds[i].number \in Nat
                      /\ ds[i].exponents = Vector(ds[i].name, ds[i].number)
  BY <1>1 DEF IsListedDerivative
<1>. DEFINE out(i, f) == Output(ds[i].name, ds[i].number, n, f - 1)
            byFeature(f) == [i \in 1..N |-> out(i, f)]
            ss == [f \in 1..n |-> byFeature(f)]
<1>6. Expanded(nspin, n, order) = FlattenSeq(ss)
  <2>. DEFINE given(i, f) == [name |-> ds[i].name, exponents |-> ds[i].exponents,
                              index |-> FlattenFeatureOutput(ds[i].number, n, f - 1)]
              uu == [f \in 1..n |-> [i \in 1..N |-> given(i, f)]]
  <2>1. \A i \in 1..N : \A f \in 1..n : given(i, f) = out(i, f)
    BY <1>5 DEF Output, FlattenFeatureOutput
  <2>2. Expanded(nspin, n, order) = FlattenSeq(uu)
    BY <1>4
  <2>. HIDE DEF given, out
  <2>3. uu = ss
    BY <2>1
  <2>4. QED
    BY <2>2, <2>3
<1>7. \A i \in 1..N : \A f \in 1..n : out(i, f) \in E
  <2>1. \A f \in 1..n : f - 1 \in 0..n-1
    OBVIOUS
  <2>2. ASSUME NEW i \in 1..N, NEW f \in 1..n PROVE out(i, f) \in E
    <3>. DEFINE name == ds[i].name
                c == ds[i].number
                g == f - 1
    <3>1. name \in Seq(Nat) /\ c \in Nat /\ g \in 0..n-1
      BY <1>5, <2>1
    <3>. HIDE DEF name, c, g
    <3>2. Output(name, c, n, g) \in AllOutputs(n)
      BY <3>1, OutputParts
    <3>3. QED
      BY <3>2 DEF name, c, g
  <2>3. QED
    BY <2>2
<1>8. \A i \in 1..N : OutputsOf(ds[i], n) = [f \in 1..n |-> out(i, f)]
  BY DEF OutputsOf
<1>. HIDE DEF out, E, N
<1>9. /\ tt \in Seq(Seq(E)) /\ tt # << >> /\ Last(tt) = [f \in 1..n |-> out(N, f)]
  <2>1. \A i \in 1..N : [f \in 1..n |-> out(i, f)] \in Seq(E)
    BY <1>7
  <2>2. tt \in Seq(Seq(E)) /\ Len(tt) = N
    BY <1>1, <1>8, <2>1
  <2>3. N \in 1..N /\ tt[N] = [f \in 1..n |-> out(N, f)]
    BY <1>1, <1>2, <1>8
  <2>4. QED
    BY <1>2, <2>2, <2>3 DEF Last
<1>10. /\ ss \in Seq(Seq(E)) /\ ss # << >> /\ Last(ss) = [i \in 1..N |-> out(i, n)]
  <2>1. \A f \in 1..n : byFeature(f) \in Seq(E)
    BY <1>1, <1>7
  <2>. HIDE DEF byFeature
  <2>2. ss \in Seq(Seq(E)) /\ Len(ss) = n /\ ss[n] = byFeature(n)
    BY <2>1
  <2>3. QED
    BY <2>2 DEF Last, byFeature
<1>. HIDE DEF ss, tt
<1>11. Last(tt) # << >> /\ Last(Last(tt)) = out(N, n)
  <2>1. Last(tt) \in Seq(E) /\ Len(Last(tt)) = n
    BY <1>1, <1>2, <1>7, <1>9
  <2>2. Last(tt)[n] = out(N, n)
    BY <1>9
  <2>3. QED
    BY <2>1, <2>2 DEF Last
<1>12. Last(ss) # << >> /\ Last(Last(ss)) = out(N, n)
  <2>1. Last(ss) \in Seq(E) /\ Len(Last(ss)) = N
    BY <1>1, <1>7, <1>10
  <2>2. Last(ss)[N] = out(N, n)
    BY <1>1, <1>2, <1>10
  <2>3. QED
    BY <1>2, <2>1, <2>2 DEF Last
<1>13. FlattenSeq(tt) # << >> /\ Last(FlattenSeq(tt)) = out(N, n)
  BY <1>9, <1>11, LastFlattened
<1>14. Last(FlattenSeq(ss)) = out(N, n)
  BY <1>10, <1>12, LastFlattened
<1>15. QED
  BY <1>3, <1>6, <1>13, <1>14 DEF N, tt, ss

OrderOf(out) == Len(out.name)

(* What maple_run is told: outputs that differ, order after order, of which the
   last of each order is known. *)
PlanOK(p) ==
  LET N == Len(p.outputs)
  IN  /\ p.outputs \in Seq(Elements(p.outputs)) /\ N \in Nat \ {0}
      /\ \A k \in 1..N : p.outputs[k].name \in Seq(Nat) /\ OrderOf(p.outputs[k]) \in 0..3
      /\ \A k, l \in 1..N : p.outputs[k] = p.outputs[l] => k = l
      /\ OrderOf(p.outputs[1]) = p.start /\ p.start \in 0..3
      /\ \A k \in 1..N :
           IF p.outputs[k] = p.last[OrderOf(p.outputs[k])]
           THEN k < N => OrderOf(p.outputs[k+1]) = OrderOf(p.outputs[k]) + 1
           ELSE k < N /\ OrderOf(p.outputs[k+1]) = OrderOf(p.outputs[k])

(* An output before another of its order is not the last of the order. *)
NotLast(last, n) ==
  {p \in AllOutputs(n) \X AllOutputs(n) :
     OrderOf(p[1]) < OrderOf(p[2]) \/ p[1] # last[OrderOf(p[1])]}

LastsAre(outs, last, lo, hi) ==
  \A o \in lo..hi : last[o] \in Elements(outs) /\ OrderOf(last[o]) = o

(* An output does not come before itself. *)
LEMMA EarlierDiffers ==
  ASSUME NEW n \in Nat \ {0}, NEW x, NEW y, <<x, y>> \in Earlier(n)
  PROVE  x # y
<1>1. SUFFICES ASSUME x = y PROVE FALSE
  OBVIOUS
<1>2. x \in AllOutputs(n) /\ x.index < x.index
  BY <1>1 DEF Earlier
<1>3. \E name \in Seq(Nat) : \E c \in Nat : \E f \in 0..n-1 : x = Output(name, c, n, f)
  BY <1>2 DEF AllOutputs
<1>4. PICK name \in Seq(Nat) : \E c \in Nat : \E f \in 0..n-1 : x = Output(name, c, n, f)
  BY <1>3
<1>5. PICK c \in Nat, f \in 0..n-1 : x = Output(name, c, n, f)
  BY <1>4
<1>. DEFINE m == c * n
<1>6. m \in Nat
  OBVIOUS
<1>7. x.index = m + f
  BY <1>5 DEF Output
<1>. HIDE DEF m
<1>8. m + f \in Nat
  BY <1>6
<1>9. QED
  BY <1>2, <1>7, <1>8

(* Outputs in order, of which the last of each order is known, make a plan. *)
LEMMA OrderedPlan ==
  ASSUME NEW n \in Nat \ {0}, NEW lo \in 0..3, NEW hi \in 0..3, lo =< hi,
         NEW outs \in Seq(AllOutputs(n)), NEW last, LastsAre(outs, last, lo, hi),
         InOrder(outs, Earlier(n)), InOrder(outs, NotLast(last, n)),
         \A x \in Elements(outs) : x.name \in Seq(Nat) /\ OrderOf(x) \in lo..hi
  PROVE  PlanOK([start |-> lo, outputs |-> outs, last |-> last])
<1>. DEFINE N == Len(outs)
            o(k) == OrderOf(outs[k])
            L(k) == last[o(k)]
            p == [start |-> lo, outputs |-> outs, last |-> last]
<1>1. N \in Nat /\ DOMAIN outs = 1..N /\ outs \in Seq(Elements(outs))
  BY DEF Elements
<1>2. \A k \in 1..N : outs[k] \in Elements(outs)
  BY <1>1 DEF Elements
<1>3. \A k \in 1..N : outs[k].name \in Seq(Nat) /\ o(k) \in lo..hi /\ o(k) \in 0..3
  BY <1>2
<1>4. ASSUME NEW k \in 1..N, NEW l \in 1..N, k < l
      PROVE  /\ outs[k] # outs[l] /\ o(k) =< o(l)
             /\ o(k) < o(l) \/ outs[k] # L(k)
  <2>1. <<outs[k], outs[l]>> \in Earlier(n) /\ <<outs[k], outs[l]>> \in NotLast(last, n)
    BY <1>1, <1>4 DEF InOrder
  <2>2. o(k) < o(l) \/ outs[k] # L(k)
    BY <2>1 DEF NotLast
  <2>3. /\ Len(outs[k].name) =< Len(outs[l].name)
        /\ outs[k].name = outs[l].name => outs[k].index < outs[l].index
    BY <2>1 DEF Earlier
  <2>4. outs[k] # outs[l]
    BY <2>1, EarlierDiffers
  <2>5. QED
    BY <2>2, <2>3, <2>4 DEF OrderOf
<1>. HIDE DEF o, L, N
<1>5. ASSUME NEW q \in lo..hi
      PROVE  \E l \in 1..N : outs[l] = last[q] /\ o(l) = q
  <2>1. last[q] \in Elements(outs) /\ OrderOf(last[q]) = q
    BY DEF LastsAre
  <2>2. PICK l \in DOMAIN outs : last[q] = outs[l]
    BY <2>1 DEF Elements
  <2>3. QED
    BY <1>1, <2>1, <2>2 DEF o
<1>6. N \in Nat \ {0} /\ o(1) = lo
  <2>1. lo \in lo..hi
    OBVIOUS
  <2>2. PICK l \in 1..N : o(l) = lo
    BY <1>5, <2>1
  <2>3. 1 \in 1..N /\ (l = 1 \/ 1 < l)
    BY <1>1, <2>2
  <2>4. o(1) =< lo
    <3>1. CASE l = 1
      BY <2>2, <3>1
    <3>2. CASE 1 < l
      BY <1>4, <2>2, <2>3, <3>2
    <3>3. QED
      BY <2>3, <3>1, <3>2
  <2>5. o(1) \in lo..hi
    BY <1>3, <2>3
  <2>6. QED
    BY <1>1, <2>3, <2>4, <2>5
<1>7. \A k, l \in 1..N : outs[k] = outs[l] => k = l
  <2>1. SUFFICES ASSUME NEW k \in 1..N, NEW l \in 1..N, outs[k] = outs[l], k # l
                 PROVE  FALSE
    OBVIOUS
  <2>2. k < l \/ l < k
    BY <1>1, <2>1
  <2>3. QED
    BY <1>4, <2>1, <2>2
<1>8. ASSUME NEW k \in 1..N
      PROVE  IF outs[k] = L(k) THEN k < N => o(k+1) = o(k) + 1
             ELSE k < N /\ o(k+1) = o(k)
  <2>0. o(k) \in lo..hi /\ k \in Nat
    BY <1>1, <1>3
  <2>1. ASSUME outs[k] = L(k), k < N
        PROVE  o(k+1) = o(k) + 1
    <3>1. k + 1 \in 1..N /\ k < k + 1
      BY <1>1, <2>1
    <3>2. o(k) < o(k+1) /\ o(k+1) \in lo..hi
      BY <1>3, <1>4, <2>1, <3>1
    <3>3. o(k) + 1 \in lo..hi
      BY <2>0, <3>2
    <3>4. PICK l \in 1..N : o(l) = o(k) + 1
      BY <1>5, <3>3
    <3>5. ~(l < k + 1)
      <4>1. SUFFICES ASSUME l < k + 1 PROVE FALSE
        OBVIOUS
      <4>2. l = k \/ l < k
        BY <1>1, <2>0, <4>1
      <4>3. o(l) =< o(k)
        BY <1>4, <2>0, <4>2
      <4>4. QED
        BY <2>0, <3>4, <4>3
    <3>6. l = k + 1 \/ k + 1 < l
      BY <1>1, <2>0, <3>5
    <3>7. o(k+1) =< o(l)
      BY <1>4, <3>1, <3>2, <3>6
    <3>8. QED
      BY <2>0, <3>2, <3>4, <3>7
  <2>2. ASSUME outs[k] # L(k)
        PROVE  k < N /\ o(k+1) = o(k)
    <3>1. PICK l \in 1..N : outs[l] = last[o(k)] /\ o(l) = o(k)
      BY <1>5, <2>0
    <3>2. l # k
      BY <2>2, <3>1 DEF L
    <3>3. ~(l < k)
      <4>1. SUFFICES ASSUME l < k PROVE FALSE
        OBVIOUS
      <4>2. o(l) < o(k) \/ outs[l] # L(l)
        BY <1>4, <4>1
      <4>3. L(l) = outs[l]
        BY <3>1 DEF L
      <4>4. o(l) < o(k)
        BY <4>2, <4>3
      <4>5. QED
        BY <2>0, <3>1, <4>4
    <3>4. k < l /\ k < N /\ k + 1 \in 1..N /\ (k + 1 = l \/ k + 1 < l) /\ k < k + 1
      BY <1>1, <2>0, <3>2, <3>3
    <3>5. o(k) =< o(k+1) /\ o(k+1) =< o(l)
      <4>1. o(k) =< o(k+1)
        BY <1>4, <3>4
      <4>2. CASE k + 1 = l
        BY <2>0, <3>1, <4>1, <4>2
      <4>3. CASE k + 1 < l
        BY <1>4, <3>4, <4>1, <4>3
      <4>4. QED
        BY <3>4, <4>2, <4>3
    <3>6. o(k+1) \in lo..hi
      BY <1>3, <3>4
    <3>7. QED
      BY <2>0, <3>1, <3>4, <3>5, <3>6
  <2>3. QED
    BY <2>1, <2>2
<1>9. p.outputs = outs /\ p.start = lo /\ p.last = last
  OBVIOUS
<1>. HIDE DEF p
<1>10. PlanOK(p)
  BY <1>1, <1>3, <1>6, <1>7, <1>8, <1>9 DEF PlanOK, N, o, L
<1>11. QED
  BY <1>10 DEF p

(* maple_run called for one batch. *)
LEMMA BatchPlan ==
  ASSUME NEW nspin \in Spins, NEW n \in Nat \ {0}, NEW B, IsBatch(B, nspin, n),
         B.start \in 0..3
  PROVE  PlanOK([start |-> B.start, outputs |-> B.outputs,
                 last |-> [order \in {B.start} |-> Last(B.outputs)]])
<1>. DEFINE outs == B.outputs
            s == B.start
            N == Len(outs)
            last == [order \in {s} |-> Last(outs)]
<1>1. /\ outs \in Seq(AllOutputs(n)) /\ outs # << >> /\ InOrder(outs, Earlier(n))
      /\ \A x \in Elements(outs) : IsOutputOf(x, nspin, n, s)
  BY DEF IsBatch, AllBatches
<1>2. s \in 0..3
  OBVIOUS
<1>. HIDE DEF outs, s
<1>3. N \in Nat \ {0} /\ N \in 1..N /\ DOMAIN outs = 1..N /\ last[s] = outs[N]
  BY <1>1 DEF Last
<1>4. ASSUME NEW x \in Elements(outs)
      PROVE  x.name \in Seq(Nat) /\ OrderOf(x) = s
  <2>1. IsOutputOf(x, nspin, n, s)
    BY <1>1
  <2>2. QED
    BY <2>1, OutputShape DEF OrderOf
<1>5. \A k \in 1..N : outs[k] \in Elements(outs) /\ outs[k] \in AllOutputs(n)
  BY <1>1, <1>3 DEF Elements
<1>6. LastsAre(outs, last, s, s)
  <2>1. \A o \in s..s : o = s
    BY <1>2
  <2>2. last[s] \in Elements(outs) /\ OrderOf(last[s]) = s
    BY <1>3, <1>4, <1>5
  <2>. HIDE DEF last
  <2>3. QED
    BY <2>1, <2>2 DEF LastsAre
<1>7. InOrder(outs, NotLast(last, n))
  <2>. HIDE DEF last
  <2>1. ASSUME NEW k \in 1..N, NEW l \in 1..N, k < l
        PROVE  <<outs[k], outs[l]>> \in NotLast(last, n)
    <3>1. k < N
      BY <1>3, <2>1
    <3>2. <<outs[k], outs[N]>> \in Earlier(n)
      BY <1>1, <1>3, <3>1 DEF InOrder
    <3>3. outs[k] # outs[N]
      BY <3>2, EarlierDiffers
    <3>4. OrderOf(outs[k]) = s
      BY <1>4, <1>5
    <3>5. outs[k] # last[OrderOf(outs[k])]
      BY <1>3, <3>3, <3>4
    <3>6. QED
      BY <1>5, <3>5 DEF NotLast
  <2>2. QED
    BY <1>3, <2>1 DEF InOrder
<1>8. \A x \in Elements(outs) : x.name \in Seq(Nat) /\ OrderOf(x) \in s..s
  <2>1. s \in s..s
    BY <1>2
  <2>2. QED
    BY <1>4, <2>1
<1>9. s =< s
  BY <1>2
<1>. HIDE DEF last
<1>10. PlanOK([start |-> s, outputs |-> outs, last |-> last])
  BY <1>1, <1>2, <1>6, <1>7, <1>8, <1>9, OrderedPlan
<1>11. QED
  BY <1>10 DEF s, outs, last

(* maple_run called for all the outputs at once. *)
LEMMA WholePlan ==
  ASSUME NEW nspin \in Spins, NEW n \in Nat \ {0}, NEW maxOrder \in 0..3
  PROVE  PlanOK([start |-> 0,
                 outputs |-> FlattenSeq([k \in 1..maxOrder+1 |->
                                           FeatureOutputs(nspin, n, k - 1)]),
                 last |-> [order \in 0..maxOrder |-> Last(Expanded(nspin, n, order))]])
<1>. DEFINE M == maxOrder + 1
            part(o) == FeatureOutputs(nspin, n, o)
            ss == [k \in 1..M |-> part(k - 1)]
            outs == FlattenSeq(ss)
            last == [order \in 0..maxOrder |-> Last(Expanded(nspin, n, order))]
            E == AllOutputs(n)
            R == NotLast(last, n)
<1>1. M \in Nat \ {0} /\ \A k \in 1..M : k - 1 \in 0..maxOrder /\ k - 1 \in 0..3
  OBVIOUS
<1>2. ASSUME NEW o \in 0..maxOrder
      PROVE  /\ part(o) \in Seq(E) /\ part(o) # << >> /\ InOrder(part(o), Earlier(n))
             /\ last[o] = Last(part(o)) /\ o \in 0..3
             /\ \A x \in Elements(part(o)) : IsOutputOf(x, nspin, n, o)
  <2>1. o \in 0..3
    OBVIOUS
  <2>2. ListsOutputs(part(o), nspin, n, {o}) /\ part(o) # << >>
        /\ Last(Expanded(nspin, n, o)) = Last(part(o))
    BY <2>1, FeatureOutputsListed, LastsAgree
  <2>3. QED
    BY <2>1, <2>2 DEF ListsOutputs
<1>. HIDE DEF part, last, M, E
<1>3. /\ ss \in Seq(Seq(E)) /\ DOMAIN ss = 1..M
      /\ \A k \in 1..M : ss[k] = part(k - 1)
  <2>1. \A k \in 1..M : part(k - 1) \in Seq(E)
    BY <1>1, <1>2
  <2>. DEFINE p(k) == part(k - 1)
              SE == Seq(E)
  <2>2. M \in Nat /\ \A k \in 1..M : p(k) \in SE
    BY <1>1, <2>1
  <2>. HIDE DEF p, SE
  <2>3. [k \in 1..M |-> p(k)] \in Seq(SE)
    BY <2>2
  <2>4. QED
    BY <2>2, <2>3 DEF p, SE
<1>4. ASSUME NEW o \in 0..maxOrder, NEW x \in Elements(part(o))
      PROVE  IsOutputOf(x, nspin, n, o) /\ x \in E /\ x.name \in Seq(Nat) /\ OrderOf(x) = o
  <2>1. IsOutputOf(x, nspin, n, o)
    BY <1>2
  <2>2. QED
    BY <2>1, OutputShape DEF OrderOf, E
<1>. HIDE DEF ss, R
<1>5. AreInOrder(ss, Earlier(n))
  <2>1. \A k \in 1..M : InOrder(ss[k], Earlier(n))
    BY <1>1, <1>2, <1>3
  <2>2. ASSUME NEW k \in 1..M, NEW l \in 1..M, k < l
        PROVE  AllBefore(ss[k], ss[l], Earlier(n))
    <3>1. ASSUME NEW x \in Elements(ss[k]), NEW y \in Elements(ss[l])
          PROVE  <<x, y>> \in Earlier(n)
      <4>1. IsOutputOf(x, nspin, n, k - 1) /\ IsOutputOf(y, nspin, n, l - 1)
        BY <1>1, <1>3, <1>4
      <4>2. k - 1 \in Nat /\ l - 1 \in Nat /\ k - 1 < l - 1
        BY <1>1, <2>2
      <4>3. QED
        BY <4>1, <4>2, OrdersApart
    <3>2. QED
      BY <3>1 DEF AllBefore
  <2>3. QED
    BY <1>3, <2>1, <2>2 DEF AreInOrder
<1>6. AreInOrder(ss, R)
  <2>1. ASSUME NEW k \in 1..M PROVE InOrder(ss[k], R)
    <3>. DEFINE t == ss[k]
                o == k - 1
                K == Len(t)
    <3>1. o \in 0..maxOrder /\ t = part(o)
      BY <1>1, <1>3
    <3>. HIDE DEF t, o
    <3>2. /\ t \in Seq(E) /\ t # << >> /\ InOrder(t, Earlier(n))
          /\ last[o] = Last(t)
      BY <1>2, <3>1
    <3>3. K \in Nat \ {0} /\ DOMAIN t = 1..K /\ K \in 1..K /\ last[o] = t[K]
      BY <3>2 DEF Last
    <3>4. \A a \in 1..K : t[a] \in E /\ OrderOf(t[a]) = o
      <4>1. \A a \in 1..K : t[a] \in Elements(t)
        BY <3>3 DEF Elements
      <4>2. QED
        BY <1>4, <3>1, <4>1
    <3>5. ASSUME NEW a \in 1..K, NEW b \in 1..K, a < b
          PROVE  <<t[a], t[b]>> \in R
      <4>1. a < K
        BY <3>3, <3>5
      <4>2. <<t[a], t[K]>> \in Earlier(n)
        BY <3>2, <3>3, <4>1 DEF InOrder
      <4>3. t[a] # t[K]
        BY <4>2, EarlierDiffers
      <4>4. t[a] # last[OrderOf(t[a])]
        BY <3>3, <3>4, <4>3
      <4>5. QED
        BY <3>4, <4>4 DEF R, NotLast, E
    <3>6. QED
      BY <3>3, <3>5 DEF InOrder, t
  <2>2. ASSUME NEW k \in 1..M, NEW l \in 1..M, k < l
        PROVE  AllBefore(ss[k], ss[l], R)
    <3>1. ASSUME NEW x \in Elements(ss[k]), NEW y \in Elements(ss[l])
          PROVE  <<x, y>> \in R
      <4>1. x \in E /\ y \in E /\ OrderOf(x) = k - 1 /\ OrderOf(y) = l - 1
        BY <1>1, <1>3, <1>4
      <4>2. OrderOf(x) < OrderOf(y)
        BY <1>1, <2>2, <4>1
      <4>3. QED
        BY <4>1, <4>2 DEF R, NotLast, E
    <3>2. QED
      BY <3>1 DEF AllBefore
  <2>3. QED
    BY <1>3, <2>1, <2>2 DEF AreInOrder
<1>7. /\ outs \in Seq(E) /\ InOrder(outs, Earlier(n))
      /\ Elements(outs) = UNION {Elements(ss[i]) : i \in DOMAIN ss}
  BY <1>3, <1>5, Flattened
<1>8. InOrder(outs, R)
  BY <1>3, <1>6, Flattened
<1>. HIDE DEF outs
<1>9. \A x \in Elements(outs) : x.name \in Seq(Nat) /\ OrderOf(x) \in 0..maxOrder
  <2>1. ASSUME NEW x \in Elements(outs)
        PROVE  x.name \in Seq(Nat) /\ OrderOf(x) \in 0..maxOrder
    <3>1. PICK i \in DOMAIN ss : x \in Elements(ss[i])
      BY <1>7
    <3>2. i \in 1..M /\ x \in Elements(part(i - 1)) /\ i - 1 \in 0..maxOrder
      BY <1>1, <1>3, <3>1
    <3>3. QED
      BY <1>4, <3>2
  <2>2. QED
    BY <2>1
<1>10. LastsAre(outs, last, 0, maxOrder)
  <2>1. ASSUME NEW o \in 0..maxOrder
        PROVE  last[o] \in Elements(outs) /\ OrderOf(last[o]) = o
    <3>. DEFINE t == part(o)
    <3>1. t \in Seq(E) /\ t # << >> /\ last[o] = Last(t)
      BY <1>2
    <3>2. Last(t) \in Elements(t)
      <4>. HIDE DEF t
      <4>1. Len(t) \in 1..Len(t) /\ DOMAIN t = 1..Len(t)
        BY <3>1
      <4>2. QED
        BY <4>1 DEF Last, Elements
    <3>3. OrderOf(last[o]) = o
      BY <1>4, <3>1, <3>2
    <3>4. o + 1 \in 1..M /\ (o + 1) - 1 = o
      BY DEF M
    <3>5. ss[o+1] = t /\ o + 1 \in DOMAIN ss
      BY <1>3, <3>4
    <3>6. last[o] \in Elements(outs)
      BY <1>7, <3>1, <3>2, <3>5
    <3>7. QED
      BY <3>3, <3>6
  <2>2. QED
    BY <2>1 DEF LastsAre
<1>11. 0 \in 0..3 /\ 0 =< maxOrder
  OBVIOUS
<1>12. PlanOK([start |-> 0, outputs |-> outs, last |-> last])
  BY <1>7, <1>8, <1>9, <1>10, <1>11, OrderedPlan DEF E, R
<1>13. QED
  BY <1>12 DEF outs, last, ss, part, M

(* However it is called, maple_run is told what it relies on. *)
LEMMA PlanIsOK ==
  ASSUME NEW j \in Calls
  PROVE  PlanOK(Plan(j))
<1>1. /\ j.batched \in BOOLEAN /\ j.nspin \in Spins
      /\ j.n \in Nat \ {0} /\ j.maxOrder \in 0..3
      /\ j.batched => j.batch \in DOMAIN FeatureBatches(j.nspin, j.n, j.maxOrder)
  BY BlocksAssumption DEF MaxSourceOrder
<1>2. CASE j.batched
  <2>. DEFINE bs == FeatureBatches(j.nspin, j.n, j.maxOrder)
              B == bs[j.batch]
  <2>1. B \in Elements(bs)
    BY <1>1, <1>2 DEF Elements
  <2>2. IsBatch(B, j.nspin, j.n) /\ B.start \in 0..j.maxOrder
    BY <1>1, <2>1, BatchesListed
  <2>3. Plan(j) = [start |-> B.start, outputs |-> B.outputs,
                   last |-> [order \in {B.start} |-> Last(B.outputs)]]
    BY <1>2 DEF Plan, BatchOf, LastDerivatives
  <2>. HIDE DEF B
  <2>4. B.start \in 0..3
    BY <1>1, <2>2
  <2>5. QED
    BY <1>1, <2>2, <2>3, <2>4, BatchPlan
<1>3. CASE ~j.batched
  <2>1. Plan(j) = [start |-> 0,
                   outputs |-> FlattenSeq([k \in 1..j.maxOrder+1 |->
                                             FeatureOutputs(j.nspin, j.n, k - 1)]),
                   last |-> [order \in 0..j.maxOrder |-> Last(Expanded(j.nspin, j.n, order))]]
    BY <1>3 DEF Plan, BatchOf, LastDerivatives
  <2>2. QED
    BY <1>1, <2>1, WholePlan
<1>4. QED
  BY <1>1, <1>2, <1>3

LinesOf(p) ==
  {Assignment("output", x) : x \in Elements(p.outputs)}
  \cup {Assignment("temporary", t) : t \in Nat}

Items(p) ==
  LinesOf(p) \cup {Block(t, s) : t \in Seq(Nat), s \in Seq(Elements(p.outputs))}

(* The code with one item more. *)
With(cd, o, item) == [cd EXCEPT ![o] = Append(@, item)]

(* An output is in a place of a block. *)
Occurs(cd, o, i, l, x) ==
  /\ i \in DOMAIN cd[o] /\ cd[o][i].kind = "block"
  /\ l \in DOMAIN cd[o][i].of[2] /\ cd[o][i].of[2][l] = x

(* It is assigned by the code of its order ... *)
Assigned(cd, x) ==
  \E a \in DOMAIN cd[OrderOf(x)] : cd[OrderOf(x)][a] = Assignment("output", x)

(* ... and added to its buffer after that. *)
Placed(cd, x) ==
  \E i \in DOMAIN cd[OrderOf(x)] :
    /\ \E l : Occurs(cd, OrderOf(x), i, l, x)
    /\ cd[OrderOf(x)][i].of[1] = x.name
    /\ \E a \in 1..i-1 : cd[OrderOf(x)][a] = Assignment("output", x)

IsRead(p, r, x) == \E k \in 1..r : x = p.outputs[k]

(* With r outputs read, each is in one block or pending. *)
Holding(p, r, order, cd, pt, pl) ==
  /\ cd \in [Orders -> Seq(Items(p))] /\ pl \in Seq(Elements(p.outputs))
  /\ pt \in Seq(Nat) \cup {NoTest} /\ (pt = NoTest <=> pl = << >>)
  /\ \A k \in 1..r : Placed(cd, p.outputs[k]) \/ p.outputs[k] \in Elements(pl)
  /\ \A o \in Orders : \A i, l, x : Occurs(cd, o, i, l, x) =>
       IsRead(p, r, x) /\ x \notin Elements(pl) /\ o = OrderOf(x)
  /\ \A o \in Orders : \A i, l, j, m, x :
       Occurs(cd, o, i, l, x) /\ Occurs(cd, o, j, m, x) => i = j /\ l = m
  /\ \A x \in Elements(pl) :
       IsRead(p, r, x) /\ x.name = pt /\ OrderOf(x) = order /\ Assigned(cd, x)
  /\ \A l, m \in DOMAIN pl : pl[l] = pl[m] => l = m

(* One item of an order more, and no other change. *)
Grown(new, cd, o, item) ==
  /\ \A q \in Orders : q # o => new[q] = cd[q]
  /\ Len(cd[o]) \in Nat /\ DOMAIN cd[o] = 1..Len(cd[o])
  /\ DOMAIN new[o] = 1..Len(cd[o])+1
  /\ \A i \in 1..Len(cd[o]) : new[o][i] = cd[o][i]
  /\ new[o][Len(cd[o])+1] = item

(* The code with an item more differs in that item only. *)
LEMMA ItemAppended ==
  ASSUME NEW I, NEW cd \in [Orders -> Seq(I)], NEW o \in Orders, NEW item \in I
  PROVE  /\ With(cd, o, item) \in [Orders -> Seq(I)]
         /\ With(cd, o, item)[o] = Append(cd[o], item)
         /\ Grown(With(cd, o, item), cd, o, item)
<1>. DEFINE new == With(cd, o, item)
            s == cd[o]
            t == Append(s, item)
<1>1. s \in Seq(I)
  OBVIOUS
<1>2. new = [q \in Orders |-> IF q = o THEN t ELSE cd[q]]
  BY DEF With
<1>. HIDE DEF s, new
<1>3. /\ t \in Seq(I) /\ Len(s) \in Nat /\ DOMAIN s = 1..Len(s) /\ DOMAIN t = 1..Len(s)+1
      /\ \A i \in 1..Len(s) : t[i] = s[i]
      /\ t[Len(s)+1] = item
  BY <1>1
<1>. HIDE DEF t
<1>4. new \in [Orders -> Seq(I)] /\ new[o] = t /\ \A q \in Orders : q # o => new[q] = cd[q]
  BY <1>2, <1>3
<1>5. Grown(new, cd, o, item)
  BY <1>3, <1>4 DEF Grown, s
<1>6. QED
  BY <1>4, <1>5 DEF new, s, t

(* An output is where it was before, or in the block that was appended. *)
LEMMA OccursAfter ==
  ASSUME NEW I, NEW cd \in [Orders -> Seq(I)], NEW o \in Orders, NEW item \in I,
         NEW q \in Orders, NEW i, NEW l, NEW x
  PROVE  Occurs(With(cd, o, item), q, i, l, x) <=>
           \/ Occurs(cd, q, i, l, x)
           \/ /\ q = o /\ i = Len(cd[o]) + 1 /\ item.kind = "block"
              /\ l \in DOMAIN item.of[2] /\ item.of[2][l] = x
<1>. DEFINE new == With(cd, o, item)
            N == Len(cd[o])
<1>1. /\ \A k \in Orders : k # o => new[k] = cd[k]
      /\ N \in Nat /\ DOMAIN cd[o] = 1..N /\ DOMAIN new[o] = 1..N+1
      /\ \A k \in 1..N : new[o][k] = cd[o][k]
      /\ new[o][N+1] = item
  <2>1. Grown(new, cd, o, item)
    BY ItemAppended
  <2>. HIDE DEF new
  <2>2. QED
    BY <2>1 DEF Grown
<1>. HIDE DEF new, N
<1>2. CASE q # o
  BY <1>1, <1>2 DEF Occurs, new
<1>3. CASE q = o
  <2>1. CASE i \in 1..N
    <3>1. i # N + 1 /\ i \in 1..N+1
      BY <1>1, <2>1
    <3>2. QED
      BY <1>1, <1>3, <2>1, <3>1 DEF Occurs, new, N
  <2>2. CASE i = N + 1
    <3>1. i \notin 1..N /\ i \in 1..N+1
      BY <1>1, <2>2
    <3>2. QED
      BY <1>1, <1>3, <2>2, <3>1 DEF Occurs, new, N
  <2>3. CASE i \notin 1..N /\ i # N + 1
    <3>1. i \notin 1..N+1
      BY <1>1, <2>3
    <3>2. QED
      BY <1>1, <1>3, <2>3, <3>1 DEF Occurs, new, N
  <2>4. QED
    BY <2>1, <2>2, <2>3
<1>4. QED
  BY <1>2, <1>3

(* What is assigned or placed stays so. *)
LEMMA StaysPlaced ==
  ASSUME NEW I, NEW cd \in [Orders -> Seq(I)], NEW o \in Orders, NEW item \in I,
         NEW x, OrderOf(x) \in Orders
  PROVE  /\ Assigned(cd, x) => Assigned(With(cd, o, item), x)
         /\ Placed(cd, x) => Placed(With(cd, o, item), x)
<1>. DEFINE new == With(cd, o, item)
            N == Len(cd[o])
            q == OrderOf(x)
<1>1. /\ \A k \in Orders : k # o => new[k] = cd[k]
      /\ N \in Nat /\ DOMAIN cd[o] = 1..N /\ DOMAIN new[o] = 1..N+1
      /\ \A k \in 1..N : new[o][k] = cd[o][k]
  <2>1. Grown(new, cd, o, item)
    BY ItemAppended
  <2>. HIDE DEF new
  <2>2. QED
    BY <2>1 DEF Grown
<1>2. \A i, l : Occurs(cd, q, i, l, x) => Occurs(new, q, i, l, x)
  BY OccursAfter
<1>. HIDE DEF new, N
<1>3. \A i \in DOMAIN cd[q] : i \in DOMAIN new[q] /\ new[q][i] = cd[q][i]
                              /\ \A a \in 1..i-1 : a \in DOMAIN cd[q] \/ q # o
  BY <1>1
<1>4. ASSUME Assigned(cd, x)
      PROVE  Assigned(new, x)
  BY <1>3, <1>4 DEF Assigned
<1>5. ASSUME Placed(cd, x)
      PROVE  Placed(new, x)
  <2>1. PICK i \in DOMAIN cd[q] :
          /\ \E l : Occurs(cd, q, i, l, x)
          /\ cd[q][i].of[1] = x.name
          /\ \E a \in 1..i-1 : cd[q][a] = Assignment("output", x)
    BY <1>5 DEF Placed
  <2>2. PICK a \in 1..i-1 : cd[q][a] = Assignment("output", x)
    BY <2>1
  <2>3. new[q][a] = cd[q][a]
    <3>1. CASE q # o
      BY <1>1, <3>1
    <3>2. CASE q = o
      <4>1. a \in DOMAIN cd[q]
        BY <1>3, <2>1, <2>2, <3>2
      <4>2. QED
        BY <1>3, <4>1
    <3>3. QED
      BY <3>1, <3>2
  <2>. HIDE DEF q
  <2>4. QED
    BY <1>2, <1>3, <2>1, <2>2, <2>3 DEF Placed, q
<1>6. QED
  BY <1>4, <1>5 DEF new

(* No assignment is a block. *)
LEMMA KindsOfItems ==
  ASSUME NEW p, NEW item \in LinesOf(p)
  PROVE  item \in Items(p) /\ item.kind # "block"
<1>1. CASE \E x \in Elements(p.outputs) : item = Assignment("output", x)
  BY <1>1 DEF Assignment, Items
<1>2. CASE \E t \in Nat : item = Assignment("temporary", t)
  BY <1>2 DEF Assignment, Items
<1>3. QED
  BY <1>1, <1>2 DEF LinesOf

(* What a plan says of a single output. *)
LEMMA PlanParts ==
  ASSUME NEW p, PlanOK(p)
  PROVE  /\ Len(p.outputs) \in Nat /\ DOMAIN p.outputs = 1..Len(p.outputs)
         /\ \A k \in 1..Len(p.outputs) :
              p.outputs[k] \in Elements(p.outputs) /\ OrderOf(p.outputs[k]) \in Orders
         /\ \A x \in Elements(p.outputs) :
              x.name \in Seq(Nat) /\ x.name # NoTest /\ OrderOf(x) \in Orders
<1>. DEFINE N == Len(p.outputs)
<1>1. /\ p.outputs \in Seq(Elements(p.outputs)) /\ N \in Nat
      /\ \A k \in 1..N : p.outputs[k].name \in Seq(Nat) /\ OrderOf(p.outputs[k]) \in 0..3
  BY DEF PlanOK
<1>2. DOMAIN p.outputs = 1..N
  BY <1>1
<1>. HIDE DEF N
<1>3. 0..3 \subseteq Orders
  BY DEF Orders, MaxSourceOrder
<1>4. ASSUME NEW t \in Seq(Nat) PROVE t # NoTest
  <2>1. SUFFICES ASSUME t = NoTest PROVE FALSE
    OBVIOUS
  <2>2. Len(t) = 1 /\ t[1] = -1
    BY <2>1 DEF NoTest
  <2>3. t[1] \in Nat
    <3>1. 1 \in 1..Len(t)
      BY <2>2
    <3>2. QED
      BY <3>1
  <2>4. QED
    BY <2>2, <2>3
<1>5. \A k \in 1..N : p.outputs[k] \in Elements(p.outputs) /\ OrderOf(p.outputs[k]) \in Orders
  BY <1>1, <1>2, <1>3 DEF Elements
<1>6. ASSUME NEW x \in Elements(p.outputs)
      PROVE  x.name \in Seq(Nat) /\ x.name # NoTest /\ OrderOf(x) \in Orders
  <2>1. PICK k \in 1..N : x = p.outputs[k]
    BY <1>2 DEF Elements
  <2>2. QED
    BY <1>1, <1>3, <1>4, <2>1
<1>7. QED
  BY <1>1, <1>2, <1>5, <1>6 DEF N

(* An assignment more disturbs nothing. *)
LEMMA HoldAssign ==
  ASSUME NEW p, PlanOK(p), NEW r \in Nat, r =< Len(p.outputs), NEW order \in Orders,
         NEW cd, NEW pt, NEW pl, Holding(p, r, order, cd, pt, pl),
         NEW item \in LinesOf(p)
  PROVE  Holding(p, r, order, With(cd, order, item), pt, pl)
<1>. DEFINE new == With(cd, order, item)
<1>1. /\ cd \in [Orders -> Seq(Items(p))] /\ pl \in Seq(Elements(p.outputs))
      /\ pt \in Seq(Nat) \cup {NoTest} /\ (pt = NoTest <=> pl = << >>)
      /\ \A k \in 1..r : Placed(cd, p.outputs[k]) \/ p.outputs[k] \in Elements(pl)
      /\ \A o \in Orders : \A i, l, x : Occurs(cd, o, i, l, x) =>
           IsRead(p, r, x) /\ x \notin Elements(pl) /\ o = OrderOf(x)
      /\ \A o \in Orders : \A i, l, j, m, x :
           Occurs(cd, o, i, l, x) /\ Occurs(cd, o, j, m, x) => i = j /\ l = m
      /\ \A x \in Elements(pl) :
           IsRead(p, r, x) /\ x.name = pt /\ OrderOf(x) = order /\ Assigned(cd, x)
      /\ \A l, m \in DOMAIN pl : pl[l] = pl[m] => l = m
  BY DEF Holding
<1>2. item \in Items(p) /\ item.kind # "block"
  BY KindsOfItems
<1>3. new \in [Orders -> Seq(Items(p))]
  BY <1>1, <1>2, ItemAppended
<1>4. ASSUME NEW q \in Orders, NEW i, NEW l, NEW x
      PROVE  Occurs(new, q, i, l, x) <=> Occurs(cd, q, i, l, x)
  <2>1. Occurs(new, q, i, l, x) <=>
          \/ Occurs(cd, q, i, l, x)
          \/ /\ q = order /\ i = Len(cd[order]) + 1 /\ item.kind = "block"
             /\ l \in DOMAIN item.of[2] /\ item.of[2][l] = x
    <3>1. cd \in [Orders -> Seq(Items(p))]
      BY <1>1
    <3>2. QED
      BY <1>2, <3>1, OccursAfter
  <2>2. QED
    BY <1>2, <2>1
<1>5. \A x : OrderOf(x) \in Orders =>
        (Assigned(cd, x) => Assigned(new, x)) /\ (Placed(cd, x) => Placed(new, x))
  BY <1>1, <1>2, StaysPlaced
<1>6. \A k \in 1..r : OrderOf(p.outputs[k]) \in Orders
  <2>1. \A k \in 1..r : k \in 1..Len(p.outputs)
    BY PlanParts
  <2>2. QED
    BY <2>1, PlanParts
<1>. HIDE DEF new
<1>7. \A k \in 1..r : Placed(new, p.outputs[k]) \/ p.outputs[k] \in Elements(pl)
  BY <1>1, <1>5, <1>6
<1>8. \A o \in Orders : \A i, l, x : Occurs(new, o, i, l, x) =>
        IsRead(p, r, x) /\ x \notin Elements(pl) /\ o = OrderOf(x)
  BY <1>1, <1>4
<1>9. \A o \in Orders : \A i, l, j, m, x :
        Occurs(new, o, i, l, x) /\ Occurs(new, o, j, m, x) => i = j /\ l = m
  BY <1>1, <1>4
<1>10. \A x \in Elements(pl) :
         IsRead(p, r, x) /\ x.name = pt /\ OrderOf(x) = order /\ Assigned(new, x)
  BY <1>1, <1>5
<1>11. Holding(p, r, order, new, pt, pl)
  BY <1>1, <1>3, <1>7, <1>8, <1>9, <1>10 DEF Holding
<1>12. QED
  BY <1>11 DEF new

(* The pending outputs become a block. *)
LEMMA HoldEmit ==
  ASSUME NEW p, PlanOK(p), NEW r \in Nat, r =< Len(p.outputs), NEW order \in Orders,
         NEW cd, NEW pt, NEW pl, Holding(p, r, order, cd, pt, pl), pt # NoTest, NEW other
  PROVE  /\ Block(pt, pl) \in Items(p)
         /\ Holding(p, r, other, With(cd, order, Block(pt, pl)), NoTest, << >>)
<1>. DEFINE item == Block(pt, pl)
            new == With(cd, order, item)
            N == Len(cd[order])
<1>1. /\ cd \in [Orders -> Seq(Items(p))] /\ pl \in Seq(Elements(p.outputs))
      /\ pt \in Seq(Nat) \cup {NoTest}
      /\ \A k \in 1..r : Placed(cd, p.outputs[k]) \/ p.outputs[k] \in Elements(pl)
      /\ \A o \in Orders : \A i, l, x : Occurs(cd, o, i, l, x) =>
           IsRead(p, r, x) /\ x \notin Elements(pl) /\ o = OrderOf(x)
      /\ \A o \in Orders : \A i, l, j, m, x :
           Occurs(cd, o, i, l, x) /\ Occurs(cd, o, j, m, x) => i = j /\ l = m
      /\ \A x \in Elements(pl) :
           IsRead(p, r, x) /\ x.name = pt /\ OrderOf(x) = order /\ Assigned(cd, x)
      /\ \A l, m \in DOMAIN pl : pl[l] = pl[m] => l = m
  BY DEF Holding
<1>2. item \in Items(p)
  BY <1>1 DEF Items
<1>3. item.kind = "block" /\ item.of[1] = pt /\ item.of[2] = pl
  BY DEF Block
<1>. HIDE DEF item
<1>4. new \in [Orders -> Seq(Items(p))]
  BY <1>1, <1>2, ItemAppended
<1>5. ASSUME NEW q \in Orders, NEW i, NEW l, NEW x
      PROVE  Occurs(new, q, i, l, x) <=>
               \/ Occurs(cd, q, i, l, x)
               \/ q = order /\ i = N + 1 /\ l \in DOMAIN pl /\ pl[l] = x
  <2>1. cd \in [Orders -> Seq(Items(p))]
    BY <1>1
  <2>2. Occurs(new, q, i, l, x) <=>
          \/ Occurs(cd, q, i, l, x)
          \/ /\ q = order /\ i = N + 1 /\ item.kind = "block"
             /\ l \in DOMAIN item.of[2] /\ item.of[2][l] = x
    BY <1>2, <2>1, OccursAfter
  <2>. HIDE DEF new, N
  <2>3. QED
    BY <1>3, <2>2
<1>6. \A x : OrderOf(x) \in Orders => (Placed(cd, x) => Placed(new, x))
  BY <1>1, <1>2, StaysPlaced
<1>7. \A k \in 1..r : OrderOf(p.outputs[k]) \in Orders
  <2>1. \A k \in 1..r : k \in 1..Len(p.outputs)
    BY PlanParts
  <2>2. QED
    BY <2>1, PlanParts
<1>8. /\ N \in Nat /\ DOMAIN cd[order] = 1..N /\ DOMAIN new[order] = 1..N+1
      /\ \A k \in 1..N : new[order][k] = cd[order][k]
      /\ new[order][N+1] = item
  <2>1. Grown(new, cd, order, item)
    BY <1>1, <1>2, ItemAppended
  <2>. HIDE DEF new
  <2>2. QED
    BY <2>1 DEF Grown
<1>. HIDE DEF new, N
<1>9. \A l \in DOMAIN pl : pl[l] \in Elements(pl)
  BY DEF Elements
<1>10. ASSUME NEW x \in Elements(pl)
       PROVE  Placed(new, x)
  <2>1. PICK l \in DOMAIN pl : x = pl[l]
    BY DEF Elements
  <2>2. x.name = pt /\ OrderOf(x) = order /\ Assigned(cd, x)
    BY <1>1
  <2>3. PICK a \in 1..N : cd[order][a] = Assignment("output", x)
    BY <1>8, <2>2 DEF Assigned
  <2>4. a \in 1..(N+1)-1 /\ N + 1 \in DOMAIN new[order]
    BY <1>8, <2>3
  <2>5. new[order][a] = Assignment("output", x)
    BY <1>8, <2>3
  <2>6. Occurs(new, order, N + 1, l, x)
    BY <1>5, <2>1
  <2>7. new[order][N+1].of[1] = x.name
    BY <1>3, <1>8, <2>2
  <2>8. QED
    BY <2>2, <2>4, <2>5, <2>6, <2>7 DEF Placed
<1>11. \A k \in 1..r : Placed(new, p.outputs[k]) \/ p.outputs[k] \in Elements(<< >>)
  BY <1>1, <1>6, <1>7, <1>10
<1>12. Elements(<< >>) = {}
  BY DEF Elements
<1>13. ASSUME NEW o \in Orders, NEW i, NEW l, NEW x, Occurs(new, o, i, l, x)
       PROVE  IsRead(p, r, x) /\ x \notin Elements(<< >>) /\ o = OrderOf(x)
  <2>1. CASE Occurs(cd, o, i, l, x)
    BY <1>1, <1>12, <2>1
  <2>2. CASE o = order /\ i = N + 1 /\ l \in DOMAIN pl /\ pl[l] = x
    <3>1. x \in Elements(pl)
      BY <1>9, <2>2
    <3>2. QED
      BY <1>1, <1>12, <2>2, <3>1
  <2>3. QED
    BY <1>5, <1>13, <2>1, <2>2
<1>14. ASSUME NEW o \in Orders, NEW i, NEW l, NEW j, NEW m, NEW x,
              Occurs(new, o, i, l, x), Occurs(new, o, j, m, x)
       PROVE  i = j /\ l = m
  <2>1. \/ Occurs(cd, o, i, l, x)
        \/ o = order /\ i = N + 1 /\ l \in DOMAIN pl /\ pl[l] = x
    BY <1>5, <1>14
  <2>2. \/ Occurs(cd, o, j, m, x)
        \/ o = order /\ j = N + 1 /\ m \in DOMAIN pl /\ pl[m] = x
    BY <1>5, <1>14
  <2>3. CASE x \in Elements(pl)
    <3>1. ~Occurs(cd, o, i, l, x) /\ ~Occurs(cd, o, j, m, x)
      BY <1>1, <2>3
    <3>2. QED
      BY <1>1, <2>1, <2>2, <3>1
  <2>4. CASE x \notin Elements(pl)
    <3>1. Occurs(cd, o, i, l, x) /\ Occurs(cd, o, j, m, x)
      BY <1>9, <2>1, <2>2, <2>4
    <3>2. QED
      BY <1>1, <3>1
  <2>5. QED
    BY <2>3, <2>4
<1>15. << >> \in Seq(Elements(p.outputs)) /\ NoTest \in Seq(Nat) \cup {NoTest}
  OBVIOUS
<1>16. \A l, m \in DOMAIN << >> : << >>[l] = << >>[m] => l = m
  OBVIOUS
<1>17. Holding(p, r, other, new, NoTest, << >>)
  BY <1>4, <1>11, <1>12, <1>13, <1>14, <1>15, <1>16 DEF Holding
<1>18. QED
  BY <1>2, <1>17 DEF new, item

(* The next output joins those of its variable. *)
LEMMA HoldJoin ==
  ASSUME NEW p, PlanOK(p), NEW r \in Nat, r + 1 =< Len(p.outputs), NEW order \in Orders,
         NEW cd, NEW pt, NEW pl, Holding(p, r, order, cd, pt, pl),
         NEW x, x = p.outputs[r+1], OrderOf(x) = order, pt \in {NoTest, x.name},
         Assigned(cd, x)
  PROVE  Holding(p, r + 1, order, cd, x.name, Append(pl, x))
<1>. DEFINE E == Elements(p.outputs)
            N == Len(pl)
            new == Append(pl, x)
<1>1. /\ cd \in [Orders -> Seq(Items(p))] /\ pl \in Seq(E)
      /\ pt = NoTest <=> pl = << >>
      /\ \A k \in 1..r : Placed(cd, p.outputs[k]) \/ p.outputs[k] \in Elements(pl)
      /\ \A o \in Orders : \A i, l, y : Occurs(cd, o, i, l, y) =>
           IsRead(p, r, y) /\ y \notin Elements(pl) /\ o = OrderOf(y)
      /\ \A o \in Orders : \A i, l, j, m, y :
           Occurs(cd, o, i, l, y) /\ Occurs(cd, o, j, m, y) => i = j /\ l = m
      /\ \A y \in Elements(pl) :
           IsRead(p, r, y) /\ y.name = pt /\ OrderOf(y) = order /\ Assigned(cd, y)
      /\ \A l, m \in DOMAIN pl : pl[l] = pl[m] => l = m
  BY DEF Holding
<1>2. r + 1 \in 1..Len(p.outputs) /\ \A k \in 1..r : k \in 1..Len(p.outputs) /\ k # r + 1
  BY PlanParts
<1>3. x \in E /\ x.name \in Seq(Nat) /\ x.name # NoTest
  BY <1>2, PlanParts
<1>4. ~IsRead(p, r, x)
  <2>1. \A k \in 1..r : p.outputs[k] # p.outputs[r+1]
    BY <1>2 DEF PlanOK
  <2>2. QED
    BY <2>1 DEF IsRead
<1>5. \A y : IsRead(p, r, y) => IsRead(p, r + 1, y)
  BY DEF IsRead
<1>6. IsRead(p, r + 1, x)
  BY DEF IsRead
<1>7. x \notin Elements(pl)
  BY <1>1, <1>4
<1>. HIDE DEF E
<1>8. /\ N \in Nat /\ DOMAIN pl = 1..N /\ new \in Seq(E) /\ DOMAIN new = 1..N+1
      /\ new[N+1] = x /\ new # << >> /\ \A k \in 1..N : new[k] = pl[k]
  <2>1. pl \in Seq(E) /\ x \in E
    BY <1>1, <1>3
  <2>2. N \in Nat /\ DOMAIN pl = 1..N /\ new \in Seq(E) /\ Len(new) = N + 1
    BY <2>1
  <2>3. new[N+1] = x /\ \A k \in 1..N : new[k] = pl[k]
    BY <2>1
  <2>4. DOMAIN new = 1..N+1 /\ new # << >>
    BY <2>2
  <2>5. QED
    BY <2>2, <2>3, <2>4
<1>. HIDE DEF new, N
<1>9. Elements(new) = Elements(pl) \cup {x}
  <2>1. ASSUME NEW y \in Elements(new) PROVE y \in Elements(pl) \cup {x}
    <3>1. PICK k \in 1..N+1 : y = new[k]
      BY <1>8 DEF Elements
    <3>2. k \in 1..N \/ k = N + 1
      BY <1>8, <3>1
    <3>3. QED
      BY <1>8, <3>1, <3>2 DEF Elements
  <2>2. ASSUME NEW y \in Elements(pl) PROVE y \in Elements(new)
    <3>1. PICK k \in 1..N : y = pl[k]
      BY <1>8 DEF Elements
    <3>2. k \in 1..N+1 /\ new[k] = y
      BY <1>8, <3>1
    <3>3. QED
      BY <1>8, <3>2 DEF Elements
  <2>3. x \in Elements(new)
    <3>1. N + 1 \in 1..N+1
      BY <1>8
    <3>2. QED
      BY <1>8, <3>1 DEF Elements
  <2>4. QED
    BY <2>1, <2>2, <2>3
<1>10. \A k \in 1..r+1 : Placed(cd, p.outputs[k]) \/ p.outputs[k] \in Elements(new)
  <2>1. \A k \in 1..r+1 : k \in 1..r \/ k = r + 1
    OBVIOUS
  <2>2. QED
    BY <1>1, <1>9, <2>1
<1>11. \A o \in Orders : \A i, l, y : Occurs(cd, o, i, l, y) =>
         IsRead(p, r + 1, y) /\ y \notin Elements(new) /\ o = OrderOf(y)
  BY <1>1, <1>4, <1>5, <1>9
<1>12. \A y \in Elements(new) :
         IsRead(p, r + 1, y) /\ y.name = x.name /\ OrderOf(y) = order /\ Assigned(cd, y)
  <2>1. \A y \in Elements(pl) : y.name = x.name
    <3>1. CASE pt = NoTest
      <4>1. Elements(pl) = {}
        BY <1>1, <3>1 DEF Elements
      <4>2. QED
        BY <4>1
    <3>2. CASE pt # NoTest
      BY <1>1, <3>2
    <3>3. QED
      BY <3>1, <3>2
  <2>2. QED
    BY <1>1, <1>5, <1>6, <1>9, <2>1
<1>13. ASSUME NEW l \in DOMAIN new, NEW m \in DOMAIN new, new[l] = new[m]
       PROVE  l = m
  <2>1. (l \in 1..N \/ l = N + 1) /\ (m \in 1..N \/ m = N + 1)
    BY <1>8
  <2>2. \A k \in 1..N : new[k] # x
    <3>1. \A k \in 1..N : pl[k] \in Elements(pl)
      BY <1>8 DEF Elements
    <3>2. QED
      BY <1>7, <1>8, <3>1
  <2>3. QED
    BY <1>1, <1>8, <1>13, <2>1, <2>2
<1>14. Holding(p, r + 1, order, cd, x.name, new)
  BY <1>1, <1>3, <1>8, <1>10, <1>11, <1>12, <1>13 DEF Holding, E
<1>15. QED
  BY <1>14 DEF new

(* The assignments of the code of an order, and those of all orders. *)
AssignmentsOf(s) ==
  FlattenSeq([i \in DOMAIN s |-> When(s[i].kind # "block", <<s[i]>>)])

AssignmentsIn(cd) == FlattenSeq([k \in 1..5 |-> AssignmentsOf(cd[k-1])])

AddsAssignment(s, item) ==
  /\ item.kind # "block" =>
       AssignmentsOf(Append(s, item)) = Append(AssignmentsOf(s), item)
  /\ item.kind = "block" => AssignmentsOf(Append(s, item)) = AssignmentsOf(s)

(* An assignment appended to the code of an order is its last one; a block is
   none. *)
LEMMA AssignmentsGrow ==
  ASSUME NEW I, NEW s \in Seq(I), NEW item \in I
  PROVE  AssignmentsOf(s) \in Seq(I) /\ AddsAssignment(s, item)
<1>. DEFINE N == Len(s)
            W(x) == When(x.kind # "block", <<x>>)
            ss == [i \in 1..N |-> W(s[i])]
            t == Append(s, item)
            tt == [i \in 1..N+1 |-> W(t[i])]
            flat == FlattenSeq(ss)
<1>1. N \in Nat /\ DOMAIN s = 1..N /\ \A i \in 1..N : s[i] \in I
  OBVIOUS
<1>2. DOMAIN t = 1..N+1 /\ t[N+1] = item /\ \A i \in 1..N : t[i] = s[i]
  OBVIOUS
<1>3. \A x \in I : W(x) \in Seq(I)
  <2>1. ASSUME NEW x \in I PROVE W(x) \in Seq(I)
    <3>1. <<x>> \in Seq(I) /\ << >> \in Seq(I)
      OBVIOUS
    <3>2. QED
      BY <3>1 DEF When
  <2>2. QED
    BY <2>1
<1>4. AssignmentsOf(s) = flat
  BY <1>1 DEF AssignmentsOf
<1>5. AssignmentsOf(t) = FlattenSeq(tt)
  <2>. HIDE DEF t
  <2>1. QED
    BY <1>2 DEF AssignmentsOf
<1>. HIDE DEF t, N, W
<1>6. ss \in Seq(Seq(I)) /\ Len(ss) = N /\ \A i \in 1..N : ss[i] = W(s[i])
  BY <1>1, <1>3
<1>7. tt = Append(ss, W(item))
  <2>1. /\ Append(ss, W(item)) \in Seq(Seq(I))
        /\ DOMAIN Append(ss, W(item)) = 1..N+1
        /\ Append(ss, W(item))[N+1] = W(item)
        /\ \A i \in 1..N : Append(ss, W(item))[i] = ss[i]
    <3>. DEFINE w == W(item)
    <3>1. w \in Seq(I)
      BY <1>3
    <3>. HIDE DEF w, ss
    <3>2. Append(ss, w) \in Seq(Seq(I)) /\ Len(Append(ss, w)) = N + 1
      BY <1>1, <1>6, <3>1
    <3>3. Append(ss, w)[N+1] = w /\ \A i \in 1..N : Append(ss, w)[i] = ss[i]
      BY <1>1, <1>6, <3>1
    <3>4. DOMAIN Append(ss, w) = 1..N+1
      BY <3>2
    <3>5. QED
      BY <3>2, <3>3, <3>4 DEF w
  <2>. DEFINE new == Append(ss, W(item))
  <2>2. new = [i \in 1..N+1 |-> new[i]]
    <3>. HIDE DEF new
    <3>1. new \in Seq(Seq(I)) /\ DOMAIN new = 1..N+1
      BY <2>1 DEF new
    <3>2. QED
      BY <3>1
  <2>3. ASSUME NEW i \in 1..N+1 PROVE new[i] = W(t[i])
    <3>1. i \in 1..N \/ i = N + 1
      BY <1>1
    <3>2. QED
      BY <1>2, <1>6, <2>1, <3>1
  <2>. HIDE DEF new
  <2>4. QED
    BY <2>2, <2>3 DEF new
<1>. HIDE DEF ss, tt
<1>8. flat \in Seq(I) /\ FlattenSeq(Append(ss, W(item))) = flat \o W(item)
  BY <1>3, <1>6, FlattenedAppend
<1>9. AssignmentsOf(t) = flat \o W(item)
  BY <1>5, <1>7, <1>8
<1>. HIDE DEF flat
<1>10. flat \o <<item>> = Append(flat, item) /\ flat \o << >> = flat
  BY <1>8
<1>11. /\ item.kind # "block" => W(item) = <<item>>
       /\ item.kind = "block" => W(item) = << >>
  BY DEF W, When
<1>12. QED
  BY <1>4, <1>8, <1>9, <1>10, <1>11 DEF t, AddsAssignment

(* The same of the code of all orders, when those after it are still empty. *)
LEMMA KeptWith ==
  ASSUME NEW I, NEW cd \in [Orders -> Seq(I)], NEW o \in Orders, NEW item \in I,
         \A q \in Orders : o < q => cd[q] = << >>
  PROVE  /\ item.kind # "block" =>
              AssignmentsIn(With(cd, o, item)) = Append(AssignmentsIn(cd), item)
         /\ item.kind = "block" => AssignmentsIn(With(cd, o, item)) = AssignmentsIn(cd)
<1>. DEFINE new == With(cd, o, item)
            ss == [k \in 1..5 |-> AssignmentsOf(cd[k-1])]
            tt == [k \in 1..5 |-> AssignmentsOf(new[k-1])]
<1>1. Orders = 0..4 /\ o \in 0..4
  BY DEF Orders, MaxSourceOrder
<1>2. /\ new \in [Orders -> Seq(I)] /\ new[o] = Append(cd[o], item)
      /\ \A q \in Orders : q # o => new[q] = cd[q]
  <2>1. Grown(new, cd, o, item) /\ new[o] = Append(cd[o], item) /\ new \in [Orders -> Seq(I)]
    BY ItemAppended
  <2>. HIDE DEF new
  <2>2. QED
    BY <2>1 DEF Grown
<1>. HIDE DEF new
<1>3. \A k \in 1..5 : k - 1 \in Orders /\ (k = o + 1 <=> k - 1 = o) /\ (o + 1 < k => o < k - 1)
  BY <1>1
<1>4. \A k \in 1..5 : AssignmentsOf(cd[k-1]) \in Seq(I) /\ AssignmentsOf(new[k-1]) \in Seq(I)
  <2>1. ASSUME NEW s \in Seq(I) PROVE AssignmentsOf(s) \in Seq(I)
    BY AssignmentsGrow
  <2>2. \A k \in 1..5 : cd[k-1] \in Seq(I) /\ new[k-1] \in Seq(I)
    BY <1>2, <1>3
  <2>3. QED
    BY <2>1, <2>2
<1>5. ss \in Seq(Seq(I)) /\ tt \in Seq(Seq(I)) /\ Len(ss) = 5 /\ Len(tt) = 5
  BY <1>4
<1>6. o + 1 \in 1..5 /\ (o + 1) - 1 = o
  BY <1>1
<1>7. \A k \in 1..5 : k # o + 1 => tt[k] = ss[k]
  BY <1>2, <1>3
<1>8. \A k \in 1..5 : o + 1 < k => ss[k] = << >>
  <2>1. AssignmentsOf(<< >>) = << >>
    BY DEF AssignmentsOf, FlattenSeq
  <2>2. QED
    BY <1>3, <2>1
<1>9. ss[o+1] = AssignmentsOf(cd[o]) /\ tt[o+1] = AssignmentsOf(new[o])
  BY <1>6
<1>10. cd[o] \in Seq(I)
  OBVIOUS
<1>11. ASSUME item.kind # "block"
       PROVE  AssignmentsIn(new) = Append(AssignmentsIn(cd), item)
  <2>1. AddsAssignment(cd[o], item)
    BY <1>10, AssignmentsGrow
  <2>2. tt[o+1] = Append(ss[o+1], item)
    BY <1>2, <1>9, <1>11, <2>1 DEF AddsAssignment
  <2>. DEFINE m == o + 1
  <2>. HIDE DEF ss, tt
  <2>3. /\ ss \in Seq(Seq(I)) /\ tt \in Seq(Seq(I)) /\ item \in I
        /\ Len(tt) = Len(ss) /\ m \in 1..Len(ss)
        /\ tt[m] = Append(ss[m], item)
        /\ \A i \in 1..Len(ss) : i # m => tt[i] = ss[i]
        /\ \A i \in 1..Len(ss) : m < i => ss[i] = << >>
    BY <1>5, <1>6, <1>7, <1>8, <2>2
  <2>. HIDE DEF m
  <2>4. GrowsBy(tt, ss, item)
    BY <2>3, FlattenedGrows
  <2>5. QED
    BY <2>4 DEF GrowsBy, AssignmentsIn, ss, tt
<1>12. ASSUME item.kind = "block"
       PROVE  AssignmentsIn(new) = AssignmentsIn(cd)
  <2>0. AddsAssignment(cd[o], item)
    BY <1>10, AssignmentsGrow
  <2>1. tt[o+1] = ss[o+1]
    BY <1>2, <1>9, <1>12, <2>0 DEF AddsAssignment
  <2>2. \A k \in 1..5 : tt[k] = ss[k]
    BY <1>7, <2>1
  <2>3. tt = ss
    BY <2>2
  <2>4. QED
    BY <2>3 DEF AssignmentsIn
<1>13. QED
  BY <1>11, <1>12 DEF new

(* The assignments are kept, and there are none after those of an order. *)
Kept(cd, o, ls) ==
  /\ AssignmentsIn(cd) = ls
  /\ \A q \in Orders : o < q => cd[q] = << >>

(* Appending to the order of the loop keeps the assignments and the empty
   orders. *)
LEMMA KeptLine ==
  ASSUME NEW I, NEW cd \in [Orders -> Seq(I)], NEW o \in Orders, NEW item \in I,
         NEW ls, Kept(cd, o, ls)
  PROVE  /\ item.kind # "block" => Kept(With(cd, o, item), o, Append(ls, item))
         /\ item.kind = "block" => Kept(With(cd, o, item), o, ls)
<1>. DEFINE new == With(cd, o, item)
<1>1. /\ item.kind # "block" => AssignmentsIn(new) = Append(AssignmentsIn(cd), item)
      /\ item.kind = "block" => AssignmentsIn(new) = AssignmentsIn(cd)
  BY KeptWith DEF Kept
<1>2. \A q \in Orders : o < q => new[q] = << >>
  <2>1. Grown(new, cd, o, item)
    BY ItemAppended
  <2>. HIDE DEF new
  <2>2. \A q \in Orders : q # o => new[q] = cd[q]
    BY <2>1 DEF Grown
  <2>3. \A q \in Orders : o < q => q # o
    BY DEF Orders, MaxSourceOrder
  <2>4. QED
    BY <2>2, <2>3 DEF Kept
<1>3. QED
  BY <1>1, <1>2 DEF Kept

(* The code with another code for an order. *)
At(cd, o, s) == [cd EXCEPT ![o] = s]

WithOne(cd, o, item) == With(cd, o, item) = At(cd, o, Append(cd[o], item))

WithMore(cd, o, s, item) == With(At(cd, o, s), o, item) = At(cd, o, Append(s, item))

(* Two items appended to one order are one change of the code. *)
LEMMA WithAgain ==
  ASSUME NEW I, NEW cd \in [Orders -> Seq(I)], NEW o \in Orders, NEW s \in Seq(I),
         NEW item \in I
  PROVE  WithMore(cd, o, s, item) /\ WithOne(cd, o, item)
<1>. DEFINE t == Append(s, item)
<1>1. At(cd, o, s) = [q \in Orders |-> IF q = o THEN s ELSE cd[q]]
  BY DEF At
<1>2. At(cd, o, t) = [q \in Orders |-> IF q = o THEN t ELSE cd[q]]
  BY DEF At
<1>3. With(At(cd, o, s), o, item) = [q \in Orders |-> IF q = o THEN t ELSE cd[q]]
  <2>. DEFINE c == At(cd, o, s)
  <2>1. DOMAIN c = Orders /\ c[o] = s /\ \A q \in Orders : q # o => c[q] = cd[q]
    BY <1>1
  <2>. HIDE DEF c
  <2>2. With(c, o, item) = [q \in Orders |-> IF q = o THEN Append(c[o], item) ELSE c[q]]
    BY <2>1 DEF With
  <2>3. QED
    BY <2>1, <2>2 DEF c
<1>4. WithOne(cd, o, item)
  BY DEF With, At, WithOne
<1>5. QED
  BY <1>2, <1>3, <1>4 DEF WithMore

(* What AddOutput makes of the code and of the pending outputs, before it looks
   whether the order has ended. *)
Adds(cd, o, pt, pl, x, before, rows, outs) ==
  /\ before = Append(cd[o], Assignment("output", x))
  /\ rows = IF pt = x.name \/ pt = NoTest THEN before ELSE Append(before, Block(pt, pl))
  /\ outs = IF pt = x.name THEN Append(pl, x) ELSE <<x>>

(* An output read is pending afterwards, and what it pushed out is in a
   block. *)
LEMMA OutputHeld ==
  ASSUME NEW p, PlanOK(p), NEW r \in Nat, r + 1 =< Len(p.outputs), NEW o \in Orders,
         NEW cd, NEW pt, NEW pl, Holding(p, r, o, cd, pt, pl),
         NEW ls, Kept(cd, o, ls),
         NEW x, x = p.outputs[r+1], OrderOf(x) = o,
         NEW rows, NEW outs, NEW before, Adds(cd, o, pt, pl, x, before, rows, outs)
  PROVE  /\ Holding(p, r + 1, o, At(cd, o, rows), x.name, outs)
         /\ Kept(At(cd, o, rows), o, Append(ls, Assignment("output", x)))
<1>. DEFINE line == Assignment("output", x)
            I == Items(p)
            c1 == With(cd, o, line)
<1>0. /\ before = Append(cd[o], Assignment("output", x))
      /\ rows = IF pt = x.name \/ pt = NoTest THEN before ELSE Append(before, Block(pt, pl))
      /\ outs = IF pt = x.name THEN Append(pl, x) ELSE <<x>>
  BY DEF Adds
<1>1. r + 1 \in 1..Len(p.outputs) /\ x \in Elements(p.outputs)
  <2>1. r + 1 \in 1..Len(p.outputs)
    BY PlanParts
  <2>2. QED
    BY <2>1, PlanParts
<1>2. line \in LinesOf(p)
  BY <1>1 DEF LinesOf
<1>3. line \in I /\ line.kind # "block"
  BY <1>2, KindsOfItems
<1>4. cd \in [Orders -> Seq(I)] /\ (pt = NoTest <=> pl = << >>)
  BY DEF Holding
<1>5. cd[o] \in Seq(I) /\ before \in Seq(I)
  <2>1. cd[o] \in Seq(I)
    BY <1>4
  <2>2. before = Append(cd[o], line)
    BY <1>0
  <2>. HIDE DEF line, I
  <2>3. QED
    BY <1>3, <2>1, <2>2
<1>6. c1 = At(cd, o, before)
  <2>1. before = Append(cd[o], line)
    BY <1>0
  <2>2. WithOne(cd, o, line)
    BY <1>3, <1>4, <1>5, WithAgain
  <2>3. QED
    BY <2>1, <2>2 DEF WithOne
<1>7. Holding(p, r, o, c1, pt, pl)
  <2>1. r =< Len(p.outputs)
    BY <1>1, PlanParts
  <2>2. QED
    BY <1>2, <2>1, HoldAssign
<1>8. Kept(c1, o, Append(ls, line))
  BY <1>3, <1>4, KeptLine
<1>9. Assigned(c1, x)
  <2>1. Grown(c1, cd, o, line)
    BY <1>3, <1>4, ItemAppended
  <2>. HIDE DEF c1
  <2>2. Len(cd[o]) + 1 \in DOMAIN c1[o] /\ c1[o][Len(cd[o])+1] = line
    BY <2>1 DEF Grown
  <2>3. QED
    BY <2>2 DEF Assigned
<1>10. c1 \in [Orders -> Seq(I)]
  BY <1>7 DEF Holding
<1>. HIDE DEF c1, I, line
<1>11. CASE pt = x.name \/ pt = NoTest
  <2>1. outs = Append(pl, x)
    <3>1. CASE pt = x.name
      BY <1>0, <3>1
    <3>2. CASE pt # x.name
      <4>1. pl = << >> /\ outs = <<x>>
        BY <1>0, <1>4, <1>11, <3>2
      <4>2. Append(<< >>, x) = <<x>>
        OBVIOUS
      <4>3. QED
        BY <4>1, <4>2
    <3>3. QED
      BY <3>1, <3>2
  <2>2. Holding(p, r + 1, o, c1, x.name, outs)
    <3>1. pt \in {NoTest, x.name}
      BY <1>11
    <3>2. Holding(p, r + 1, o, c1, x.name, Append(pl, x))
      BY <1>7, <1>9, <3>1, HoldJoin
    <3>3. QED
      BY <2>1, <3>2
  <2>3. rows = before
    BY <1>0, <1>11
  <2>4. QED
    BY <1>6, <1>8, <2>2, <2>3 DEF line
<1>12. CASE pt # x.name /\ pt # NoTest
  <2>. DEFINE B == Block(pt, pl)
              c2 == With(c1, o, B)
  <2>1. B \in I /\ Holding(p, r, o, c2, NoTest, << >>)
    <3>1. r =< Len(p.outputs)
      BY <1>1, PlanParts
    <3>2. QED
      BY <1>7, <1>12, <3>1, HoldEmit DEF I
  <2>2. B.kind = "block"
    BY DEF Block
  <2>. HIDE DEF B
  <2>3. Kept(c2, o, Append(ls, line))
    BY <1>8, <1>10, <2>1, <2>2, KeptLine
  <2>4. c2 = At(cd, o, Append(before, B))
    <3>1. WithMore(cd, o, before, B)
      BY <1>4, <1>5, <2>1, WithAgain
    <3>2. QED
      BY <1>6, <3>1 DEF WithMore
  <2>5. Assigned(c2, x)
    <3>1. OrderOf(x) \in Orders
      OBVIOUS
    <3>2. QED
      BY <1>9, <1>10, <2>1, <3>1, StaysPlaced
  <2>. HIDE DEF c2
  <2>6. outs = Append(<< >>, x)
    <3>1. outs = <<x>>
      BY <1>0, <1>12
    <3>2. Append(<< >>, x) = <<x>>
      OBVIOUS
    <3>3. QED
      BY <3>1, <3>2
  <2>7. Holding(p, r + 1, o, c2, x.name, outs)
    <3>1. Holding(p, r + 1, o, c2, x.name, Append(<< >>, x))
      <4>1. NoTest \in {NoTest, x.name}
        OBVIOUS
      <4>2. QED
        BY <2>1, <2>5, <4>1, HoldJoin
    <3>2. QED
      BY <2>6, <3>1
  <2>8. rows = Append(before, B)
    BY <1>0, <1>12 DEF B
  <2>9. QED
    BY <2>3, <2>4, <2>7, <2>8 DEF line
<1>13. QED
  BY <1>11, <1>12

(* The last output of an order ends its last block. *)
LEMMA OrderEnds ==
  ASSUME NEW p, PlanOK(p), NEW r \in Nat, r =< Len(p.outputs), NEW o \in Orders,
         NEW cd, NEW pt, NEW pl, Holding(p, r, o, cd, pt, pl), pt # NoTest,
         NEW ls, Kept(cd, o, ls)
  PROVE  /\ Holding(p, r, o + 1, With(cd, o, Block(pt, pl)), NoTest, << >>)
         /\ Kept(With(cd, o, Block(pt, pl)), o + 1, ls)
<1>. DEFINE B == Block(pt, pl)
            new == With(cd, o, B)
<1>1. B \in Items(p) /\ Holding(p, r, o + 1, new, NoTest, << >>)
  BY HoldEmit
<1>2. B.kind = "block"
  BY DEF Block
<1>3. cd \in [Orders -> Seq(Items(p))]
  BY DEF Holding
<1>. HIDE DEF B
<1>4. Kept(new, o, ls)
  BY <1>1, <1>2, <1>3, KeptLine
<1>. HIDE DEF new
<1>5. \A q \in Orders : o + 1 < q => o < q
  BY DEF Orders, MaxSourceOrder
<1>6. QED
  BY <1>1, <1>4, <1>5 DEF Kept, new, B

(* What of the outputs has still to be printed, when r were. *)
Unread(p, rest, r) ==
  /\ rest \in Seq(Elements(p.outputs)) /\ r + Len(rest) = Len(p.outputs)
  /\ \A k \in 1..Len(rest) : rest[k] = p.outputs[r+k]

BlocksAfter(r) ==
  /\ PlanOK(plan) /\ Unread(plan, asked, r)
  /\ totalOrder \in Orders
  /\ asked = << >> => pendingTest = NoTest
  /\ asked # << >> => totalOrder = OrderOf(plan.outputs[r+1])
  /\ Holding(plan, r, totalOrder, code, pendingTest, pendingLines)
  /\ Kept(code, totalOrder, lines)
  /\ lines \in Seq(LinesOf(plan))
  /\ status \in {"running", "returned"}
  /\ status = "returned" => asked = << >>

BlocksInvariant == \E r \in Nat : BlocksAfter(r)

(* Code without items has no assignments. *)
LEMMA NothingKept ==
  Kept([o \in Orders |-> << >>], 0, << >>)
<1>. DEFINE cd == [o \in Orders |-> << >>]
            ss == [k \in 1..5 |-> AssignmentsOf(cd[k-1])]
<1>1. Orders = 0..4
  BY DEF Orders, MaxSourceOrder
<1>2. AssignmentsOf(<< >>) = << >>
  BY DEF AssignmentsOf, FlattenSeq
<1>3. \A k \in 1..5 : k - 1 \in Orders
  BY <1>1
<1>4. \A k \in 1..5 : ss[k] = << >>
  BY <1>2, <1>3
<1>5. ss \in Seq(Seq(Nat)) /\ Len(ss) = 5
  <2>1. << >> \in Seq(Nat)
    OBVIOUS
  <2>2. \A k \in 1..5 : AssignmentsOf(cd[k-1]) \in Seq(Nat)
    BY <1>2, <1>3, <2>1
  <2>3. QED
    BY <2>2
<1>. HIDE DEF ss
<1>6. PICK f : IsFlattening(f, ss) /\ FlattenSeq(ss) = f[5]
  <2>1. Len(ss) \in Nat \ {0}
    BY <1>5
  <2>2. QED
    BY <1>5, <2>1, FlattenSteps
<1>7. f[1] = ss[1] /\ \A k \in 2..5 : f[k] = f[k-1] \o ss[k]
  BY <1>5, <1>6 DEF IsFlattening
<1>8. << >> \o << >> = << >>
  OBVIOUS
<1>9. \A k \in 2..5 : f[k-1] = << >> => f[k] = << >>
  <2>1. SUFFICES ASSUME NEW k \in 2..5, f[k-1] = << >> PROVE f[k] = << >>
    OBVIOUS
  <2>2. k \in 1..5
    OBVIOUS
  <2>3. f[k] = << >> \o << >>
    BY <1>4, <1>7, <2>1, <2>2
  <2>4. QED
    BY <1>8, <2>3
<1>10. f[1] = << >>
  BY <1>4, <1>7
<1>11. f[2] = << >> /\ f[3] = << >> /\ f[4] = << >> /\ f[5] = << >>
  <2>1. f[2-1] = << >> /\ (f[3-1] = f[2] /\ f[4-1] = f[3] /\ f[5-1] = f[4])
    BY <1>10
  <2>2. 2 \in 2..5 /\ 3 \in 2..5 /\ 4 \in 2..5 /\ 5 \in 2..5
    OBVIOUS
  <2>3. QED
    BY <1>9, <2>1, <2>2
<1>12. f[5] = << >>
  BY <1>11
<1>13. AssignmentsIn(cd) = << >>
  BY <1>6, <1>12 DEF AssignmentsIn, ss
<1>14. QED
  BY <1>13 DEF Kept

(* Before the first output nothing is in a block or pending. *)
LEMMA NothingHeld ==
  ASSUME NEW p, PlanOK(p), NEW order
  PROVE  Holding(p, 0, order, [o \in Orders |-> << >>], NoTest, << >>)
<1>. DEFINE cd == [o \in Orders |-> << >>]
<1>1. \A o \in Orders : \A i, l, x : ~Occurs(cd, o, i, l, x)
  BY DEF Occurs
<1>2. cd \in [Orders -> Seq(Items(p))] /\ << >> \in Seq(Elements(p.outputs))
  OBVIOUS
<1>3. Elements(<< >>) = {}
  BY DEF Elements
<1>4. \A l, m \in DOMAIN << >> : << >>[l] = << >>[m] => l = m
  OBVIOUS
<1>. HIDE DEF cd
<1>5. \A k \in 1..0 : Placed(cd, p.outputs[k]) \/ p.outputs[k] \in Elements(<< >>)
  OBVIOUS
<1>6. Holding(p, 0, order, cd, NoTest, << >>)
  BY <1>1, <1>2, <1>3, <1>4, <1>5 DEF Holding
<1>7. QED
  BY <1>6 DEF cd

(* maple_run starts in the invariant. *)
LEMMA BlocksStart == BlocksInit => BlocksInvariant
<1>1. SUFFICES ASSUME BlocksInit PROVE BlocksAfter(0)
  BY DEF BlocksInvariant
<1>2. PlanOK(plan)
  BY <1>1, PlanIsOK DEF BlocksInit
<1>3. /\ asked = plan.outputs /\ lines = << >> /\ totalOrder = plan.start
      /\ code = [o \in Orders |-> << >>] /\ pendingTest = NoTest /\ pendingLines = << >>
      /\ status = "running"
  BY <1>1 DEF BlocksInit
<1>4. /\ asked \in Seq(Elements(plan.outputs)) /\ Len(asked) \in Nat \ {0}
      /\ totalOrder = OrderOf(plan.outputs[1]) /\ plan.start \in 0..3
  BY <1>2, <1>3 DEF PlanOK
<1>5. totalOrder \in Orders
  BY <1>3, <1>4 DEF Orders, MaxSourceOrder
<1>6. Unread(plan, asked, 0)
  BY <1>3, <1>4 DEF Unread
<1>7. Kept(code, totalOrder, lines)
  <2>1. Kept(code, 0, lines)
    BY <1>3, NothingKept
  <2>2. \A q \in Orders : code[q] = << >>
    BY <1>3
  <2>3. QED
    BY <2>1, <2>2 DEF Kept
<1>8. Holding(plan, 0, totalOrder, code, pendingTest, pendingLines)
  BY <1>2, <1>3, NothingHeld
<1>9. lines \in Seq(LinesOf(plan))
  BY <1>3
<1>10. QED
  BY <1>2, <1>3, <1>4, <1>5, <1>6, <1>7, <1>8, <1>9 DEF BlocksAfter

(* With an output left, its order is that of the loop. *)
LEMMA NextAsked ==
  ASSUME NEW r \in Nat, BlocksAfter(r), asked # << >>
  PROVE  /\ r + 1 =< Len(plan.outputs) /\ r + 1 \in 1..Len(plan.outputs)
         /\ Head(asked) = plan.outputs[r+1]
         /\ Head(asked) \in Elements(plan.outputs)
         /\ OrderOf(Head(asked)) = totalOrder
         /\ Unread(plan, Tail(asked), r + 1)
         /\ Tail(asked) = << >> <=> r + 1 = Len(plan.outputs)
<1>. DEFINE N == Len(plan.outputs)
            n == Len(asked)
            rest == Tail(asked)
            E == Elements(plan.outputs)
<1>1. /\ asked \in Seq(E) /\ r + n = N
      /\ \A k \in 1..n : asked[k] = plan.outputs[r+k]
      /\ totalOrder = OrderOf(plan.outputs[r+1]) /\ PlanOK(plan)
  BY DEF BlocksAfter, Unread
<1>2. N \in Nat
  BY <1>1, PlanParts
<1>. HIDE DEF N, E
<1>3. n \in Nat \ {0} /\ Head(asked) = asked[1] /\ Head(asked) \in E
  BY <1>1
<1>4. rest \in Seq(E) /\ Len(rest) = n - 1 /\ \A k \in 1..n-1 : rest[k] = asked[k+1]
  BY <1>1, <1>3
<1>. HIDE DEF rest, n
<1>5. rest = << >> <=> n = 1
  BY <1>3, <1>4
<1>6. r + 1 =< N /\ r + 1 \in 1..N /\ 1 \in 1..n /\ (n = 1 <=> r + 1 = N)
  BY <1>1, <1>2, <1>3
<1>7. Head(asked) = plan.outputs[r+1]
  BY <1>1, <1>3, <1>6
<1>8. \A k \in 1..n-1 : rest[k] = plan.outputs[(r+1)+k]
  <2>1. \A k \in 1..n-1 : k + 1 \in 1..n /\ r + (k + 1) = (r + 1) + k
    BY <1>3
  <2>2. \A k \in 1..n-1 : rest[k] = plan.outputs[r+(k+1)]
    BY <1>1, <1>4, <2>1
  <2>3. QED
    BY <2>1, <2>2
<1>9. (r + 1) + (n - 1) = N
  BY <1>1, <1>3
<1>10. Unread(plan, rest, r + 1)
  BY <1>4, <1>8, <1>9 DEF Unread, N, E
<1>11. QED
  BY <1>1, <1>3, <1>5, <1>6, <1>7, <1>10 DEF N, E, rest

(* A temporary keeps the invariant. *)
LEMMA TemporaryStep ==
  ASSUME NEW r \in Nat, BlocksAfter(r), ReadTemporary
  PROVE  BlocksAfter(r)'
<1>. DEFINE line == Assignment("temporary", Len(lines))
<1>1. /\ lines' = Append(lines, line)
      /\ code' = With(code, totalOrder, line)
      /\ UNCHANGED <<plan, asked, totalOrder, pendingTest, pendingLines, status>>
  BY DEF ReadTemporary, With
<1>2. /\ PlanOK(plan) /\ Unread(plan, asked, r) /\ totalOrder \in Orders
      /\ Holding(plan, r, totalOrder, code, pendingTest, pendingLines)
      /\ Kept(code, totalOrder, lines) /\ lines \in Seq(LinesOf(plan))
  BY DEF BlocksAfter
<1>3. line \in LinesOf(plan)
  <2>1. Len(lines) \in Nat
    BY <1>2
  <2>2. QED
    BY <2>1 DEF LinesOf
<1>. HIDE DEF line
<1>4. r =< Len(plan.outputs)
  <2>1. Len(asked) \in Nat /\ r + Len(asked) = Len(plan.outputs)
    BY <1>2 DEF Unread
  <2>2. QED
    BY <2>1
<1>5. Holding(plan, r, totalOrder, code', pendingTest, pendingLines)
  BY <1>1, <1>2, <1>3, <1>4, HoldAssign
<1>6. Kept(code', totalOrder, lines')
  <2>1. line \in Items(plan) /\ line.kind # "block"
    BY <1>3, KindsOfItems
  <2>2. code \in [Orders -> Seq(Items(plan))]
    BY <1>2 DEF Holding
  <2>3. QED
    BY <1>1, <1>2, <2>1, <2>2, KeptLine
<1>7. lines' \in Seq(LinesOf(plan))
  BY <1>1, <1>2, <1>3
<1>8. QED
  BY <1>1, <1>5, <1>6, <1>7 DEF BlocksAfter

(* At the end of the output nothing is pending, so that nothing is flushed. *)
LEMMA AllReadStep ==
  ASSUME NEW r \in Nat, BlocksAfter(r), AllRead
  PROVE  BlocksAfter(r)'
<1>1. asked = << >> /\ pendingTest = NoTest
  BY DEF AllRead, BlocksAfter
<1>2. pendingLines = << >>
  BY <1>1 DEF BlocksAfter, Holding
<1>3. /\ code' = code /\ pendingTest' = pendingTest /\ pendingLines' = pendingLines
      /\ status' = "returned" /\ UNCHANGED <<plan, asked, lines, totalOrder>>
  BY <1>1, <1>2 DEF AllRead
<1>4. QED
  BY <1>1, <1>3 DEF BlocksAfter

(* An output that is read passes the assertion and keeps the invariant. *)
LEMMA OutputStep ==
  ASSUME NEW r \in Nat, BlocksAfter(r), ReadOutput
  PROVE  BlocksAfter(r + 1)'
<1>. DEFINE x == Head(asked)
            o == totalOrder
            line == Assignment("output", x)
            before == Append(code[o], line)
            rows == IF pendingTest = x.name THEN before ELSE Flushed(before)
            outs == IF pendingTest = x.name THEN Append(pendingLines, x) ELSE <<x>>
            last == x = plan.last[o]
            cd == At(code, o, rows)
            N == Len(plan.outputs)
<1>1. asked # << >> /\ status = "running" /\ plan' = plan
  BY DEF ReadOutput
<1>2. /\ PlanOK(plan) /\ Unread(plan, asked, r) /\ totalOrder \in Orders
      /\ Holding(plan, r, totalOrder, code, pendingTest, pendingLines)
      /\ Kept(code, totalOrder, lines) /\ lines \in Seq(LinesOf(plan))
  BY DEF BlocksAfter
<1>3. /\ r + 1 =< N /\ r + 1 \in 1..N /\ x = plan.outputs[r+1]
      /\ x \in Elements(plan.outputs) /\ OrderOf(x) = o
      /\ Unread(plan, Tail(asked), r + 1)
      /\ (Tail(asked) = << >> <=> r + 1 = N)
  BY <1>1, NextAsked
<1>4. AddOutput(x) /\ asked' = Tail(asked) /\ status' = status
  BY <1>3 DEF ReadOutput, OrderOf
<1>5. /\ lines' = Append(lines, line)
      /\ code' = At(code, o, IF last THEN Append(rows, Block(x.name, outs)) ELSE rows)
      /\ pendingTest' = IF last THEN NoTest ELSE x.name
      /\ pendingLines' = IF last THEN << >> ELSE outs
      /\ totalOrder' = IF last THEN o + 1 ELSE o
  BY <1>4 DEF AddOutput, At
<1>6. lines' \in Seq(LinesOf(plan))
  <2>1. line \in LinesOf(plan)
    BY <1>3 DEF LinesOf
  <2>. HIDE DEF line
  <2>2. QED
    BY <1>2, <1>5, <2>1
<1>7. rows = IF pendingTest = x.name \/ pendingTest = NoTest THEN before
             ELSE Append(before, Block(pendingTest, pendingLines))
  BY DEF Flushed
<1>. HIDE DEF x
<1>8. Holding(plan, r + 1, o, cd, x.name, outs) /\ Kept(cd, o, lines')
  <2>. DEFINE b == before
              rw == rows
              ot == outs
  <2>1. Adds(code, o, pendingTest, pendingLines, x, b, rw, ot)
    BY <1>7 DEF Adds
  <2>. HIDE DEF b, rw, ot
  <2>2. /\ Holding(plan, r + 1, o, At(code, o, rw), x.name, ot)
        /\ Kept(At(code, o, rw), o, Append(lines, Assignment("output", x)))
    BY <1>2, <1>3, <2>1, OutputHeld
  <2>3. QED
    BY <1>5, <2>2 DEF b, rw, ot
<1>9. /\ x.name # NoTest
      /\ IF last THEN r + 1 < N => OrderOf(plan.outputs[(r+1)+1]) = o + 1
         ELSE r + 1 < N /\ OrderOf(plan.outputs[(r+1)+1]) = o
  <2>1. x.name # NoTest
    BY <1>2, <1>3, PlanParts
  <2>2. IF plan.outputs[r+1] = plan.last[OrderOf(plan.outputs[r+1])]
        THEN r + 1 < N => OrderOf(plan.outputs[(r+1)+1]) = OrderOf(plan.outputs[r+1]) + 1
        ELSE r + 1 < N /\ OrderOf(plan.outputs[(r+1)+1]) = OrderOf(plan.outputs[r+1])
    BY <1>2, <1>3 DEF PlanOK
  <2>3. QED
    BY <1>3, <2>1, <2>2
<1>10. N \in Nat /\ o \in 0..3
  <2>1. N \in Nat
    BY <1>2, PlanParts
  <2>2. OrderOf(plan.outputs[r+1]) \in 0..3
    BY <1>2, <1>3 DEF PlanOK
  <2>3. QED
    BY <1>3, <2>1, <2>2
<1>. HIDE DEF N, outs, rows, o
<1>11. CASE last
  <2>1. code' = With(cd, o, Block(x.name, outs))
    <3>1. cd \in [Orders -> Seq(Items(plan))] /\ Block(x.name, outs) \in Items(plan)
      <4>1. cd \in [Orders -> Seq(Items(plan))]
        BY <1>8 DEF Holding
      <4>2. Block(x.name, outs) \in Items(plan)
        BY <1>8, <1>9 DEF Holding, Items
      <4>3. QED
        BY <4>1, <4>2
    <3>2. code \in [Orders -> Seq(Items(plan))]
      BY <1>2 DEF Holding
    <3>3. rows \in Seq(Items(plan))
      <4>1. cd[o] = rows
        BY <1>2, <3>2 DEF At, o
      <4>2. QED
        BY <1>2, <3>1, <4>1 DEF o
    <3>4. WithMore(code, o, rows, Block(x.name, outs))
      BY <1>2, <3>1, <3>2, <3>3, WithAgain DEF o
    <3>5. QED
      BY <1>5, <1>11, <3>4 DEF WithMore
  <2>2. /\ Holding(plan, r + 1, o + 1, code', NoTest, << >>)
        /\ Kept(code', o + 1, lines')
    <3>. DEFINE c == cd
                t == x.name
                s == r + 1
    <3>1. /\ Holding(plan, s, o, c, t, outs) /\ t # NoTest /\ Kept(c, o, lines')
          /\ PlanOK(plan) /\ s \in Nat /\ s =< Len(plan.outputs) /\ o \in Orders
      BY <1>2, <1>3, <1>8, <1>9 DEF N, o
    <3>2. code' = With(c, o, Block(t, outs))
      BY <2>1
    <3>. HIDE DEF c, t, s
    <3>3. /\ Holding(plan, s, o + 1, With(c, o, Block(t, outs)), NoTest, << >>)
          /\ Kept(With(c, o, Block(t, outs)), o + 1, lines')
      BY <3>1, OrderEnds
    <3>4. QED
      BY <3>2, <3>3 DEF s
  <2>3. /\ totalOrder' = o + 1 /\ pendingTest' = NoTest /\ pendingLines' = << >>
    BY <1>5, <1>11
  <2>4. o + 1 \in Orders
    BY <1>10 DEF Orders, MaxSourceOrder
  <2>5. Tail(asked) # << >> => o + 1 = OrderOf(plan.outputs[(r+1)+1])
    <3>1. SUFFICES ASSUME Tail(asked) # << >>
                   PROVE  o + 1 = OrderOf(plan.outputs[(r+1)+1])
      OBVIOUS
    <3>2. r + 1 < N
      BY <1>3, <1>10, <3>1 DEF N
    <3>3. QED
      BY <1>9, <1>11, <3>2
  <2>. HIDE DEF cd
  <2>6. PlanOK(plan)' /\ Unread(plan, asked, r + 1)' /\ (lines \in Seq(LinesOf(plan)))'
    BY <1>1, <1>2, <1>3, <1>4, <1>6
  <2>7. Holding(plan, r + 1, totalOrder, code, pendingTest, pendingLines)'
    BY <1>1, <2>2, <2>3
  <2>8. Kept(code, totalOrder, lines)'
    BY <2>2, <2>3
  <2>9. /\ (totalOrder \in Orders)'
        /\ (asked # << >> => totalOrder = OrderOf(plan.outputs[(r+1)+1]))'
        /\ (asked = << >> => pendingTest = NoTest)' /\ status' = "running"
    BY <1>1, <1>4, <2>3, <2>4, <2>5
  <2>10. QED
    BY <2>6, <2>7, <2>8, <2>9 DEF BlocksAfter
<1>12. CASE ~last
  <2>1. /\ totalOrder' = o /\ pendingTest' = x.name /\ pendingLines' = outs /\ code' = cd
    BY <1>5, <1>12
  <2>2. Tail(asked) # << >> /\ o = OrderOf(plan.outputs[(r+1)+1])
    <3>1. r + 1 < N /\ o = OrderOf(plan.outputs[(r+1)+1])
      BY <1>9, <1>12
    <3>2. QED
      BY <1>3, <1>10, <3>1 DEF N
  <2>. HIDE DEF cd
  <2>3. PlanOK(plan)' /\ Unread(plan, asked, r + 1)' /\ (lines \in Seq(LinesOf(plan)))'
    BY <1>1, <1>2, <1>3, <1>4, <1>6
  <2>4. Holding(plan, r + 1, totalOrder, code, pendingTest, pendingLines)'
    BY <1>1, <1>8, <2>1
  <2>5. Kept(code, totalOrder, lines)'
    BY <1>8, <2>1
  <2>6. /\ (totalOrder \in Orders)'
        /\ (asked # << >> => totalOrder = OrderOf(plan.outputs[(r+1)+1]))'
        /\ (asked = << >> => pendingTest = NoTest)' /\ status' = "running"
    BY <1>1, <1>2, <1>4, <2>1, <2>2 DEF o
  <2>7. QED
    BY <2>3, <2>4, <2>5, <2>6 DEF BlocksAfter
<1>13. QED
  BY <1>11, <1>12

(* The invariant of the pass over the lines holds in every reachable state;
   the theorems below read their properties off it. *)
THEOREM BlocksKept == BlocksSpec => []BlocksInvariant
<1>1. BlocksInit => BlocksInvariant
  BY BlocksStart
<1>2. BlocksInvariant /\ [BlocksNext]_blocksVars => BlocksInvariant'
  <2>1. SUFFICES ASSUME BlocksInvariant, [BlocksNext]_blocksVars PROVE BlocksInvariant'
    OBVIOUS
  <2>2. PICK r \in Nat : BlocksAfter(r)
    BY <2>1 DEF BlocksInvariant
  <2>3. CASE ReadTemporary
    BY <2>2, <2>3, TemporaryStep DEF BlocksInvariant
  <2>4. CASE ReadOutput
    <3>1. BlocksAfter(r + 1)' /\ r + 1 \in Nat
      BY <2>2, <2>4, OutputStep
    <3>2. QED
      BY <3>1 DEF BlocksInvariant
  <2>5. CASE AllRead
    BY <2>2, <2>5, AllReadStep DEF BlocksInvariant
  <2>6. CASE UNCHANGED blocksVars
    BY <2>2, <2>6 DEF BlocksInvariant, BlocksAfter, blocksVars
  <2>7. QED
    BY <2>1, <2>3, <2>4, <2>5, <2>6 DEF BlocksNext
<1>3. QED
  BY <1>1, <1>2, PTL DEF BlocksSpec

(* The assertion in maple_run never fails, for any number of features, with
   batches or without, whatever temporaries Maple prints. *)
THEOREM NoAssertionFails == BlocksSpec => []OrdersAgree
<1>1. BlocksInvariant => OrdersAgree
  BY DEF BlocksInvariant, BlocksAfter, OrdersAgree
<1>2. QED
  BY <1>1, BlocksKept, PTL

(* No assignment is lost, doubled or moved before one it followed. *)
THEOREM LinesStayInOrder == BlocksSpec => []AssignmentsKept
<1>1. ASSUME BlocksInvariant PROVE AssignmentsKept
  <2>1. PICK r \in Nat : BlocksAfter(r)
    BY <1>1 DEF BlocksInvariant
  <2>2. AssignmentsIn(code) = lines
    BY <2>1 DEF BlocksAfter, Kept
  <2>3. QED
    BY <2>2 DEF AssignmentsKept, AssignmentsIn, AssignmentsOf, MaxSourceOrder
<1>2. QED
  BY <1>1, BlocksKept, PTL

(* When maple_run returns, every output is added to its buffer once, in the
   code of its order, under the test of its variable and after its
   assignment. *)
THEOREM OutputsAddedOnce == BlocksSpec => []AddedOnce
<1>1. ASSUME BlocksInvariant PROVE AddedOnce
  <2>1. PICK r \in Nat : BlocksAfter(r)
    BY <1>1 DEF BlocksInvariant
  <2>. DEFINE N == Len(plan.outputs)
  <2>2. SUFFICES ASSUME status = "returned", NEW k \in DOMAIN plan.outputs
                 PROVE LET out == plan.outputs[k]
                           rows == code[Len(out.name)]
                           places(o) == {i \in DOMAIN code[o] :
                                           /\ code[o][i].kind = "block"
                                           /\ \E l \in DOMAIN code[o][i].of[2] :
                                                code[o][i].of[2][l] = out}
                       IN  \E i \in DOMAIN rows :
                             /\ \A o \in Orders :
                                  places(o) = IF o = Len(out.name) THEN {i} ELSE {}
                             /\ rows[i].of[1] = out.name
                             /\ Cardinality({l \in DOMAIN rows[i].of[2] :
                                               rows[i].of[2][l] = out}) = 1
                             /\ \E a \in 1..i-1 : rows[a] = Assignment("output", out)
    BY DEF AddedOnce
  <2>. DEFINE out == plan.outputs[k]
              o1 == Len(out.name)
              rows == code[o1]
              places(o) == {i \in DOMAIN code[o] :
                              /\ code[o][i].kind = "block"
                              /\ \E l \in DOMAIN code[o][i].of[2] : code[o][i].of[2][l] = out}
  <2>3. /\ PlanOK(plan) /\ asked = << >> /\ r + Len(asked) = N
        /\ Holding(plan, r, totalOrder, code, pendingTest, pendingLines)
        /\ pendingTest = NoTest
    BY <2>1, <2>2 DEF BlocksAfter, Unread
  <2>4. N \in Nat /\ k \in 1..N /\ r = N /\ OrderOf(out) \in Orders
    <3>1. N \in Nat /\ DOMAIN plan.outputs = 1..N
          /\ \A m \in 1..N : OrderOf(plan.outputs[m]) \in Orders
      BY <2>3, PlanParts
    <3>2. Len(asked) = 0
      BY <2>3
    <3>3. QED
      BY <2>3, <3>1, <3>2
  <2>5. Elements(pendingLines) = {}
    BY <2>3 DEF Holding, Elements
  <2>6. Placed(code, out)
    BY <2>3, <2>4, <2>5 DEF Holding
  <2>. HIDE DEF out
  <2>7. PICK i \in DOMAIN code[OrderOf(out)] :
          /\ \E l : Occurs(code, OrderOf(out), i, l, out)
          /\ code[OrderOf(out)][i].of[1] = out.name
          /\ \E a \in 1..i-1 : code[OrderOf(out)][a] = Assignment("output", out)
    BY <2>6 DEF Placed
  <2>8. PICK l : Occurs(code, OrderOf(out), i, l, out)
    BY <2>7
  <2>9. /\ \A o \in Orders : \A j, m, y : Occurs(code, o, j, m, y) => o = OrderOf(y)
        /\ \A o \in Orders : \A j1, m1, j2, m2, y :
             Occurs(code, o, j1, m1, y) /\ Occurs(code, o, j2, m2, y) => j1 = j2 /\ m1 = m2
    BY <2>3 DEF Holding
  <2>10. \A o \in Orders : \A j : j \in places(o) <=> \E m : Occurs(code, o, j, m, out)
    BY DEF Occurs
  <2>11. o1 = OrderOf(out) /\ o1 \in Orders
    BY <2>4 DEF OrderOf
  <2>12. ASSUME NEW o \in Orders
         PROVE  places(o) = IF o = o1 THEN {i} ELSE {}
    <3>. HIDE DEF places, o1
    <3>1. CASE o = o1
      <4>1. i \in places(o)
        BY <2>8, <2>10, <2>11, <3>1
      <4>2. \A j \in places(o) : j = i
        BY <2>8, <2>9, <2>10, <2>11, <3>1
      <4>3. QED
        BY <3>1, <4>1, <4>2
    <3>2. CASE o # o1
      <4>1. \A j : j \notin places(o)
        BY <2>9, <2>10, <2>11, <3>2
      <4>2. QED
        BY <3>2, <4>1
    <3>3. QED
      BY <3>1, <3>2
  <2>. DEFINE L == {m \in DOMAIN rows[i].of[2] : rows[i].of[2][m] = out}
  <2>13. L = {l}
    <3>1. Occurs(code, o1, i, l, out)
      BY <2>8, <2>11
    <3>2. l \in L
      BY <3>1 DEF Occurs
    <3>3. ASSUME NEW m \in L PROVE m = l
      <4>1. Occurs(code, o1, i, m, out)
        BY <3>1 DEF Occurs
      <4>2. QED
        BY <2>9, <2>11, <3>1, <4>1
    <3>4. QED
      BY <3>2, <3>3
  <2>14. Cardinality(L) = 1
    BY <2>13, FS_Singleton
  <2>15. /\ i \in DOMAIN rows /\ rows[i].of[1] = out.name
         /\ \E a \in 1..i-1 : rows[a] = Assignment("output", out)
    BY <2>7, <2>11
  <2>16. QED
    BY <2>12, <2>14, <2>15 DEF out
<1>2. QED
  BY <1>1, BlocksKept, PTL

-----------------------------------------------------------------------------
(* GeneratedKernel: a statement of the body is found from its buffer and place,
   so that every place has had exactly the value it is for when the statements
   up to that one have run. *)

(* A product grows with its first factor. *)
LEMMA TimesMonotone ==
  ASSUME NEW a \in Nat, NEW b \in Nat, NEW k \in Nat, a =< b
  PROVE  a * k =< b * k
<1> DEFINE d == b - a
<1>1. d \in Nat /\ b = a + d
  OBVIOUS
<1>2. b * k = a * k + d * k /\ d * k \in Nat /\ a * k \in Nat
  BY <1>1
<1> QED
  BY <1>2

(* An index into rows of equal length stays within them. *)
LEMMA RowIndex ==
  ASSUME NEW n \in Nat, NEW m \in Nat, NEW i \in 0..n-1, NEW j \in 0..m-1
  PROVE  i * m + j \in 0..(n * m)-1
<1>1. (i + 1) * m =< n * m
  BY TimesMonotone
<1>2. (i + 1) * m = i * m + m /\ i * m \in Nat /\ n * m \in Nat
  OBVIOUS
<1> QED
  BY <1>1, <1>2

(* Quotient and remainder of a number written with them. *)
LEMMA Division ==
  ASSUME NEW q \in Nat, NEW m \in Nat \ {0}, NEW r \in 0..m-1
  PROVE  (q * m + r) \div m = q /\ (q * m + r) % m = r
<1>. DEFINE a == q * m + r
            d == a \div m
            e == a % m
<1>1. a \in Nat /\ q * m \in Nat
  OBVIOUS
<1>2. d \in Int /\ e \in 0..m-1 /\ a = d * m + e
  BY <1>1
<1>. HIDE DEF d, e
<1>3. d >= 0
  <2>1. SUFFICES ASSUME d =< -1 PROVE FALSE
    BY <1>2
  <2>2. d * m =< -m
    BY <1>2, <2>1
  <2>3. QED
    BY <1>1, <1>2, <2>2
<1>4. ~(d < q)
  <2>1. SUFFICES ASSUME d + 1 =< q PROVE FALSE
    BY <1>2
  <2>2. (d + 1) * m =< q * m
    BY <1>2, <1>3, <2>1, TimesMonotone
  <2>3. (d + 1) * m = d * m + m
    BY <1>2
  <2>4. QED
    BY <1>1, <1>2, <2>2, <2>3
<1>5. ~(q < d)
  <2>1. SUFFICES ASSUME q + 1 =< d PROVE FALSE
    BY <1>2
  <2>2. (q + 1) * m =< d * m
    BY <1>2, <1>3, <2>1, TimesMonotone
  <2>3. (q + 1) * m = q * m + m
    OBVIOUS
  <2>4. QED
    BY <1>1, <1>2, <2>2, <2>3
<1>6. d = q /\ e = r
  BY <1>1, <1>2, <1>4, <1>5
<1>7. QED
  BY <1>6 DEF d, e

(* The number of three loop counters, of which the inner two run to b and c. *)
Number(i, j, k, b, c) == (i * b + j) * c + k

HasDigits(n, a, b, c, i, j, k) ==
  /\ n = Number(i, j, k, b, c) /\ n \in 0..(a * b) * c - 1
  /\ n \div (b * c) = i /\ (n \div c) % b = j /\ n % c = k

(* The digits of a number in a mixed base are those it is written with. *)
LEMMA DigitsOf ==
  ASSUME NEW a \in Nat \ {0}, NEW b \in Nat \ {0}, NEW c \in Nat \ {0},
         NEW i \in 0..a-1, NEW j \in 0..b-1, NEW k \in 0..c-1
  PROVE  HasDigits(Number(i, j, k, b, c), a, b, c, i, j, k)
<1>. DEFINE q == i * b + j
            ab == a * b
<1>1. q \in 0..ab-1 /\ ab \in Nat
  BY RowIndex
<1>2. q % b = j
  BY Division
<1>3. q * c + k \in 0..ab*c-1 /\ (q * c + k) \div c = q /\ (q * c + k) % c = k
  <2>. HIDE DEF q, ab
  <2>1. q \in Nat
    BY <1>1
  <2>2. QED
    BY <1>1, <2>1, RowIndex, Division
<1>4. (q * c + k) \div (b * c) = i
  <2>. DEFINE m == b * c
              r == j * c + k
  <2>1. r \in 0..m-1
    BY RowIndex
  <2>2. m \in Nat \ {0}
    OBVIOUS
  <2>3. q * c + k = i * m + r
    OBVIOUS
  <2>4. (i * m + r) \div m = i
    <3>. HIDE DEF m, r
    <3>1. QED
      BY <2>1, <2>2, Division
  <2>5. QED
    BY <2>3, <2>4
<1>5. QED
  BY <1>2, <1>3, <1>4 DEF Number, HasDigits

(* The quotient of a number below a product. *)
LEMMA QuotientBound ==
  ASSUME NEW a \in Nat \ {0}, NEW b \in Nat \ {0}, NEW n \in 0..a*b-1
  PROVE  n \div b \in 0..a-1 /\ n % b \in 0..b-1 /\ n = (n \div b) * b + (n % b)
<1>. DEFINE q == n \div b
            r == n % b
<1>1. n \in Nat /\ n < a * b
  OBVIOUS
<1>2. q \in Nat /\ r \in 0..b-1 /\ n = q * b + r
  OBVIOUS
<1>3. q < a
  <2>1. SUFFICES ASSUME ~(q < a) PROVE FALSE
    OBVIOUS
  <2>. HIDE DEF q, r
  <2>2. PICK d \in Nat : q = a + d
    <3>1. q - a \in Nat /\ q = a + (q - a)
      BY <1>2, <2>1
    <3>2. QED
      BY <3>1
  <2>3. q * b = a * b + d * b /\ d * b \in Nat
    BY <2>2
  <2>. DEFINE m == a * b
              k == d * b
              l == q * b
  <2>4. m \in Nat /\ k \in Nat /\ l = m + k
    BY <2>3
  <2>5. n < m /\ n = l + r
    BY <1>1, <1>2
  <2>. HIDE DEF m, k, l
  <2>6. QED
    BY <1>1, <1>2, <2>4, <2>5
<1>. HIDE DEF q, r
<1>4. q \in 0..a-1
  BY <1>2, <1>3
<1>5. q \in 0..a-1 /\ r \in 0..b-1 /\ n = q * b + r
  BY <1>2, <1>4
<1>6. QED
  BY <1>5 DEF q, r

(* Every number below the product of the bases has digits. *)
LEMMA DigitsExist ==
  ASSUME NEW a \in Nat \ {0}, NEW b \in Nat \ {0}, NEW c \in Nat \ {0},
         NEW n \in 0..(a*b)*c-1
  PROVE  \E i \in 0..a-1 : \E j \in 0..b-1 : \E k \in 0..c-1 :
           HasDigits(n, a, b, c, i, j, k)
<1>. DEFINE ab == a * b
            q == n \div c
            k == n % c
            i == q \div b
            j == q % b
<1>1. ab \in Nat \ {0}
  OBVIOUS
<1>2. q \in 0..ab-1 /\ k \in 0..c-1 /\ n = q * c + k
  <2>. HIDE DEF ab
  <2>1. n \in 0..ab*c-1
    BY DEF ab
  <2>2. QED
    BY <1>1, <2>1, QuotientBound
<1>. HIDE DEF q, k
<1>3. i \in 0..a-1 /\ j \in 0..b-1 /\ q = i * b + j
  BY <1>2, QuotientBound
<1>. HIDE DEF i, j
<1>4. n = Number(i, j, k, b, c)
  BY <1>2, <1>3 DEF Number
<1>5. HasDigits(n, a, b, c, i, j, k)
  BY <1>2, <1>3, <1>4, DigitsOf
<1>6. QED
  BY <1>2, <1>3, <1>5

(* The loops run through their counters in lexicographic order. *)
LexLess(i, j, k, x, y, z) == i < x \/ (i = x /\ j < y) \/ (i = x /\ j = y /\ k < z)

(* Numbers are ordered as their digits are. *)
LEMMA NumberMonotone ==
  ASSUME NEW b \in Nat \ {0}, NEW c \in Nat \ {0},
         NEW i \in Nat, NEW j \in 0..b-1, NEW k \in 0..c-1,
         NEW x \in Nat, NEW y \in 0..b-1, NEW z \in 0..c-1, LexLess(i, j, k, x, y, z)
  PROVE  Number(i, j, k, b, c) < Number(x, y, z, b, c)
<1>. DEFINE p == i * b + j
            q == x * b + y
<1>1. p \in Nat /\ q \in Nat
  OBVIOUS
<1>2. p < q \/ (p = q /\ k < z)
  <2>1. CASE i < x \/ (i = x /\ j < y)
    BY <2>1, IndexOrder
  <2>2. CASE i = x /\ j = y /\ k < z
    BY <2>2
  <2>3. QED
    BY <2>1, <2>2 DEF LexLess
<1>. HIDE DEF p, q
<1>3. p * c + k < q * c + z
  BY <1>1, <1>2, IndexOrder
<1>4. QED
  BY <1>3 DEF Number, p, q

(* The rows of the tables of spin components. *)
LEMMA PairRow ==
  ASSUME NEW p \in 0..3, NEW i \in 0..p
  PROVE  Pairs[p][i + 1] = <<p - i, i>>
<1>1. CASE p = 0
  BY <1>1, PairRows
<1>2. CASE p = 1
  BY <1>2, PairRows
<1>3. CASE p = 2
  BY <1>3, PairRows
<1>4. CASE p = 3
  BY <1>4, PairRows
<1>5. QED
  BY <1>1, <1>2, <1>3, <1>4

(* A group of two or three exponents, by its parts. *)
LEMMA GroupParts ==
  ASSUME NEW p \in 0..3
  PROVE  /\ \A g : g \in Group(2, p) <=> \E x, y \in 0..p : x + y = p /\ g = <<x, y>>
         /\ \A g : g \in Group(3, p) <=>
              \E x, y, z \in 0..p : (x + y) + z = p /\ g = <<x, y, z>>
<1>1. ASSUME NEW g, g \in Group(2, p)
      PROVE  \E x, y \in 0..p : x + y = p /\ g = <<x, y>>
  <2>1. g \in [1..2 -> 0..p] /\ p = g[1] + g[2]
    BY <1>1 DEF Group
  <2>2. g[1] \in 0..p /\ g[2] \in 0..p /\ g = <<g[1], g[2]>>
    BY <2>1
  <2>3. QED
    BY <2>1, <2>2
<1>2. ASSUME NEW x \in 0..p, NEW y \in 0..p, x + y = p
      PROVE  <<x, y>> \in Group(2, p)
  BY <1>2 DEF Group
<1>3. ASSUME NEW g, g \in Group(3, p)
      PROVE  \E x, y, z \in 0..p : (x + y) + z = p /\ g = <<x, y, z>>
  <2>1. g \in [1..3 -> 0..p] /\ p = g[1] + g[2] + g[3]
    BY <1>3 DEF Group
  <2>2. g[1] \in 0..p /\ g[2] \in 0..p /\ g[3] \in 0..p /\ g = <<g[1], g[2], g[3]>>
    BY <2>1
  <2>3. QED
    BY <2>1, <2>2
<1>4. ASSUME NEW x \in 0..p, NEW y \in 0..p, NEW z \in 0..p, (x + y) + z = p
      PROVE  <<x, y, z>> \in Group(3, p)
  BY <1>4 DEF Group
<1>5. QED
  BY <1>1, <1>2, <1>3, <1>4

(* The rows of the table of pairs are the vectors of two exponents, in
   decreasing order. *)
LEMMA PairsListed ==
  ASSUME NEW p \in 0..3
  PROVE  /\ \A g : g \in Group(2, p) <=> \E i \in 0..p : g = Pairs[p][i + 1]
         /\ \A i, j \in 0..p : i < j => Pairs[p][i + 1][1] > Pairs[p][j + 1][1]
<1>1. ASSUME NEW g, g \in Group(2, p)
      PROVE  \E i \in 0..p : g = Pairs[p][i + 1]
  <2>1. PICK x \in 0..p, y \in 0..p : x + y = p /\ g = <<x, y>>
    BY <1>1, GroupParts
  <2>2. p - y = x
    BY <2>1
  <2>3. QED
    BY <2>1, <2>2, PairRow
<1>2. ASSUME NEW i \in 0..p
      PROVE  Pairs[p][i + 1] \in Group(2, p)
  <2>1. p - i \in 0..p /\ (p - i) + i = p
    OBVIOUS
  <2>2. <<p - i, i>> \in Group(2, p)
    BY <2>1, GroupParts
  <2>3. QED
    BY <2>2, PairRow
<1>3. ASSUME NEW i \in 0..p, NEW j \in 0..p, i < j
      PROVE  Pairs[p][i + 1][1] > Pairs[p][j + 1][1]
  <2>1. Pairs[p][i + 1] = <<p - i, i>> /\ Pairs[p][j + 1] = <<p - j, j>>
    BY PairRow
  <2>2. Pairs[p][i + 1][1] = p - i /\ Pairs[p][j + 1][1] = p - j
    BY <2>1
  <2>3. QED
    BY <1>3, <2>2
<1>4. QED
  BY <1>1, <1>2, <1>3

(* The place of the first of the triples whose last two parts add up to m. *)
Triangle(m) == IF m = 0 THEN 0 ELSE IF m = 1 THEN 1 ELSE IF m = 2 THEN 3 ELSE 6

(* Where a vector of three exponents is in the table. *)
LEMMA TripleRow ==
  ASSUME NEW p \in 0..3, NEW y \in 0..p, NEW z \in 0..p, y + z =< p
  PROVE  Triples[p][Triangle(y + z) + z + 1] = <<p - (y + z), y, z>>
<1>1. CASE p = 0
  BY <1>1, TripleRows DEF Triangle
<1>2. CASE p = 1
  <2>1. Triples[p] = << <<1, 0, 0>>, <<0, 1, 0>>, <<0, 0, 1>> >>
    BY <1>2, TripleRows
  <2>2. \/ y = 0 /\ z = 0
        \/ y = 1 /\ z = 0
        \/ y = 0 /\ z = 1
    BY <1>2
  <2>3. QED
    BY <1>2, <2>1, <2>2 DEF Triangle
<1>3. CASE p = 2
  <2>1. Triples[p] = << <<2, 0, 0>>, <<1, 1, 0>>, <<1, 0, 1>>,
                        <<0, 2, 0>>, <<0, 1, 1>>, <<0, 0, 2>> >>
    BY <1>3, TripleRows
  <2>2. \/ y = 0 /\ z = 0
        \/ y = 1 /\ z = 0
        \/ y = 0 /\ z = 1
        \/ y = 2 /\ z = 0
        \/ y = 1 /\ z = 1
        \/ y = 0 /\ z = 2
    BY <1>3
  <2>3. QED
    BY <1>3, <2>1, <2>2 DEF Triangle
<1>4. CASE p = 3
  <2>1. Triples[p] = << <<3, 0, 0>>, <<2, 1, 0>>, <<2, 0, 1>>, <<1, 2, 0>>,
                          <<1, 1, 1>>, <<1, 0, 2>>, <<0, 3, 0>>, <<0, 2, 1>>,
                          <<0, 1, 2>>, <<0, 0, 3>> >>
    BY <1>4, TripleRows
  <2>2. \/ y = 0 /\ z = 0
        \/ y = 1 /\ z = 0
        \/ y = 0 /\ z = 1
        \/ y = 2 /\ z = 0
        \/ y = 1 /\ z = 1
        \/ y = 0 /\ z = 2
        \/ y = 3 /\ z = 0
        \/ y = 2 /\ z = 1
        \/ y = 1 /\ z = 2
        \/ y = 0 /\ z = 3
    BY <1>4
  <2>3. QED
    BY <1>4, <2>1, <2>2, SMTT(60) DEF Triangle
<1>5. QED
  BY <1>1, <1>2, <1>3, <1>4

(* The places of the table of triples. *)
LEMMA TriplePlaces ==
  ASSUME NEW p \in 0..3
  PROVE  /\ Len(Triples[p]) = Triangle(p) + p + 1
         /\ \A i \in 0..Triangle(p)+p : \E m \in 0..p : \E z \in 0..m :
              i = Triangle(m) + z
         /\ \A m \in 0..p : \A z \in 0..m : Triangle(m) + z \in 0..Triangle(p)+p
<1>1. Len(Triples[p]) = Triangle(p) + p + 1
  <2>1. Len(Triples[p]) = GroupSize(3, p)
    BY TripleTable
  <2>2. GroupSize(3, p) = Triangle(p) + p + 1
    BY GroupSizes DEF Triangle
  <2>3. QED
    BY <2>1, <2>2
<1>2. ASSUME NEW i \in 0..Triangle(p)+p
      PROVE  \E m \in 0..p : \E z \in 0..m : i = Triangle(m) + z
  <2>1. CASE i < 1
    BY <2>1 DEF Triangle
  <2>2. CASE 1 =< i /\ i < 3
    <3>1. 1 \in 0..p /\ i - 1 \in 0..1 /\ i = Triangle(1) + (i - 1)
      BY <2>2 DEF Triangle
    <3>2. QED
      BY <3>1
  <2>3. CASE 3 =< i /\ i < 6
    <3>1. 2 \in 0..p /\ i - 3 \in 0..2 /\ i = Triangle(2) + (i - 3)
      BY <2>3 DEF Triangle
    <3>2. QED
      BY <3>1
  <2>4. CASE 6 =< i
    <3>1. 3 \in 0..p /\ i - 6 \in 0..3 /\ i = Triangle(3) + (i - 6)
      BY <2>4 DEF Triangle
    <3>2. QED
      BY <3>1
  <2>5. QED
    BY <2>1, <2>2, <2>3, <2>4 DEF Triangle
<1>3. \A m \in 0..p : \A z \in 0..m : Triangle(m) + z \in 0..Triangle(p)+p
  BY DEF Triangle
<1>4. QED
  BY <1>1, <1>2, <1>3

(* A list of three that is lexicographically greater than another. *)
TripleGreater(u, w) ==
  u[1] > w[1] \/ (u[1] = w[1] /\ (u[2] > w[2] \/ (u[2] = w[2] /\ u[3] > w[3])))

(* The rows of the table of triples are the vectors of three exponents, in
   decreasing order. *)
LEMMA TriplesListed ==
  ASSUME NEW p \in 0..3
  PROVE  /\ \A g : g \in Group(3, p) <=> \E i \in 0..Len(Triples[p])-1 : g = Triples[p][i + 1]
         /\ \A i, j \in 0..Len(Triples[p])-1 : i < j =>
              TripleGreater(Triples[p][i + 1], Triples[p][j + 1])
<1>. DEFINE last == Triangle(p) + p
<1>1. Len(Triples[p]) - 1 = last /\ last \in Nat
  <2>1. Triangle(p) \in Nat
    BY DEF Triangle
  <2>2. Len(Triples[p]) = Triangle(p) + p + 1
    BY TriplePlaces
  <2>3. QED
    BY <2>1, <2>2
<1>2. ASSUME NEW m \in 0..p, NEW z \in 0..m
      PROVE  /\ Triples[p][(Triangle(m) + z) + 1] = <<p - m, m - z, z>>
             /\ Triangle(m) + z \in 0..last
             /\ p - m \in 0..p /\ m - z \in 0..p /\ z \in 0..p
  <2>1. /\ m - z \in 0..p /\ z \in 0..p /\ p - m \in 0..p /\ (m - z) + z = m /\ m =< p
        /\ Triangle(m) \in Nat
    BY DEF Triangle
  <2>. DEFINE y == m - z
  <2>2. y \in 0..p /\ y + z = m
    BY <2>1
  <2>. HIDE DEF y
  <2>3. Triples[p][Triangle(y + z) + z + 1] = <<p - (y + z), y, z>>
    BY <2>1, <2>2, TripleRow
  <2>4. Triples[p][Triangle(m) + z + 1] = <<p - m, y, z>>
    BY <2>2, <2>3
  <2>5. QED
    BY <2>1, <2>4, TriplePlaces DEF y
<1>3. ASSUME NEW i \in 0..last
      PROVE  \E m \in 0..p : \E z \in 0..m : i = Triangle(m) + z
  BY TriplePlaces
<1>. HIDE DEF last
<1>4. ASSUME NEW g, g \in Group(3, p)
      PROVE  \E i \in 0..last : g = Triples[p][i + 1]
  <2>1. PICK x \in 0..p, y \in 0..p, z \in 0..p : (x + y) + z = p /\ g = <<x, y, z>>
    BY <1>4, GroupParts
  <2>2. y + z \in 0..p /\ z \in 0..(y + z) /\ p - (y + z) = x /\ (y + z) - z = y
    BY <2>1
  <2>3. /\ Triples[p][(Triangle(y + z) + z) + 1] = <<x, y, z>>
        /\ Triangle(y + z) + z \in 0..last
    BY <1>2, <2>2
  <2>4. QED
    BY <2>1, <2>3
<1>5. ASSUME NEW i \in 0..last
      PROVE  Triples[p][i + 1] \in Group(3, p)
  <2>a. PICK m \in 0..p : \E z \in 0..m : i = Triangle(m) + z
    BY <1>3
  <2>1. PICK z \in 0..m : i = Triangle(m) + z
    BY <2>a
  <2>2. /\ Triples[p][i + 1] = <<p - m, m - z, z>>
        /\ p - m \in 0..p /\ m - z \in 0..p /\ z \in 0..p
    BY <1>2, <2>1
  <2>3. ((p - m) + (m - z)) + z = p
    OBVIOUS
  <2>4. <<p - m, m - z, z>> \in Group(3, p)
    BY <2>2, <2>3, GroupParts
  <2>5. QED
    BY <2>2, <2>4
<1>6. ASSUME NEW i \in 0..last, NEW j \in 0..last, i < j
      PROVE  TripleGreater(Triples[p][i + 1], Triples[p][j + 1])
  <2>a. PICK m \in 0..p : \E z \in 0..m : i = Triangle(m) + z
    BY <1>3
  <2>1. PICK z \in 0..m : i = Triangle(m) + z
    BY <2>a
  <2>b. PICK l \in 0..p : \E y \in 0..l : j = Triangle(l) + y
    BY <1>3
  <2>2. PICK y \in 0..l : j = Triangle(l) + y
    BY <2>b
  <2>3. m < l \/ (m = l /\ z < y)
    BY <1>6, <2>1, <2>2 DEF Triangle
  <2>4. /\ Triples[p][i + 1] = <<p - m, m - z, z>>
        /\ Triples[p][j + 1] = <<p - l, l - y, y>>
    BY <1>2, <2>1, <2>2
  <2>5. CASE m < l
    <3>1. p - m > p - l
      BY <2>5
    <3>2. QED
      BY <2>4, <3>1 DEF TripleGreater
  <2>6. CASE m = l /\ z < y
    <3>1. p - m = p - l /\ m - z > l - y
      BY <2>6
    <3>2. QED
      BY <2>4, <3>1 DEF TripleGreater
  <2>7. QED
    BY <2>3, <2>5, <2>6
<1>7. QED
  BY <1>1, <1>4, <1>5, <1>6

(* The exponents of a component, by those of its three variables. *)
Joined(r, s, t) == r \o s \o <<0, 0>> \o t

(* The parts of two joined sequences. *)
LEMMA ConcatParts ==
  ASSUME NEW s \in Seq(Nat), NEW t \in Seq(Nat)
  PROVE  /\ s \o t \in Seq(Nat) /\ Len(s \o t) = Len(s) + Len(t)
         /\ \A i \in 1..Len(s) : (s \o t)[i] = s[i]
         /\ \A i \in 1..Len(t) : (s \o t)[Len(s) + i] = t[i]
OBVIOUS

(* A sequence of a known length is a function. *)
LEMMA SequenceIsFunction ==
  ASSUME NEW s \in Seq(Nat), NEW n, Len(s) = n
  PROVE  s \in [1..n -> Nat]
OBVIOUS

(* The parts of a vector. *)
HasParts(d, r, s, t) ==
  /\ d \in [1..9 -> Nat]
  /\ d[1] = r[1] /\ d[2] = r[2] /\ d[3] = s[1] /\ d[4] = s[2] /\ d[5] = s[3]
  /\ d[6] = 0 /\ d[7] = 0 /\ d[8] = t[1] /\ d[9] = t[2]

(* The parts of a vector of exponents. *)
LEMMA JoinedParts ==
  ASSUME NEW p \in 0..3, NEW q \in 0..3, NEW u \in 0..3,
         NEW r \in Group(2, p), NEW s \in Group(3, q), NEW t \in Group(2, u)
  PROVE  HasParts(Joined(r, s, t), r, s, t)
<1>1. PICK a \in 0..p, b \in 0..p : a + b = p /\ r = <<a, b>>
  BY GroupParts
<1>2. PICK c \in 0..q, d \in 0..q, e \in 0..q : (c + d) + e = q /\ s = <<c, d, e>>
  BY GroupParts
<1>3. PICK f \in 0..u, g \in 0..u : f + g = u /\ t = <<f, g>>
  BY GroupParts
<1>4. /\ r[1] = a /\ r[2] = b /\ s[1] = c /\ s[2] = d /\ s[3] = e
      /\ t[1] = f /\ t[2] = g
  BY <1>1, <1>2, <1>3
<1>. DEFINE v == r \o s
            zero == <<0, 0>>
            w == v \o zero
            j == w \o t
<1>5. /\ r \in Seq(Nat) /\ Len(r) = 2 /\ s \in Seq(Nat) /\ Len(s) = 3
      /\ t \in Seq(Nat) /\ Len(t) = 2
      /\ zero \in Seq(Nat) /\ Len(zero) = 2 /\ zero[1] = 0 /\ zero[2] = 0
  BY <1>1, <1>2, <1>3
<1>. HIDE DEF zero
<1>6. /\ v \in Seq(Nat) /\ Len(v) = 5 /\ \A i \in 1..2 : v[i] = r[i]
      /\ \A i \in 1..3 : v[2 + i] = s[i]
  <2>1. /\ v \in Seq(Nat) /\ Len(v) = Len(r) + Len(s)
        /\ \A i \in 1..Len(r) : v[i] = r[i]
        /\ \A i \in 1..Len(s) : v[Len(r) + i] = s[i]
    BY <1>5, ConcatParts
  <2>. HIDE DEF v
  <2>2. QED
    BY <1>5, <2>1
<1>. HIDE DEF v
<1>7. /\ w \in Seq(Nat) /\ Len(w) = 7 /\ \A i \in 1..5 : w[i] = v[i]
      /\ \A i \in 1..2 : w[5 + i] = zero[i]
  <2>1. /\ w \in Seq(Nat) /\ Len(w) = Len(v) + Len(zero)
        /\ \A i \in 1..Len(v) : w[i] = v[i]
        /\ \A i \in 1..Len(zero) : w[Len(v) + i] = zero[i]
    BY <1>5, <1>6, ConcatParts
  <2>. HIDE DEF w
  <2>2. QED
    BY <1>5, <1>6, <2>1
<1>. HIDE DEF w
<1>8. /\ j \in Seq(Nat) /\ Len(j) = 9 /\ \A i \in 1..7 : j[i] = w[i]
      /\ \A i \in 1..2 : j[7 + i] = t[i]
  <2>1. /\ j \in Seq(Nat) /\ Len(j) = Len(w) + Len(t)
        /\ \A i \in 1..Len(w) : j[i] = w[i]
        /\ \A i \in 1..Len(t) : j[Len(w) + i] = t[i]
    <3>1. w \in Seq(Nat) /\ t \in Seq(Nat)
      BY <1>5, <1>7
    <3>2. QED
      BY <3>1, ConcatParts
  <2>. HIDE DEF j
  <2>2. QED
    BY <1>5, <1>7, <2>1
<1>9. Joined(r, s, t) = j
  BY DEF Joined, j, w, v, zero
<1>. HIDE DEF j
<1>10. j[1] = r[1] /\ j[2] = r[2]
  BY <1>6, <1>7, <1>8
<1>11. j[3] = s[1] /\ j[4] = s[2] /\ j[5] = s[3]
  <2>1. v[2 + 1] = s[1] /\ v[2 + 2] = s[2] /\ v[2 + 3] = s[3]
    BY <1>6
  <2>2. v[3] = s[1] /\ v[4] = s[2] /\ v[5] = s[3]
    BY <2>1
  <2>3. QED
    BY <1>7, <1>8, <2>2
<1>12. j[6] = 0 /\ j[7] = 0
  <2>1. w[5 + 1] = 0 /\ w[5 + 2] = 0
    BY <1>5, <1>7
  <2>2. w[6] = 0 /\ w[7] = 0
    BY <2>1
  <2>3. QED
    BY <1>8, <2>2
<1>13. j[8] = t[1] /\ j[9] = t[2]
  <2>1. j[7 + 1] = t[1] /\ j[7 + 2] = t[2]
    BY <1>8
  <2>2. QED
    BY <2>1
<1>14. j \in [1..9 -> Nat]
  BY <1>8, SequenceIsFunction
<1>15. QED
  BY <1>9, <1>10, <1>11, <1>12, <1>13, <1>14 DEF HasParts

(* The vectors are ordered. *)
IsVector(d) == d \in [1..9 -> Nat]

(* No two vectors are greater than each other. *)
LEMMA GreaterOneWay ==
  ASSUME NEW d, NEW e, IsVector(d), IsVector(e)
  PROVE  ~(Greater(d, e) /\ Greater(e, d))
<1>1. SUFFICES ASSUME Greater(d, e), Greater(e, d) PROVE FALSE
  OBVIOUS
<1>2. PICK i \in 1..9 : d[i] > e[i] /\ \A k \in 1..i-1 : d[k] = e[k]
  BY <1>1 DEF Greater
<1>3. PICK j \in 1..9 : e[j] > d[j] /\ \A k \in 1..j-1 : e[k] = d[k]
  BY <1>1 DEF Greater
<1>4. d[i] \in Nat /\ e[i] \in Nat /\ d[j] \in Nat /\ e[j] \in Nat
  BY DEF IsVector
<1>5. CASE i < j
  <2>1. i \in 1..j-1
    BY <1>5
  <2>2. QED
    BY <1>2, <1>3, <1>4, <2>1
<1>6. CASE j < i
  <2>1. j \in 1..i-1
    BY <1>6
  <2>2. QED
    BY <1>2, <1>3, <1>4, <2>1
<1>7. CASE i = j
  BY <1>2, <1>3, <1>4, <1>7
<1>8. QED
  BY <1>5, <1>6, <1>7

(* Exponents of the densities, gradients and kinetic densities of powers p,
   q and u, and their order. *)
AreParts(r, s, t, p, q, u) == r \in Group(2, p) /\ s \in Group(3, q) /\ t \in Group(2, u)

PartsGreater(r, s, t, x, y, z) ==
  \/ r[1] > x[1]
  \/ r = x /\ TripleGreater(s, y)
  \/ r = x /\ s = y /\ t[1] > z[1]

(* The order of the vectors is that of their parts. *)
LEMMA JoinedGreater ==
  ASSUME NEW p \in 0..3, NEW q \in 0..3, NEW u \in 0..3,
         NEW r, NEW s, NEW t, AreParts(r, s, t, p, q, u),
         NEW x, NEW y, NEW z, AreParts(x, y, z, p, q, u),
         PartsGreater(r, s, t, x, y, z)
  PROVE  Greater(Joined(r, s, t), Joined(x, y, z))
<1>. DEFINE d == Joined(r, s, t)
            e == Joined(x, y, z)
<1>1. /\ d[1] = r[1] /\ d[2] = r[2] /\ d[3] = s[1] /\ d[4] = s[2] /\ d[5] = s[3]
      /\ d[6] = 0 /\ d[7] = 0 /\ d[8] = t[1]
  <2>1. HasParts(d, r, s, t)
    BY JoinedParts DEF AreParts
  <2>. HIDE DEF d
  <2>2. QED
    BY <2>1 DEF HasParts
<1>2. /\ e[1] = x[1] /\ e[2] = x[2] /\ e[3] = y[1] /\ e[4] = y[2] /\ e[5] = y[3]
      /\ e[6] = 0 /\ e[7] = 0 /\ e[8] = z[1]
  <2>1. HasParts(e, x, y, z)
    BY JoinedParts DEF AreParts
  <2>. HIDE DEF e
  <2>2. QED
    BY <2>1 DEF HasParts
<1>. HIDE DEF d, e
<1>3. CASE r[1] > x[1]
  <2>1. d[1] > e[1] /\ \A k \in 1..1-1 : d[k] = e[k]
    BY <1>1, <1>2, <1>3
  <2>2. QED
    BY <2>1 DEF Greater, d, e
<1>4. CASE r = x /\ s[1] > y[1]
  <2>1. d[3] > e[3] /\ \A k \in 1..3-1 : d[k] = e[k]
    BY <1>1, <1>2, <1>4
  <2>2. QED
    BY <2>1 DEF Greater, d, e
<1>5. CASE r = x /\ s[1] = y[1] /\ s[2] > y[2]
  <2>1. d[4] > e[4] /\ \A k \in 1..4-1 : d[k] = e[k]
    BY <1>1, <1>2, <1>5
  <2>2. QED
    BY <2>1 DEF Greater, d, e
<1>6. CASE r = x /\ s[1] = y[1] /\ s[2] = y[2] /\ s[3] > y[3]
  <2>1. d[5] > e[5] /\ \A k \in 1..5-1 : d[k] = e[k]
    BY <1>1, <1>2, <1>6
  <2>2. QED
    BY <2>1 DEF Greater, d, e
<1>7. CASE r = x /\ s = y /\ t[1] > z[1]
  <2>1. d[8] > e[8] /\ \A k \in 1..8-1 : d[k] = e[k]
    <3>1. ASSUME NEW k \in 1..7 PROVE d[k] = e[k]
      BY <1>1, <1>2, <1>7
    <3>2. QED
      BY <1>1, <1>2, <1>7, <3>1
  <2>2. QED
    BY <2>1 DEF Greater, d, e
<1>8. QED
  BY <1>3, <1>4, <1>5, <1>6, <1>7 DEF PartsGreater, TripleGreater

(* The component of a name by the rows of its variables. *)
LEMMA VectorIs ==
  ASSUME NEW name, NEW p, NEW q, NEW u, IsSplit(name, p, q, u),
         NEW i \in 0..Len(Pairs[p])-1, NEW j \in 0..Len(Triples[q])-1,
         NEW k \in 0..Len(Pairs[u])-1,
         NEW n, HasDigits(n, Len(Pairs[p]), Len(Triples[q]), Len(Pairs[u]), i, j, k)
  PROVE  Vector(name, n) = Joined(Pairs[p][i + 1], Triples[q][j + 1], Pairs[u][k + 1])
<1>. DEFINE a == Len(Pairs[p])
            b == Len(Triples[q])
            c == Len(Pairs[u])
<1>1. p \in 0..3 /\ q \in 0..3 /\ u \in 0..3
  BY DEF IsSplit
<1>2. /\ Power(name, RHO) = p /\ Power(name, SIGMA) = q
      /\ Power(name, LAPL) = 0 /\ Power(name, TAU) = u
  BY <1>1, PowersOfSplit
<1>3. a \in Nat \ {0} /\ b \in Nat \ {0} /\ c \in Nat \ {0}
  <2>1. a = p + 1
    BY <1>1, PairTable
  <2>2. c = u + 1
    BY <1>1, PairTable
  <2>3. b \in Nat \ {0}
    BY <1>1, TripleTable
  <2>. HIDE DEF a, b, c
  <2>4. QED
    BY <1>1, <2>1, <2>2, <2>3
<1>. DEFINE zero == Pairs[0]
            inner == Len(zero) * c
            row(l) == Pairs[p][l \div (b * inner) + 1]
                      \o Triples[q][((l \div inner) % b) + 1]
                      \o zero[((l \div c) % Len(zero)) + 1]
                      \o Pairs[u][(l % c) + 1]
<1>4. EnumerateSpinPartials(name) =
        [l \in 1..a * b * inner |->
           [name |-> name, number |-> l - 1, exponents |-> row(l - 1)]]
  BY <1>2 DEF EnumerateSpinPartials
<1>5. Len(zero) = 1 /\ zero[1] = <<0, 0>>
  BY PairRows
<1>. HIDE DEF a, b, c, zero, row
<1>6. inner = c /\ a * b * inner = (a * b) * c
  BY <1>3, <1>5
<1>7. /\ n \in 0..(a * b) * c - 1 /\ n \div (b * c) = i
      /\ (n \div c) % b = j /\ n % c = k
  BY DEF HasDigits, a, b, c
<1>8. n + 1 \in 1..a * b * inner /\ (n + 1) - 1 = n
  <2>. DEFINE M == (a * b) * c
  <2>1. M \in Nat
    BY <1>3
  <2>. HIDE DEF M, inner
  <2>2. n \in 0..M-1
    BY <1>7 DEF M
  <2>3. n + 1 \in 1..M /\ (n + 1) - 1 = n
    BY <2>1, <2>2
  <2>4. QED
    BY <1>6, <2>3 DEF M
<1>9. Vector(name, n) = row(n)
  <2>. HIDE DEF inner
  <2>1. EnumerateSpinPartials(name)[n + 1] =
          [name |-> name, number |-> n, exponents |-> row(n)]
    BY <1>4, <1>8
  <2>2. QED
    BY <2>1 DEF Vector
<1>10. zero[((n \div c) % Len(zero)) + 1] = <<0, 0>>
  <2>1. n \div c \in Int
    BY <1>3, <1>7
  <2>. DEFINE d == n \div c
  <2>. HIDE DEF d
  <2>2. d % 1 = 0
    BY <2>1 DEF d
  <2>3. QED
    BY <1>5, <2>2 DEF d
<1>11. row(n) = Joined(Pairs[p][i + 1], Triples[q][j + 1], Pairs[u][k + 1])
  <2>. HIDE DEF inner
  <2>1. n \div (b * inner) = i /\ (n \div inner) % b = j /\ n % c = k
    BY <1>6, <1>7
  <2>2. QED
    BY <1>10, <2>1 DEF row, Joined
<1>12. QED
  BY <1>9, <1>11

(* The components of a name are its vectors, from the greatest to the least. *)
LEMMA VectorsListed ==
  ASSUME NEW name, NEW p, NEW q, NEW u, IsSplit(name, p, q, u),
         NEW M, M = Len(EnumerateSpinPartials(name))
  PROVE  /\ M \in Nat \ {0}
         /\ \A n \in 0..M-1 : Vector(name, n) \in Vectors(name) /\ IsVector(Vector(name, n))
         /\ \A d \in Vectors(name) : \E n \in 0..M-1 : d = Vector(name, n)
         /\ \A n, m \in 0..M-1 : n < m => Greater(Vector(name, n), Vector(name, m))
<1>. DEFINE a == Len(Pairs[p])
            b == Len(Triples[q])
            c == Len(Pairs[u])
            V(i, j, k) == Joined(Pairs[p][i + 1], Triples[q][j + 1], Pairs[u][k + 1])
            num(i, j, k) == Number(i, j, k, b, c)
            Is(n, i, j, k) == HasDigits(n, a, b, c, i, j, k)
<1>1. p \in 0..3 /\ q \in 0..3 /\ u \in 0..3
  BY DEF IsSplit
<1>2. /\ Power(name, RHO) = p /\ Power(name, SIGMA) = q
      /\ Power(name, LAPL) = 0 /\ Power(name, TAU) = u
  BY <1>1, PowersOfSplit
<1>3. /\ a \in Nat \ {0} /\ b \in Nat \ {0} /\ c \in Nat \ {0}
      /\ a - 1 = p /\ c - 1 = u
  <2>1. a = p + 1
    BY <1>1, PairTable
  <2>2. c = u + 1
    BY <1>1, PairTable
  <2>3. b \in Nat \ {0}
    BY <1>1, TripleTable
  <2>. HIDE DEF a, b, c
  <2>4. QED
    BY <1>1, <2>1, <2>2, <2>3
<1>4. M = (a * b) * c
  <2>1. Len(Pairs[0]) = 1
    BY PairRows
  <2>2. EnumerateSpinPartials(name) =
          [l \in 1..a * b * (Len(Pairs[0]) * c) |-> EnumerateSpinPartials(name)[l]]
    BY <1>2 DEF EnumerateSpinPartials
  <2>. HIDE DEF a, b, c
  <2>3. a * b * (Len(Pairs[0]) * c) = (a * b) * c /\ (a * b) * c \in Nat
    BY <1>3, <2>1
  <2>. DEFINE k == (a * b) * c
  <2>. HIDE DEF k
  <2>4. EnumerateSpinPartials(name) = [l \in 1..k |-> EnumerateSpinPartials(name)[l]]
    BY <2>2, <2>3 DEF k
  <2>5. Len(EnumerateSpinPartials(name)) = k
    BY <2>3, <2>4 DEF k
  <2>6. QED
    BY <2>5 DEF k
<1>5. M \in Nat \ {0}
  <2>. HIDE DEF a, b, c
  <2>1. (a * b) * c \in Nat \ {0}
    <3>1. a * b \in Nat \ {0}
      BY <1>3
    <3>2. QED
      BY <1>3, <3>1
  <2>2. QED
    BY <1>4, <2>1
<1>6. ASSUME NEW i \in 0..a-1, NEW j \in 0..b-1, NEW k \in 0..c-1
      PROVE  /\ Vector(name, num(i, j, k)) = V(i, j, k)
             /\ num(i, j, k) \in 0..M-1
  <2>1. Is(num(i, j, k), i, j, k)
    <3>. HIDE DEF a, b, c
    <3>1. QED
      BY <1>3, DigitsOf
  <2>2. Vector(name, num(i, j, k)) = V(i, j, k)
    <3>. HIDE DEF num
    <3>1. QED
      BY <2>1, VectorIs
  <2>3. num(i, j, k) \in 0..(a * b) * c - 1
    BY <2>1 DEF HasDigits
  <2>4. QED
    BY <1>4, <2>2, <2>3
<1>7. ASSUME NEW n \in 0..M-1
      PROVE  \E i \in 0..a-1 : \E j \in 0..b-1 : \E k \in 0..c-1 : n = num(i, j, k)
  <2>. HIDE DEF a, b, c
  <2>1. n \in 0..(a * b) * c - 1
    BY <1>4
  <2>2. QED
    <3>1. PICK i \in 0..a-1, j \in 0..b-1, k \in 0..c-1 : Is(n, i, j, k)
      BY <1>3, <2>1, DigitsExist
    <3>2. n = num(i, j, k)
      BY <3>1 DEF HasDigits
    <3>3. QED
      BY <3>2
<1>8. /\ \A g : g \in Group(2, p) <=> \E i \in 0..a-1 : g = Pairs[p][i + 1]
      /\ \A i, j \in 0..a-1 : i < j => Pairs[p][i + 1][1] > Pairs[p][j + 1][1]
  <2>. HIDE DEF a
  <2>1. QED
    BY <1>1, <1>3, PairsListed
<1>9. /\ \A g : g \in Group(2, u) <=> \E i \in 0..c-1 : g = Pairs[u][i + 1]
      /\ \A i, j \in 0..c-1 : i < j => Pairs[u][i + 1][1] > Pairs[u][j + 1][1]
  <2>. HIDE DEF c
  <2>1. QED
    BY <1>1, <1>3, PairsListed
<1>10. /\ \A g : g \in Group(3, q) <=> \E i \in 0..b-1 : g = Triples[q][i + 1]
       /\ \A i, j \in 0..b-1 : i < j => TripleGreater(Triples[q][i + 1], Triples[q][j + 1])
  BY <1>1, TriplesListed
<1>. HIDE DEF a, b, c, V, num
<1>11. Vectors(name) = {Joined(r, s, t) : r \in Group(2, p), s \in Group(3, q), t \in Group(2, u)}
  BY <1>2 DEF Vectors, Joined
<1>12. ASSUME NEW i \in 0..a-1, NEW j \in 0..b-1, NEW k \in 0..c-1
       PROVE  V(i, j, k) \in Vectors(name) /\ IsVector(V(i, j, k))
  <2>1. /\ Pairs[p][i + 1] \in Group(2, p) /\ Triples[q][j + 1] \in Group(3, q)
        /\ Pairs[u][k + 1] \in Group(2, u)
    BY <1>8, <1>9, <1>10
  <2>2. V(i, j, k) \in Vectors(name)
    <3>1. V(i, j, k) = Joined(Pairs[p][i + 1], Triples[q][j + 1], Pairs[u][k + 1])
      BY DEF V
    <3>2. QED
      BY <1>11, <2>1, <3>1
  <2>3. HasParts(V(i, j, k), Pairs[p][i + 1], Triples[q][j + 1], Pairs[u][k + 1])
    BY <1>1, <2>1, JoinedParts DEF V
  <2>4. QED
    BY <2>2, <2>3 DEF HasParts, IsVector
<1>13. ASSUME NEW n \in 0..M-1
       PROVE  Vector(name, n) \in Vectors(name) /\ IsVector(Vector(name, n))
  BY <1>6, <1>7, <1>12
<1>14. ASSUME NEW d \in Vectors(name)
       PROVE  \E n \in 0..M-1 : d = Vector(name, n)
  <2>1. PICK r \in Group(2, p), s \in Group(3, q), t \in Group(2, u) : d = Joined(r, s, t)
    BY <1>11
  <2>2. PICK i \in 0..a-1, j \in 0..b-1, k \in 0..c-1 :
          r = Pairs[p][i + 1] /\ s = Triples[q][j + 1] /\ t = Pairs[u][k + 1]
    BY <1>8, <1>9, <1>10
  <2>3. d = V(i, j, k)
    BY <2>1, <2>2 DEF V
  <2>4. QED
    BY <1>6, <2>3
<1>15. ASSUME NEW n \in 0..M-1, NEW m \in 0..M-1, n < m
       PROVE  Greater(Vector(name, n), Vector(name, m))
  <2>1. PICK i \in 0..a-1, j \in 0..b-1, k \in 0..c-1 : n = num(i, j, k)
    BY <1>7
  <2>2. PICK x \in 0..a-1, y \in 0..b-1, z \in 0..c-1 : m = num(x, y, z)
    BY <1>7
  <2>3. \/ i < x \/ (i = x /\ j < y) \/ (i = x /\ j = y /\ k < z)
    <3>1. ~(i = x /\ j = y /\ k = z)
      BY <1>15, <2>1, <2>2
    <3>2. ASSUME LexLess(x, y, z, i, j, k) PROVE FALSE
      <4>1. i \in Nat /\ x \in Nat
        BY <1>3
      <4>2. num(x, y, z) < num(i, j, k)
        BY <1>3, <3>2, <4>1, NumberMonotone DEF num
      <4>3. QED
        BY <1>5, <1>15, <2>1, <2>2, <4>2
    <3>3. QED
      BY <1>3, <3>1, <3>2 DEF LexLess
  <2>. DEFINE r == Pairs[p][i + 1]
              s == Triples[q][j + 1]
              t == Pairs[u][k + 1]
              rr == Pairs[p][x + 1]
              s2 == Triples[q][y + 1]
              t2 == Pairs[u][z + 1]
  <2>4. /\ r \in Group(2, p) /\ s \in Group(3, q) /\ t \in Group(2, u)
        /\ rr \in Group(2, p) /\ s2 \in Group(3, q) /\ t2 \in Group(2, u)
    BY <1>8, <1>9, <1>10
  <2>5. \/ r[1] > rr[1]
        \/ r = rr /\ TripleGreater(s, s2)
        \/ r = rr /\ s = s2 /\ t[1] > t2[1]
    BY <1>8, <1>9, <1>10, <2>3
  <2>6. V(i, j, k) = Joined(r, s, t) /\ V(x, y, z) = Joined(rr, s2, t2)
    BY DEF V
  <2>. HIDE DEF r, s, t, rr, s2, t2
  <2>7. Greater(Joined(r, s, t), Joined(rr, s2, t2))
    <3>1. p \in 0..3 /\ q \in 0..3 /\ u \in 0..3
      BY <1>1
    <3>2. AreParts(r, s, t, p, q, u) /\ AreParts(rr, s2, t2, p, q, u)
      BY <2>4 DEF AreParts
    <3>3. PartsGreater(r, s, t, rr, s2, t2)
      BY <2>5 DEF PartsGreater
    <3>4. QED
      BY <3>1, <3>2, <3>3, JoinedGreater
  <2>8. QED
    BY <1>6, <2>1, <2>2, <2>6, <2>7
<1>16. QED
  BY <1>5, <1>13, <1>14, <1>15

(* The first m values of a function are different. *)
AllDiffer(f, m) == \A i, j \in 0..m-1 : f[i] = f[j] => i = j

(* As many different values as there are numbers. *)
LEMMA CountOfImage ==
  ASSUME NEW m \in Nat, NEW f, AllDiffer(f, m)
  PROVE  Cardinality({f[i] : i \in 0..m-1}) = m
<1>. DEFINE S == 0..m-1
            T == {f[i] : i \in S}
            g == [i \in S |-> f[i]]
<1>1. IsFiniteSet(S) /\ Cardinality(S) = m
  <2>. DEFINE lo == 0
              hi == m - 1
  <2>1. lo \in Int /\ hi \in Int /\ hi - lo + 1 = m /\ (lo > hi => m = 0)
    OBVIOUS
  <2>2. S = lo..hi
    OBVIOUS
  <2>. HIDE DEF lo, hi, S
  <2>3. IsFiniteSet(lo..hi) /\ Cardinality(lo..hi) = IF lo > hi THEN 0 ELSE hi - lo + 1
    BY <2>1, FS_Interval
  <2>4. QED
    BY <2>1, <2>2, <2>3
<1>. HIDE DEF S
<1>2. g \in Bijection(S, T)
  <2>1. g \in [S -> T] /\ \A i \in S : g[i] = f[i]
    OBVIOUS
  <2>2. \A i, j \in S : g[i] = g[j] => i = j
    BY <2>1 DEF S, AllDiffer
  <2>3. \A t \in T : \E i \in S : g[i] = t
    BY <2>1
  <2>. HIDE DEF g, T
  <2>4. QED
    BY <2>1, <2>2, <2>3 DEF Bijection, Injection, Surjection, IsInjective
<1>. HIDE DEF g, T
<1>3. ExistsBijection(S, T)
  BY <1>2 DEF ExistsBijection
<1>4. QED
  BY <1>1, <1>3, FS_Bijection DEF S, T

(* The component the reference has of a number is that of the generator. *)
LEMMA ComponentIs ==
  ASSUME NEW name \in Names, NEW order, IsListed(name, order),
         NEW c \in 0..Len(EnumerateSpinPartials(name))-1
  PROVE  Component[name][c] = Vector(name, c)
<1>. DEFINE M == Len(EnumerateSpinPartials(name))
            all == Vectors(name)
            V == [n \in 0..M-1 |-> Vector(name, n)]
            above(e) == {d \in all : Greater(d, e)}
<1>1. PICK r \in 0..3, s \in 0..3, t \in 0..3 : r + s + t = order /\ IsSplit(name, r, s, t)
  BY DEF IsListed
<1>2. /\ M \in Nat \ {0}
      /\ \A n \in 0..M-1 : V[n] \in all /\ IsVector(V[n])
      /\ \A d \in all : \E n \in 0..M-1 : d = V[n]
      /\ \A n, m \in 0..M-1 : n < m => Greater(V[n], V[m])
  <2>1. /\ M \in Nat \ {0}
        /\ \A n \in 0..M-1 : Vector(name, n) \in all /\ IsVector(Vector(name, n))
        /\ \A d \in all : \E n \in 0..M-1 : d = Vector(name, n)
        /\ \A n, m \in 0..M-1 : n < m => Greater(Vector(name, n), Vector(name, m))
    BY <1>1, VectorsListed
  <2>2. \A n \in 0..M-1 : V[n] = Vector(name, n)
    OBVIOUS
  <2>. HIDE DEF V, M, all
  <2>3. QED
    BY <2>1, <2>2
<1>3. Component[name] = [k \in 0..Cardinality(all)-1 |->
                           CHOOSE e \in all : Cardinality(above(e)) = k]
  BY DEF Component
<1>4. V[c] = Vector(name, c)
  OBVIOUS
<1>5. c \in 0..M-1
  OBVIOUS
<1>. HIDE DEF M, all, V
<1>6. \A n, m \in 0..M-1 : Greater(V[n], V[m]) <=> n < m
  <2>1. ASSUME NEW n \in 0..M-1, NEW m \in 0..M-1, Greater(V[n], V[m]), ~(n < m)
        PROVE  FALSE
    <3>1. ~Greater(V[m], V[n])
      BY <1>2, <2>1, GreaterOneWay
    <3>2. ~(m < n)
      BY <1>2, <3>1
    <3>3. n = m
      BY <1>2, <2>1, <3>2
    <3>4. QED
      BY <2>1, <3>1, <3>3
  <2>2. QED
    BY <1>2, <2>1
<1>7. ASSUME NEW n \in 0..M-1
      PROVE  Cardinality(above(V[n])) = n
  <2>1. n \in Nat /\ \A i \in 0..n-1 : i \in 0..M-1 /\ i < n
    BY <1>2
  <2>2. above(V[n]) = {V[i] : i \in 0..n-1}
    <3>1. ASSUME NEW d \in above(V[n]) PROVE d \in {V[i] : i \in 0..n-1}
      <4>1. PICK i \in 0..M-1 : d = V[i]
        BY <1>2
      <4>2. i < n
        BY <1>6, <4>1
      <4>3. i \in 0..n-1
        BY <1>2, <4>2
      <4>4. QED
        BY <4>1, <4>3
    <3>2. ASSUME NEW i \in 0..n-1 PROVE V[i] \in above(V[n])
      BY <1>2, <1>6, <2>1
    <3>3. QED
      BY <3>1, <3>2
  <2>3. \A i, j \in 0..n-1 : V[i] = V[j] => i = j
    <3>1. SUFFICES ASSUME NEW i \in 0..n-1, NEW j \in 0..n-1, V[i] = V[j], i # j
                   PROVE  FALSE
      OBVIOUS
    <3>2. i \in 0..M-1 /\ j \in 0..M-1 /\ (i < j \/ j < i)
      BY <2>1, <3>1
    <3>3. ~(i < i) /\ ~(j < j)
      BY <3>1
    <3>4. ~Greater(V[i], V[i])
      BY <1>6, <3>2, <3>3
    <3>5. Greater(V[i], V[j]) \/ Greater(V[j], V[i])
      BY <1>6, <3>2
    <3>6. QED
      BY <3>1, <3>4, <3>5
  <2>4. AllDiffer(V, n)
    BY <2>3 DEF AllDiffer
  <2>5. Cardinality({V[i] : i \in 0..n-1}) = n
    BY <2>1, <2>4, CountOfImage
  <2>6. QED
    BY <2>2, <2>5
<1>8. Cardinality(all) = M
  <2>1. all = {V[i] : i \in 0..M-1}
    BY <1>2
  <2>2. \A i, j \in 0..M-1 : V[i] = V[j] => i = j
    BY <1>7
  <2>3. M \in Nat
    BY <1>2
  <2>4. AllDiffer(V, M)
    BY <2>2 DEF AllDiffer
  <2>5. Cardinality({V[i] : i \in 0..M-1}) = M
    BY <2>3, <2>4, CountOfImage
  <2>6. QED
    BY <2>1, <2>5
<1>9. Component[name][c] = CHOOSE e \in all : Cardinality(above(e)) = c
  BY <1>3, <1>5, <1>8
<1>10. \A e \in all : Cardinality(above(e)) = c => e = V[c]
  <2>1. ASSUME NEW e \in all, Cardinality(above(e)) = c PROVE e = V[c]
    <3>1. PICK n \in 0..M-1 : e = V[n]
      BY <1>2
    <3>. HIDE DEF above
    <3>2. n = c
      BY <1>7, <2>1, <3>1
    <3>3. QED
      BY <3>1, <3>2
  <2>. HIDE DEF above
  <2>2. QED
    BY <2>1
<1>. DEFINE P(e) == Cardinality(above(e)) = c
<1>11. V[c] \in all /\ P(V[c]) /\ \A e \in all : P(e) => e = V[c]
  BY <1>2, <1>5, <1>7, <1>10
<1>12. (CHOOSE e \in all : P(e)) = V[c]
  <2>. HIDE DEF P
  <2>1. QED
    BY <1>11
<1>13. QED
  BY <1>4, <1>9, <1>12

(* The places a name has in a point's row of a buffer. *)
Size(j, name) == Count(j.nspin, name) * j.n

(* The statement of an output. *)
IsAt(j, k, name, x) == Body[j][k].name = name /\ Body[j][k].index = x

(* A statement of a job. *)
StatementOK(j, k) ==
  LET out == Body[j][k]
  IN  /\ IsListed(out.name, Len(out.name)) /\ Len(out.name) \in 0..j.order
      /\ out.index \in 0..Size(j, out.name)-1
      /\ out.exponents = Vector(out.name, out.index \div j.n)
      /\ out.index % j.n \in 0..j.n-1
      /\ out.index \div j.n \in 0..Count(j.nspin, out.name)-1

(* What the assumption on the jobs says of one of them. *)
LEMMA JobFacts ==
  ASSUME NEW j \in Jobs
  PROVE  /\ j.mode \in {"combined", "contracted", "streaming"} /\ j.nspin \in Spins
         /\ j.n \in Nat \ {0} /\ j.points \in Nat
         /\ j.maxOrder \in 0..3 /\ j.order \in 0..j.maxOrder /\ j.order \in 0..3
         /\ j.mode = "contracted" => j.order = 1
         /\ j.mode = "streaming" => j.order = 0
         /\ ListsOutputs(Body[j], j.nspin, j.n, 0..j.order)
<1>1. /\ j.mode \in {"combined", "contracted", "streaming"} /\ j.nspin \in Spins
      /\ j.n \in Nat \ {0} /\ j.points \in Nat
      /\ j.maxOrder \in 0..3 /\ j.order \in 0..j.maxOrder
      /\ j.mode = "contracted" => j.order = 1
      /\ j.mode = "streaming" => j.order = 0
  BY JobAssumption DEF MaxSourceOrder
<1>2. j.order \in 0..3
  BY <1>1
<1>3. Body[j] = FunctionBody(j.nspin, j.n, j.maxOrder, j.order)
  BY DEF Body
<1>4. QED
  BY <1>1, <1>2, <1>3, BodyLists

(* Component and feature of an output are found from its index. *)
LEMMA OutputPlace ==
  ASSUME NEW nspin \in Spins, NEW n \in Nat \ {0}, NEW order, NEW name, IsListed(name, order),
         NEW c \in 0..Count(nspin, name)-1, NEW f \in 0..n-1
  PROVE  /\ Output(name, c, n, f).name = name
         /\ Output(name, c, n, f).index = c * n + f
         /\ Output(name, c, n, f).exponents = Vector(name, c)
         /\ c * n + f \in 0..Count(nspin, name)*n-1
         /\ (c * n + f) \div n = c /\ (c * n + f) % n = f
<1>1. name \in Seq(Nat) /\ Count(nspin, name) \in Nat \ {0}
  BY PartOfName
<1>. DEFINE m == Count(nspin, name)
<1>2. m \in Nat /\ c \in 0..m-1 /\ c \in Nat
  BY <1>1
<1>. HIDE DEF m
<1>3. c * n + f \in 0..m*n-1
  BY <1>2, RowIndex
<1>4. (c * n + f) \div n = c /\ (c * n + f) % n = f
  BY <1>2, Division
<1>5. /\ Output(name, c, n, f).name = name
      /\ Output(name, c, n, f).exponents = Vector(name, c)
      /\ Output(name, c, n, f).index = c * n + f
  BY DEF Output
<1>6. QED
  BY <1>3, <1>4, <1>5 DEF m

(* Every place of every buffer has one statement of the body, and the
   statements of a buffer are in the order of the places. *)
LEMMA BodyFacts ==
  ASSUME NEW j \in Jobs
  PROVE  /\ Len(Body[j]) \in Nat /\ DOMAIN Body[j] = 1..Len(Body[j])
         /\ \A k \in 1..Len(Body[j]) : StatementOK(j, k)
         /\ \A k, l \in 1..Len(Body[j]) : k < l /\ Body[j][k].name = Body[j][l].name =>
              Body[j][k].index < Body[j][l].index
         /\ \A name, order, x : order \in 0..j.order /\ IsListed(name, order)
                                /\ x \in 0..Size(j, name)-1 =>
              \E k \in 1..Len(Body[j]) : IsAt(j, k, name, x)
<1>. DEFINE body == Body[j]
            n == j.n
<1>1. /\ j.nspin \in Spins /\ n \in Nat \ {0} /\ j.order \in Nat
      /\ ListsOutputs(body, j.nspin, n, 0..j.order)
  BY JobFacts
<1>. HIDE DEF body, n
<1>2. Len(body) \in Nat /\ DOMAIN body = 1..Len(body)
  BY <1>1 DEF ListsOutputs
<1>3. ASSUME NEW k \in 1..Len(body)
      PROVE  StatementOK(j, k)
  <2>1. body[k] \in Elements(body)
    BY <1>2 DEF Elements
  <2>2. PICK order \in 0..j.order : IsOutputOf(body[k], j.nspin, n, order)
    BY <1>1, <2>1 DEF ListsOutputs
  <2>3. PICK name : IsListed(name, order) /\ \E c \in 0..Count(j.nspin, name)-1 :
                      \E f \in 0..n-1 : body[k] = Output(name, c, n, f)
    BY <2>2 DEF IsOutputOf
  <2>4. PICK c \in 0..Count(j.nspin, name)-1, f \in 0..n-1 : body[k] = Output(name, c, n, f)
    BY <2>3
  <2>5. /\ body[k].name = name /\ body[k].index = c * n + f
        /\ body[k].exponents = Vector(name, c)
        /\ c * n + f \in 0..Count(j.nspin, name)*n-1
        /\ (c * n + f) \div n = c /\ (c * n + f) % n = f
    BY <1>1, <2>3, <2>4, OutputPlace
  <2>6. Len(name) = order
    BY <1>1, <2>3, PartOfName
  <2>7. QED
    BY <2>3, <2>4, <2>5, <2>6 DEF StatementOK, Size, body, n
<1>4. ASSUME NEW k \in 1..Len(body), NEW l \in 1..Len(body), k < l, body[k].name = body[l].name
      PROVE  body[k].index < body[l].index
  <2>1. <<body[k], body[l]>> \in Earlier(n)
    BY <1>1, <1>2, <1>4 DEF ListsOutputs, InOrder
  <2>2. QED
    BY <1>4, <2>1 DEF Earlier
<1>5. ASSUME NEW name, NEW order \in 0..j.order, IsListed(name, order),
             NEW x \in 0..Size(j, name)-1
      PROVE  \E k \in 1..Len(body) : IsAt(j, k, name, x)
  <2>. DEFINE m == Count(j.nspin, name)
  <2>1. m \in Nat \ {0}
    BY <1>1, <1>5, PartOfName
  <2>2. x \in 0..m*n-1
    BY DEF Size, n
  <2>. HIDE DEF m
  <2>3. x \div n \in 0..m-1 /\ x % n \in 0..n-1 /\ x = (x \div n) * n + (x % n)
    BY <1>1, <2>1, <2>2, QuotientBound
  <2>. DEFINE c == x \div n
              f == x % n
  <2>. HIDE DEF c, f
  <2>4. c \in 0..m-1 /\ f \in 0..n-1 /\ x = c * n + f
    BY <2>3 DEF c, f
  <2>5. IsOutputOf(Output(name, c, n, f), j.nspin, n, order)
    BY <1>5, <2>4 DEF IsOutputOf, m
  <2>6. Output(name, c, n, f) \in Elements(body)
    BY <1>1, <2>5 DEF ListsOutputs
  <2>7. PICK k \in 1..Len(body) : body[k] = Output(name, c, n, f)
    BY <1>2, <2>6 DEF Elements
  <2>8. Output(name, c, n, f).name = name /\ Output(name, c, n, f).index = c * n + f
    BY <1>1, <1>5, <2>4, OutputPlace DEF m
  <2>9. IsAt(j, k, name, x)
    BY <2>4, <2>7, <2>8 DEF IsAt, body
  <2>10. QED
    BY <2>9
<1>6. QED
  BY <1>2, <1>3, <1>4, <1>5 DEF body

(* What the buffer of a name is like. *)
IsBuffer(j, name) ==
  /\ name \in Names /\ IsListed(name, Len(name)) /\ Len(name) \in 0..j.order
  /\ Count(j.nspin, name) \in Nat \ {0}
  /\ Count(j.nspin, name) =< Len(EnumerateSpinPartials(name))
  /\ Size(j, name) \in Nat \ {0}

(* The table of fields has names only. *)
LEMMA FieldLengths ==
  /\ DOMAIN PrivateFields = 1..35
  /\ \A i \in 1..35 : Len(PrivateFields[i].vars) \in Nat
<1>1. DOMAIN PrivateFields = 1..35
  BY NumberOfFields DEF PrivateFields
<1>2. \A i \in 1..35 : Len(PrivateFields[i].vars) \in Nat
  BY FieldVariableCount
<1>3. QED
  BY <1>1, <1>2

(* A field up to the highest order is one the generator knows, with as many
   components. *)
LEMMA FieldOfName ==
  ASSUME NEW i \in DOMAIN PrivateFields, Len(PrivateFields[i].vars) =< 3
  PROVE  /\ PrivateFields[i].vars \in Names
         /\ IsListed(PrivateFields[i].vars, Len(PrivateFields[i].vars))
         /\ Len(PrivateFields[i].vars) \in 0..3
         /\ PrivateFields[i].polarized = Len(EnumerateSpinPartials(PrivateFields[i].vars))
<1>1. DOMAIN PrivateFields = 1..35
  BY NumberOfFields DEF PrivateFields
<1>2. i \in 1..20
  BY <1>1, FieldVariableCount
<1>. DEFINE name == PrivateFields[i].vars
<1>3. PICK r \in 0..3, s \in 0..3, t \in 0..3 :
        /\ IsSplit(name, r, s, t)
        /\ PrivateFields[i].polarized = SplitSize("POLARIZED", r, s, t)
  BY <1>2, FieldShapes
<1>4. name \in Names
  BY DEF Names, MaxSourceOrder
<1>. HIDE DEF name
<1>5. Len(name) = r + s + t /\ Len(name) \in 0..3
  BY <1>3 DEF IsSplit
<1>6. IsListed(name, Len(name))
  BY <1>3, <1>5 DEF IsListed
<1>7. Len(EnumerateSpinPartials(name)) = SplitSize("POLARIZED", r, s, t)
  BY <1>3, Enumerated
<1>8. QED
  BY <1>3, <1>4, <1>5, <1>6, <1>7 DEF name

(* A field up to the order of the call is a buffer of the body. *)
LEMMA BufferOfField ==
  ASSUME NEW j \in Jobs, NEW i \in DOMAIN PrivateFields, Len(PrivateFields[i].vars) =< j.order
  PROVE  IsBuffer(j, PrivateFields[i].vars)
<1>. DEFINE name == PrivateFields[i].vars
<1>1. j.order \in 0..3 /\ j.nspin \in Spins /\ j.n \in Nat \ {0}
  BY JobFacts
<1>2. Len(name) \in Nat
  BY FieldLengths
<1>3. Len(name) =< 3
  BY <1>1, <1>2
<1>4. name \in Names /\ IsListed(name, Len(name)) /\ Len(name) \in 0..3
  BY <1>3, FieldOfName
<1>. HIDE DEF name
<1>5. /\ Count(j.nspin, name) \in Nat \ {0}
      /\ Count(j.nspin, name) =< Len(EnumerateSpinPartials(name))
  BY <1>1, <1>4, PartOfName
<1>6. Size(j, name) \in Nat \ {0}
  <2>. DEFINE m == Count(j.nspin, name)
              n == j.n
  <2>1. m \in Nat \ {0} /\ n \in Nat \ {0}
    BY <1>1, <1>5
  <2>. HIDE DEF m, n
  <2>2. m * n \in Nat \ {0}
    BY <2>1
  <2>3. QED
    BY <2>2 DEF Size, m, n
<1>7. Len(name) \in 0..j.order
  BY <1>1, <1>2 DEF name
<1>8. QED
  BY <1>4, <1>5, <1>6, <1>7 DEF IsBuffer, name

(* The names of the first derivatives and of the value. *)
LEMMA FirstNames ==
  /\ \E i \in DOMAIN PrivateFields : PrivateFields[i].vars = << >>
  /\ \A var \in {RHO, SIGMA, TAU} :
       \E i \in DOMAIN PrivateFields : PrivateFields[i].vars = <<var>>
<1>1. DOMAIN PrivateFields = 1..35
  BY NumberOfFields DEF PrivateFields
<1>2. 1 \in 1..35 /\ 2 \in 1..35 /\ 3 \in 1..35 /\ 4 \in 1..35
  OBVIOUS
<1>3. PrivateFields[1].vars = << >>
  BY FieldsOfVariables
<1>4. PrivateFields[2].vars = <<RHO>> /\ PrivateFields[3].vars = <<SIGMA>>
      /\ PrivateFields[4].vars = <<TAU>>
  BY FieldsOfVariables
<1>5. QED
  BY <1>1, <1>2, <1>3, <1>4

(* In a combined evaluation a row of a buffer has a place for every output of
   its name. *)
LEMMA CombinedPointers ==
  ASSUME NEW j \in Jobs, j.mode = "combined", NEW name \in Pointers(j)
  PROVE  IsBuffer(j, name) /\ Dim(j, name) = Size(j, name)
<1>1. Pointers(j) = {PrivateFields[i].vars : i \in StoredFields(j.nspin, j.points, j.order)}
  BY DEF Pointers
<1>2. PICK i \in StoredFields(j.nspin, j.points, j.order) : name = PrivateFields[i].vars
  BY <1>1
<1>3. j.order \in 0..3 /\ j.nspin \in Spins /\ j.n \in Nat \ {0}
  BY JobFacts
<1>4. \A k \in DOMAIN PrivateFields : Len(PrivateFields[k].vars) \in Nat
  BY FieldLengths
<1>5. i \in DOMAIN PrivateFields /\ Len(name) =< j.order
  <2>1. DOMAIN PrivateFields = 1..Len(PrivateFields)
    BY DEF PrivateFields
  <2>2. i \in DOMAIN PrivateFields /\ PrivateDimension(j.nspin, PrivateFields[i], j.order) > 0
    BY <2>1 DEF StoredFields
  <2>3. QED
    BY <1>2, <1>3, <1>4, <2>2 DEF PrivateDimension
<1>6. IsBuffer(j, name)
  BY <1>2, <1>5, BufferOfField
<1>. DEFINE field == CHOOSE k \in DOMAIN PrivateFields : PrivateFields[k].vars = name
<1>7. field \in DOMAIN PrivateFields /\ PrivateFields[field].vars = name
  BY <1>2, <1>5
<1>8. Dim(j, name) = PrivateDimension(j.nspin, PrivateFields[field], j.order) * j.n
  BY DEF Dim
<1>. HIDE DEF field
<1>9. PrivateDimension(j.nspin, PrivateFields[field], j.order) = Count(j.nspin, name)
  <2>1. Len(name) \in Nat /\ Len(name) =< 3 /\ ~(Len(name) > j.order)
    BY <1>2, <1>3, <1>4, <1>5
  <2>2. PrivateFields[field].polarized = Len(EnumerateSpinPartials(name))
    BY <1>7, <2>1, FieldOfName
  <2>3. j.nspin = "POLARIZED" \/ j.nspin = "UNPOLARIZED"
    BY <1>3 DEF Spins
  <2>4. QED
    BY <1>7, <2>1, <2>2, <2>3 DEF PrivateDimension, Count
<1>10. QED
  BY <1>6, <1>8, <1>9 DEF Size

(* The components of the first derivatives. *)
LEMMA FirstCounts ==
  /\ Len(EnumerateSpinPartials(<<RHO>>)) = 2 /\ Len(EnumerateSpinPartials(<<SIGMA>>)) = 3
  /\ Len(EnumerateSpinPartials(<<TAU>>)) = 2 /\ Len(EnumerateSpinPartials(<< >>)) = 1
<1>1. /\ PrivateFields[1].polarized = 1 /\ PrivateFields[2].polarized = 2
      /\ PrivateFields[3].polarized = 3 /\ PrivateFields[4].polarized = 2
  BY TableOfComponents
<1>2. /\ PrivateFields[1].vars = << >> /\ PrivateFields[2].vars = <<RHO>>
      /\ PrivateFields[3].vars = <<SIGMA>> /\ PrivateFields[4].vars = <<TAU>>
  BY FieldsOfVariables
<1>3. 1 \in DOMAIN PrivateFields /\ 2 \in DOMAIN PrivateFields
      /\ 3 \in DOMAIN PrivateFields /\ 4 \in DOMAIN PrivateFields
  BY FieldLengths
<1>4. Len(<< >>) =< 3 /\ Len(<<RHO>>) =< 3 /\ Len(<<SIGMA>>) =< 3 /\ Len(<<TAU>>) =< 3
  OBVIOUS
<1>5. PrivateFields[1].polarized = Len(EnumerateSpinPartials(PrivateFields[1].vars))
  <2>1. Len(PrivateFields[1].vars) =< 3
    BY <1>2, <1>4
  <2>2. QED
    BY <1>3, <2>1, FieldOfName
<1>6. PrivateFields[2].polarized = Len(EnumerateSpinPartials(PrivateFields[2].vars))
  <2>1. Len(PrivateFields[2].vars) =< 3
    BY <1>2, <1>4
  <2>2. QED
    BY <1>3, <2>1, FieldOfName
<1>7. PrivateFields[3].polarized = Len(EnumerateSpinPartials(PrivateFields[3].vars))
  <2>1. Len(PrivateFields[3].vars) =< 3
    BY <1>2, <1>4
  <2>2. QED
    BY <1>3, <2>1, FieldOfName
<1>8. PrivateFields[4].polarized = Len(EnumerateSpinPartials(PrivateFields[4].vars))
  <2>1. Len(PrivateFields[4].vars) =< 3
    BY <1>2, <1>4
  <2>2. QED
    BY <1>3, <2>1, FieldOfName
<1>9. QED
  BY <1>1, <1>2, <1>5, <1>6, <1>7, <1>8

(* The arrays on the stack of the contraction have room for every component. *)
LEMMA ContractedPointers ==
  ASSUME NEW j \in Jobs, j.mode = "contracted", NEW name \in Pointers(j)
  PROVE  /\ IsBuffer(j, name) /\ Len(name) = 1
         /\ Components(j, name) = Count(j.nspin, name)
         /\ Count(j.nspin, name) =< StackLength(name)
<1>1. name \in {<<RHO>>, <<SIGMA>>, <<TAU>>}
  BY DEF Pointers
<1>2. j.order = 1 /\ j.nspin \in Spins
  BY JobFacts
<1>3. IsBuffer(j, name) /\ Len(name) = 1
  <2>1. Len(<<RHO>>) = 1 /\ Len(<<SIGMA>>) = 1 /\ Len(<<TAU>>) = 1
    OBVIOUS
  <2>2. Len(name) = 1
    BY <1>1, <2>1
  <2>3. PICK i \in DOMAIN PrivateFields : PrivateFields[i].vars = name
    BY <1>1, FirstNames
  <2>. DEFINE v == PrivateFields[i].vars
  <2>4. v = name
    BY <2>3
  <2>. HIDE DEF v
  <2>5. Len(v) =< j.order
    <3>1. Len(v) = 1
      BY <2>2, <2>4
    <3>2. j.order = 1
      BY <1>2
    <3>3. QED
      BY <3>1, <3>2
  <2>6. IsBuffer(j, v)
    BY <2>3, <2>5, BufferOfField DEF v
  <2>7. QED
    BY <2>2, <2>4, <2>6
<1>4. /\ SpinDim("UNPOLARIZED", RHO) = 1 /\ SpinDim("UNPOLARIZED", SIGMA) = 1
      /\ SpinDim("UNPOLARIZED", TAU) = 1
      /\ SpinDim("POLARIZED", RHO) = 2 /\ SpinDim("POLARIZED", SIGMA) = 3
      /\ SpinDim("POLARIZED", TAU) = 2
  BY Dims
<1>5. j.nspin = "POLARIZED" \/ j.nspin = "UNPOLARIZED"
  BY <1>2 DEF Spins
<1>6. Components(j, name) = SpinDim(j.nspin, name[1])
  BY DEF Components, SpinDim
<1>7. CASE name = <<RHO>>
  <2>1. name[1] = RHO /\ <<RHO>> # <<SIGMA>>
    BY <1>7 DEF RHO, SIGMA
  <2>2. QED
    <3>1. Components(j, name) = SpinDim(j.nspin, RHO)
      BY <1>6, <2>1
    <3>2. Len(EnumerateSpinPartials(name)) = 2
      BY <1>7, FirstCounts
    <3>3. StackLength(name) = 2
      BY <1>7, <2>1 DEF StackLength
    <3>4. Count(j.nspin, name) = IF j.nspin = "POLARIZED" THEN 2 ELSE 1
      BY <3>2 DEF Count
    <3>5. SpinDim(j.nspin, RHO) = IF j.nspin = "POLARIZED" THEN 2 ELSE 1
      BY <1>4, <1>5
    <3>6. QED
      BY <1>3, <3>1, <3>3, <3>4, <3>5
<1>8. CASE name = <<SIGMA>>
  <2>1. name[1] = SIGMA
    BY <1>8
  <2>2. QED
    <3>1. Components(j, name) = SpinDim(j.nspin, SIGMA)
      BY <1>6, <2>1
    <3>2. Len(EnumerateSpinPartials(name)) = 3
      BY <1>8, FirstCounts
    <3>3. StackLength(name) = 3
      BY <1>8, <2>1 DEF StackLength
    <3>4. Count(j.nspin, name) = IF j.nspin = "POLARIZED" THEN 3 ELSE 1
      BY <3>2 DEF Count
    <3>5. SpinDim(j.nspin, SIGMA) = IF j.nspin = "POLARIZED" THEN 3 ELSE 1
      BY <1>4, <1>5
    <3>6. QED
      BY <1>3, <3>1, <3>3, <3>4, <3>5
<1>9. CASE name = <<TAU>>
  <2>1. name[1] = TAU /\ <<TAU>> # <<SIGMA>>
    BY <1>9 DEF TAU, SIGMA
  <2>2. QED
    <3>1. Components(j, name) = SpinDim(j.nspin, TAU)
      BY <1>6, <2>1
    <3>2. Len(EnumerateSpinPartials(name)) = 2
      BY <1>9, FirstCounts
    <3>3. StackLength(name) = 2
      BY <1>9, <2>1 DEF StackLength
    <3>4. Count(j.nspin, name) = IF j.nspin = "POLARIZED" THEN 2 ELSE 1
      BY <3>2 DEF Count
    <3>5. SpinDim(j.nspin, TAU) = IF j.nspin = "POLARIZED" THEN 2 ELSE 1
      BY <1>4, <1>5
    <3>6. QED
      BY <1>3, <3>1, <3>3, <3>4, <3>5
<1>10. QED
  BY <1>1, <1>7, <1>8, <1>9

(* The streaming integral has the one buffer of the feature values. *)
LEMMA StreamingPointers ==
  ASSUME NEW j \in Jobs, j.mode = "streaming"
  PROVE  /\ Pointers(j) = {<< >>} /\ IsBuffer(j, << >>) /\ Count(j.nspin, << >>) = 1
         /\ Size(j, << >>) = j.n /\ j.order = 0
<1>1. j.order = 0 /\ j.n \in Nat \ {0}
  BY JobFacts
<1>2. Pointers(j) = {<< >>}
  BY DEF Pointers
<1>3. Len(<< >>) = 0 /\ \E i \in DOMAIN PrivateFields : PrivateFields[i].vars = << >>
  BY FirstNames
<1>4. IsBuffer(j, << >>)
  BY <1>1, <1>3, BufferOfField
<1>5. Count(j.nspin, << >>) = 1
  BY FirstCounts DEF Count
<1>6. QED
  BY <1>1, <1>2, <1>4, <1>5 DEF Size

(* What a statement adds to a cell. *)
Entry(name, c, f, p, coefficient) ==
  [value |-> [exponents |-> Vector(name, c), feature |-> f, point |-> p],
   coefficient |-> coefficient]

(* One of the statements before s is that of a place. *)
Done(j, s, name, x) == \E k \in 1..s-1 : IsAt(j, k, name, x)

Add(cl, name, i, e) == [cl EXCEPT ![name][i] = Append(@, e)]

BuffersOK(j, cl) ==
  /\ cl = [name \in Pointers(j) |-> cl[name]]
  /\ \A name \in Pointers(j) :
       cl[name] = [x \in 0..BufferLength(j, name)-1 |-> cl[name][x]]

CombinedCells(j, p, s, cl) ==
  \A name \in Pointers(j) : \A q \in 0..j.points-1 : \A x \in 0..Size(j, name)-1 :
    cl[name][q * Size(j, name) + x] =
      IF q < p \/ (q = p /\ Done(j, s, name, x))
      THEN <<Entry(name, x \div j.n, x % j.n, q, -1)>> ELSE << >>

(* Of a component, the first m features are done. *)
FirstDone(j, s, name, c, m) ==
  m \in 0..j.n /\ \A f \in 0..j.n-1 : Done(j, s, name, c * j.n + f) <=> f < m

Sum(name, c, m, p) == [i \in 1..m |-> Entry(name, c, i - 1, p, i - 1)]

ContractedCells(j, p, s, cl) ==
  \A name \in Pointers(j) : \A c \in 0..Count(j.nspin, name)-1 :
    \E m \in 0..j.n : FirstDone(j, s, name, c, m) /\ cl[name][c] = Sum(name, c, m, p)

ContractedStore(j, p, st) ==
  /\ st = [name \in Pointers(j) |-> st[name]]
  /\ \A name \in Pointers(j) :
       /\ st[name] = [i \in 0..Components(j, name) * j.points - 1 |-> st[name][i]]
       /\ \A q \in 0..j.points-1 : \A c \in 0..Components(j, name)-1 :
            q < p => st[name][c * j.points + q] = Sum(name, c, j.n, q)

StreamedCells(j, p, s, cl) ==
  \A f \in 0..j.n-1 :
    cl[<< >>][f] = IF Done(j, s, << >>, f) THEN <<Entry(<< >>, 0, f, p, -1)>> ELSE << >>

StreamedStore(j, p, st) ==
  /\ st = [f \in 0..j.n-1 |-> st[f]]
  /\ \A f \in 0..j.n-1 : st[f] = [i \in 1..p |-> Entry(<< >>, 0, f, i - 1, -1)]

KernelInvariant ==
  /\ job \in Jobs /\ point \in 0..job.points /\ statement \in 1..Len(Body[job])+1
  /\ BuffersOK(job, cells)
  /\ job.mode = "combined" => CombinedCells(job, point, statement, cells)
  /\ job.mode = "contracted" =>
       ContractedCells(job, point, statement, cells) /\ ContractedStore(job, point, stored)
  /\ job.mode = "streaming" =>
       StreamedCells(job, point, statement, cells) /\ StreamedStore(job, point, stored)

(* Adding a value changes one cell. *)
LEMMA AddAt ==
  ASSUME NEW j, NEW cl, BuffersOK(j, cl), NEW name \in Pointers(j),
         NEW i \in 0..BufferLength(j, name)-1, NEW e
  PROVE  /\ BuffersOK(j, Add(cl, name, i, e))
         /\ \A other \in Pointers(j) : \A x \in 0..BufferLength(j, other)-1 :
              Add(cl, name, i, e)[other][x] =
                IF other = name /\ x = i THEN Append(cl[name][i], e) ELSE cl[other][x]
<1>. DEFINE new == Add(cl, name, i, e)
<1>1. /\ new = [other \in Pointers(j) |->
                  IF other = name THEN [cl[name] EXCEPT ![i] = Append(@, e)] ELSE cl[other]]
  BY DEF BuffersOK, Add
<1>2. \A other \in Pointers(j) :
        new[other] = IF other = name THEN [cl[name] EXCEPT ![i] = Append(@, e)] ELSE cl[other]
  BY <1>1
<1>3. \A other \in Pointers(j) :
        cl[other] = [x \in 0..BufferLength(j, other)-1 |-> cl[other][x]]
  BY DEF BuffersOK
<1>. HIDE DEF new
<1>4. ASSUME NEW other \in Pointers(j)
      PROVE  /\ new[other] = [x \in 0..BufferLength(j, other)-1 |-> new[other][x]]
             /\ \A x \in 0..BufferLength(j, other)-1 :
                  new[other][x] =
                    IF other = name /\ x = i THEN Append(cl[name][i], e) ELSE cl[other][x]
  <2>1. CASE other = name
    <3>1. new[other] = [cl[name] EXCEPT ![i] = Append(@, e)]
      BY <1>2, <2>1
    <3>2. cl[name] = [x \in 0..BufferLength(j, name)-1 |-> cl[name][x]]
      BY <1>3
    <3>. DEFINE D == 0..BufferLength(j, name)-1
    <3>. HIDE DEF D
    <3>3. /\ new[other] = [x \in D |-> new[other][x]]
          /\ \A x \in D : new[other][x] = IF x = i THEN Append(cl[name][i], e) ELSE cl[name][x]
      BY <3>1, <3>2 DEF D
    <3>4. QED
      BY <2>1, <3>3 DEF D
  <2>2. CASE other # name
    BY <1>2, <1>3, <2>2
  <2>3. QED
    BY <2>1, <2>2
<1>5. new = [other \in Pointers(j) |-> new[other]]
  BY <1>1, <1>2
<1>6. BuffersOK(j, new)
  BY <1>4, <1>5 DEF BuffersOK
<1>7. QED
  BY <1>4, <1>6 DEF new

(* After a statement its place is done, and otherwise those that were. *)
LEMMA DoneStep ==
  ASSUME NEW j \in Jobs, NEW s \in 1..Len(Body[j]), NEW name, NEW x
  PROVE  Done(j, s + 1, name, x) <=> Done(j, s, name, x) \/ IsAt(j, s, name, x)
<1>1. 1..(s+1)-1 = (1..s-1) \cup {s}
  BY BodyFacts
<1>2. QED
  BY <1>1 DEF Done

(* Before the first statement no place is done. *)
LEMMA DoneStart ==
  ASSUME NEW j, NEW name, NEW x
  PROVE  ~Done(j, 1, name, x)
BY DEF Done

(* Of the name of the current statement, exactly the places before it are done. *)
LEMMA DoneBelow ==
  ASSUME NEW j \in Jobs, NEW s \in 1..Len(Body[j]), NEW name, NEW x, IsAt(j, s, name, x)
  PROVE  /\ StatementOK(j, s) /\ x \in 0..Size(j, name)-1
         /\ \A y \in 0..Size(j, name)-1 : Done(j, s, name, y) <=> y < x
<1>. DEFINE L == Len(Body[j])
<1>1. /\ L \in Nat
      /\ \A k \in 1..L : StatementOK(j, k)
      /\ \A k, l \in 1..L : k < l /\ Body[j][k].name = Body[j][l].name =>
           Body[j][k].index < Body[j][l].index
      /\ \A o \in 0..j.order : IsListed(name, o) =>
           \A y \in 0..Size(j, name)-1 : \E k \in 1..L : IsAt(j, k, name, y)
  BY BodyFacts
<1>2. Body[j][s].name = name /\ Body[j][s].index = x /\ s \in 1..L
  BY DEF IsAt
<1>. HIDE DEF L
<1>3. IsListed(name, Len(name)) /\ Len(name) \in 0..j.order /\ x \in 0..Size(j, name)-1
  BY <1>1, <1>2 DEF StatementOK
<1>4. \A y \in 0..Size(j, name)-1 : \E k \in 1..L : IsAt(j, k, name, y)
  BY <1>1, <1>3
<1>5. ASSUME NEW y \in 0..Size(j, name)-1, Done(j, s, name, y)
      PROVE  y < x
  <2>1. PICK k \in 1..s-1 : IsAt(j, k, name, y)
    BY <1>5 DEF Done
  <2>2. k \in 1..L /\ k < s
    BY <1>1, <1>2
  <2>3. Body[j][k].name = name /\ Body[j][k].index = y
    BY <2>1 DEF IsAt
  <2>4. QED
    BY <1>1, <1>2, <2>2, <2>3
<1>6. ASSUME NEW y \in 0..Size(j, name)-1, y < x
      PROVE  Done(j, s, name, y)
  <2>1. PICK k \in 1..L : IsAt(j, k, name, y)
    BY <1>4
  <2>2. Body[j][k].name = name /\ Body[j][k].index = y
    BY <2>1 DEF IsAt
  <2>3. ~(s < k)
    <3>1. SUFFICES ASSUME s < k PROVE FALSE
      OBVIOUS
    <3>2. x < y
      BY <1>1, <1>2, <2>2, <3>1
    <3>3. x \in Int /\ y \in Int
      BY <1>3
    <3>4. QED
      BY <1>6, <3>2, <3>3
  <2>4. k # s
    <3>1. SUFFICES ASSUME k = s PROVE FALSE
      OBVIOUS
    <3>2. x = y
      BY <1>2, <2>2, <3>1
    <3>3. QED
      BY <1>3, <1>6, <3>2
  <2>5. k \in 1..s-1
    BY <1>1, <1>2, <2>3, <2>4
  <2>6. QED
    BY <2>1, <2>5 DEF Done
<1>7. QED
  BY <1>1, <1>2, <1>3, <1>5, <1>6

(* After the last statement every place of every buffer is done. *)
LEMMA AllDone ==
  ASSUME NEW j \in Jobs, NEW name, IsBuffer(j, name), NEW x \in 0..Size(j, name)-1
  PROVE  Done(j, Len(Body[j]) + 1, name, x)
<1>1. Len(Body[j]) \in Nat
  BY BodyFacts
<1>2. \E k \in 1..Len(Body[j]) : IsAt(j, k, name, x)
  <2>1. \A o \in 0..j.order : IsListed(name, o) =>
          \A y \in 0..Size(j, name)-1 : \E k \in 1..Len(Body[j]) : IsAt(j, k, name, y)
    BY BodyFacts
  <2>2. QED
    BY <2>1 DEF IsBuffer
<1>3. 1..(Len(Body[j])+1)-1 = 1..Len(Body[j])
  BY <1>1
<1>4. QED
  BY <1>2, <1>3 DEF Done

(* A statement is for one place. *)
LEMMA SameStatement ==
  ASSUME NEW j, NEW s, NEW name, NEW x, IsAt(j, s, name, x)
  PROVE  \A other, y : IsAt(j, s, other, y) <=> other = name /\ y = x
BY DEF IsAt

(* A row of a private buffer. *)
LEMMA CombinedRow ==
  ASSUME NEW j \in Jobs, j.mode = "combined", NEW name \in Pointers(j),
         NEW q \in 0..j.points-1, NEW x \in 0..Size(j, name)-1
  PROVE  /\ Size(j, name) \in Nat \ {0}
         /\ q * Size(j, name) + x \in 0..BufferLength(j, name)-1
         /\ \A r \in 0..j.points-1 : \A y \in 0..Size(j, name)-1 :
              r * Size(j, name) + y = q * Size(j, name) + x => r = q /\ y = x
<1>. DEFINE m == Size(j, name)
            n == j.points
<1>1. m \in Nat \ {0} /\ n \in Nat /\ Dim(j, name) = m
  BY CombinedPointers, JobFacts DEF IsBuffer
<1>2. BufferLength(j, name) = n * m
  BY <1>1 DEF BufferLength
<1>3. q \in 0..n-1 /\ x \in 0..m-1
  OBVIOUS
<1>. HIDE DEF m, n
<1>4. q * m + x \in 0..n*m-1
  BY <1>1, <1>3, RowIndex
<1>5. ASSUME NEW r \in 0..n-1, NEW y \in 0..m-1, r * m + y = q * m + x
      PROVE  r = q /\ y = x
  <2>0. r \in Nat /\ q \in Nat /\ x \in 0..m-1 /\ y \in 0..m-1
    BY <1>1, <1>3
  <2>1. (r * m + y) \div m = r /\ (r * m + y) % m = y
    BY <1>1, <2>0, Division
  <2>2. (q * m + x) \div m = q /\ (q * m + x) % m = x
    BY <1>1, <2>0, Division
  <2>3. QED
    BY <1>5, <2>1, <2>2
<1>6. QED
  BY <1>1, <1>2, <1>4, <1>5 DEF m, n

(* Combined: a statement fills the place it is for, in the row of the point. *)
LEMMA CombinedStep ==
  ASSUME NEW j \in Jobs, j.mode = "combined", NEW p \in 0..j.points-1,
         NEW s \in 1..Len(Body[j]), NEW cl, BuffersOK(j, cl), CombinedCells(j, p, s, cl),
         NEW name \in Pointers(j), NEW x, IsAt(j, s, name, x)
  PROVE  CombinedCells(j, p, s + 1, Add(cl, name, p * Size(j, name) + x,
                                        Entry(name, x \div j.n, x % j.n, p, -1)))
<1>. DEFINE place == p * Size(j, name) + x
            e == Entry(name, x \div j.n, x % j.n, p, -1)
            new == Add(cl, name, place, e)
<1>1. /\ x \in 0..Size(j, name)-1
      /\ \A y \in 0..Size(j, name)-1 : Done(j, s, name, y) <=> y < x
  BY DoneBelow
<1>2. place \in 0..BufferLength(j, name)-1
  BY <1>1, CombinedRow
<1>3. \A other \in Pointers(j) : \A i \in 0..BufferLength(j, other)-1 :
        new[other][i] = IF other = name /\ i = place THEN Append(cl[name][place], e)
                        ELSE cl[other][i]
  BY <1>2, AddAt
<1>4. ASSUME NEW other \in Pointers(j), NEW q \in 0..j.points-1,
             NEW y \in 0..Size(j, other)-1
      PROVE  new[other][q * Size(j, other) + y] =
               IF q < p \/ (q = p /\ Done(j, s + 1, other, y))
               THEN <<Entry(other, y \div j.n, y % j.n, q, -1)>> ELSE << >>
  <2>. DEFINE i == q * Size(j, other) + y
  <2>1. i \in 0..BufferLength(j, other)-1
    BY CombinedRow
  <2>2. new[other][i] = IF other = name /\ i = place THEN Append(cl[name][place], e)
                        ELSE cl[other][i]
    BY <1>3, <2>1
  <2>3. cl[other][i] = IF q < p \/ (q = p /\ Done(j, s, other, y))
                       THEN <<Entry(other, y \div j.n, y % j.n, q, -1)>> ELSE << >>
    BY DEF CombinedCells
  <2>4. Done(j, s + 1, other, y) <=> Done(j, s, other, y) \/ (other = name /\ y = x)
    BY DoneStep, SameStatement
  <2>. HIDE DEF i, new, place, e
  <2>5. CASE other = name /\ q = p /\ y = x
    <3>1. i = place
      BY <2>5 DEF i, place
    <3>2. ~Done(j, s, other, y)
      <4>1. ~(x < x)
        BY <1>1
      <4>2. QED
        BY <1>1, <2>5, <4>1
    <3>3. ~(q < p)
      BY <2>5
    <3>4. cl[name][place] = << >>
      BY <2>3, <2>5, <3>1, <3>2, <3>3
    <3>5. new[other][i] = <<e>>
      BY <2>2, <2>5, <3>1, <3>4
    <3>6. e = Entry(other, y \div j.n, y % j.n, q, -1)
      BY <2>5 DEF e
    <3>7. QED
      BY <2>4, <2>5, <3>5, <3>6 DEF i
  <2>6. CASE ~(other = name /\ q = p /\ y = x)
    <3>1. ~(other = name /\ i = place)
      <4>1. SUFFICES ASSUME other = name, i = place PROVE FALSE
        OBVIOUS
      <4>2. y \in 0..Size(j, name)-1
        BY <4>1
      <4>3. q * Size(j, name) + y = p * Size(j, name) + x
        BY <4>1 DEF i, place
      <4>4. q = p /\ y = x
        BY <1>1, <4>2, <4>3, CombinedRow
      <4>5. QED
        BY <2>6, <4>1, <4>4
    <3>2. new[other][i] = cl[other][i]
      BY <2>2, <3>1
    <3>3. q = p => (Done(j, s + 1, other, y) <=> Done(j, s, other, y))
      BY <2>4, <2>6
    <3>4. QED
      BY <2>3, <3>2, <3>3 DEF i
  <2>7. QED
    BY <2>5, <2>6
<1>5. QED
  BY <1>4 DEF CombinedCells

(* Combined: a statement whose pointer is NULL leaves the cells right. *)
LEMMA CombinedSkip ==
  ASSUME NEW j \in Jobs, NEW p \in 0..j.points-1, NEW s \in 1..Len(Body[j]), NEW cl,
         CombinedCells(j, p, s, cl), NEW name, name \notin Pointers(j), NEW x,
         IsAt(j, s, name, x)
  PROVE  CombinedCells(j, p, s + 1, cl)
<1>1. \A other \in Pointers(j) : \A y : Done(j, s + 1, other, y) <=> Done(j, s, other, y)
  BY DoneStep, SameStatement
<1>2. QED
  BY <1>1 DEF CombinedCells

(* Combined: after the last statement the row of the point is full. *)
LEMMA CombinedEnd ==
  ASSUME NEW j \in Jobs, j.mode = "combined", NEW p \in 0..j.points-1, NEW cl,
         CombinedCells(j, p, Len(Body[j]) + 1, cl)
  PROVE  CombinedCells(j, p + 1, 1, cl)
<1>1. ASSUME NEW name \in Pointers(j), NEW q \in 0..j.points-1, NEW x \in 0..Size(j, name)-1
      PROVE  cl[name][q * Size(j, name) + x] =
               IF q < p + 1 \/ (q = p + 1 /\ Done(j, 1, name, x))
               THEN <<Entry(name, x \div j.n, x % j.n, q, -1)>> ELSE << >>
  <2>1. IsBuffer(j, name)
    BY CombinedPointers
  <2>2. Done(j, Len(Body[j]) + 1, name, x) /\ ~Done(j, 1, name, x)
    BY <2>1, AllDone, DoneStart
  <2>3. cl[name][q * Size(j, name) + x] =
          IF q < p \/ (q = p /\ Done(j, Len(Body[j]) + 1, name, x))
          THEN <<Entry(name, x \div j.n, x % j.n, q, -1)>> ELSE << >>
    BY DEF CombinedCells
  <2>4. q < p + 1 <=> q < p \/ q = p
    BY JobFacts
  <2>5. QED
    BY <2>2, <2>3, <2>4
<1>2. QED
  BY <1>1 DEF CombinedCells

(* Combined: at first all cells are empty. *)
LEMMA CombinedInit ==
  ASSUME NEW j \in Jobs, j.mode = "combined"
  PROVE  BuffersOK(j, Empty(j)) /\ CombinedCells(j, 0, 1, Empty(j))
<1>1. \A name \in Pointers(j) :
        Empty(j)[name] = [i \in 0..BufferLength(j, name)-1 |-> << >>]
  BY DEF Empty
<1>2. BuffersOK(j, Empty(j))
  BY <1>1 DEF BuffersOK, Empty
<1>3. ASSUME NEW name \in Pointers(j), NEW q \in 0..j.points-1, NEW x \in 0..Size(j, name)-1
      PROVE  /\ Empty(j)[name][q * Size(j, name) + x] = << >>
             /\ ~(q < 0) /\ ~Done(j, 1, name, x)
  <2>1. q * Size(j, name) + x \in 0..BufferLength(j, name)-1
    BY CombinedRow
  <2>2. Empty(j)[name][q * Size(j, name) + x] = << >>
    BY <1>1, <2>1
  <2>3. ~(q < 0)
    BY JobFacts
  <2>4. QED
    BY <2>2, <2>3, DoneStart
<1>4. QED
  BY <1>2, <1>3 DEF CombinedCells

(* A component and a feature give a place of their own. *)
LEMMA ComponentPlace ==
  ASSUME NEW j \in Jobs, NEW name, Count(j.nspin, name) \in Nat,
         NEW c \in 0..Count(j.nspin, name)-1, NEW f \in 0..j.n-1
  PROVE  /\ c * j.n + f \in 0..Size(j, name)-1
         /\ (c * j.n + f) \div j.n = c /\ (c * j.n + f) % j.n = f
<1>. DEFINE n == j.n
            m == Count(j.nspin, name)
<1>1. n \in Nat \ {0} /\ m \in Nat /\ c \in 0..m-1 /\ f \in 0..n-1 /\ c \in Nat
  BY JobFacts
<1>. HIDE DEF n, m
<1>2. c * n + f \in 0..m*n-1
  BY <1>1, RowIndex
<1>3. (c * n + f) \div n = c /\ (c * n + f) % n = f
  BY <1>1, Division
<1>4. QED
  BY <1>2, <1>3 DEF n, m, Size

(* The component and the feature of a place. *)
LEMMA PlaceParts ==
  ASSUME NEW j \in Jobs, NEW name, Count(j.nspin, name) \in Nat \ {0},
         NEW x \in 0..Size(j, name)-1
  PROVE  /\ x \div j.n \in 0..Count(j.nspin, name)-1 /\ x % j.n \in 0..j.n-1
         /\ x = (x \div j.n) * j.n + (x % j.n)
<1>. DEFINE n == j.n
            m == Count(j.nspin, name)
<1>1. n \in Nat \ {0} /\ m \in Nat \ {0} /\ x \in 0..m*n-1
  BY JobFacts DEF Size
<1>. HIDE DEF n, m
<1>2. x \div n \in 0..m-1 /\ x % n \in 0..n-1 /\ x = (x \div n) * n + (x % n)
  BY <1>1, QuotientBound
<1>3. QED
  BY <1>2 DEF n, m

(* A sum over the features gets its next term. *)
LEMMA SumAppended ==
  ASSUME NEW name, NEW c, NEW m \in Nat, NEW p
  PROVE  Append(Sum(name, c, m, p), Entry(name, c, m, p, m)) = Sum(name, c, m + 1, p)
<1>. DEFINE e(i) == Entry(name, c, i - 1, p, i - 1)
            new == Append(Sum(name, c, m, p), e(m + 1))
<1>. HIDE DEF e
<1>1. Sum(name, c, m, p) = [i \in 1..m |-> e(i)] /\ Sum(name, c, m + 1, p) = [i \in 1..m+1 |-> e(i)]
  BY DEF Sum, e
<1>2. Append([i \in 1..m |-> e(i)], e(m + 1)) = [i \in 1..m+1 |-> e(i)]
  <2>. DEFINE t == [i \in 1..m |-> e(i)]
  <2>1. Len(t) = m
    OBVIOUS
  <2>2. Append(t, e(m + 1)) = [i \in 1..m+1 |-> IF i = m + 1 THEN e(m + 1) ELSE t[i]]
    BY <2>1
  <2>3. \A i \in 1..m+1 : (IF i = m + 1 THEN e(m + 1) ELSE t[i]) = e(i)
    OBVIOUS
  <2>4. QED
    BY <2>2, <2>3
<1>3. m + 1 - 1 = m
  OBVIOUS
<1>4. e(m + 1) = Entry(name, c, m, p, m)
  BY <1>3 DEF e
<1>5. QED
  BY <1>1, <1>2, <1>4

(* At its statement, the features of a component before the statement's are done. *)
LEMMA FeaturesBefore ==
  ASSUME NEW j \in Jobs, NEW s \in 1..Len(Body[j]), NEW name, IsBuffer(j, name),
         NEW c \in 0..Count(j.nspin, name)-1, NEW g \in 0..j.n-1,
         IsAt(j, s, name, c * j.n + g), NEW m, FirstDone(j, s, name, c, m)
  PROVE  m = g /\ FirstDone(j, s + 1, name, c, g + 1)
<1>. DEFINE x(f) == c * j.n + f
<1>1. Count(j.nspin, name) \in Nat \ {0} /\ j.n \in Nat \ {0}
  BY JobFacts DEF IsBuffer
<1>2. \A f \in 0..j.n-1 : x(f) \in 0..Size(j, name)-1
  BY <1>1, ComponentPlace
<1>3. \A y \in 0..Size(j, name)-1 : Done(j, s, name, y) <=> y < x(g)
  BY DoneBelow
<1>4. \A f \in 0..j.n-1 : x(f) < x(g) <=> f < g
  <2>. DEFINE n == j.n
  <2>1. n \in Nat /\ c \in Nat
    BY <1>1
  <2>. DEFINE z == c * n
  <2>. HIDE DEF n
  <2>2. z \in Nat
    BY <2>1
  <2>. HIDE DEF z
  <2>3. \A f \in 0..n-1 : \A h \in 0..n-1 : z + f < z + h <=> f < h
    BY <2>1, <2>2
  <2>4. QED
    BY <2>3 DEF z, n
<1>. HIDE DEF x
<1>5. \A f \in 0..j.n-1 : Done(j, s, name, x(f)) <=> f < g
  BY <1>2, <1>3, <1>4
<1>6. m \in 0..j.n /\ \A f \in 0..j.n-1 : Done(j, s, name, x(f)) <=> f < m
  BY DEF FirstDone, x
<1>7. m = g
  <2>1. ~(m < g)
    <3>1. SUFFICES ASSUME m < g PROVE FALSE
      OBVIOUS
    <3>2. m \in 0..j.n-1 /\ ~(m < m)
      BY <1>1, <1>6, <3>1
    <3>3. QED
      BY <1>5, <1>6, <3>1, <3>2
  <2>2. ~(g < m)
    <3>1. ~(g < g)
      BY <1>1
    <3>2. QED
      BY <1>5, <1>6, <3>1
  <2>3. QED
    BY <1>1, <1>6, <2>1, <2>2
<1>8. \A f \in 0..j.n-1 : x(f) = x(g) <=> f = g
  <2>. DEFINE n == j.n
  <2>1. n \in Nat /\ c \in Nat
    BY <1>1
  <2>. DEFINE z == c * n
  <2>. HIDE DEF n
  <2>2. z \in Nat
    BY <2>1
  <2>. HIDE DEF z
  <2>3. \A f \in 0..n-1 : \A h \in 0..n-1 : z + f = z + h <=> f = h
    BY <2>1, <2>2
  <2>4. QED
    BY <2>3 DEF z, n, x
<1>9. ASSUME NEW f \in 0..j.n-1
      PROVE  Done(j, s + 1, name, x(f)) <=> f < g + 1
  <2>1. Done(j, s + 1, name, x(f)) <=> Done(j, s, name, x(f)) \/ x(f) = x(g)
    BY DoneStep, SameStatement DEF x
  <2>2. f < g + 1 <=> f < g \/ f = g
    BY <1>1
  <2>3. QED
    BY <1>5, <1>8, <2>1, <2>2
<1>10. g + 1 \in 0..j.n
  BY <1>1
<1>11. QED
  BY <1>7, <1>9, <1>10 DEF FirstDone, x

(* A component has a place on the stack. *)
LEMMA ContractedPlace ==
  ASSUME NEW j \in Jobs, j.mode = "contracted", NEW name \in Pointers(j),
         NEW c \in 0..Count(j.nspin, name)-1
  PROVE  c \in 0..BufferLength(j, name)-1
<1>1. Count(j.nspin, name) \in Nat /\ Count(j.nspin, name) =< StackLength(name)
  BY ContractedPointers DEF IsBuffer
<1>2. BufferLength(j, name) = StackLength(name) /\ StackLength(name) \in Nat
  BY DEF BufferLength, StackLength
<1>3. QED
  BY <1>1, <1>2

(* Contraction: a statement adds the next feature to the sum of its
   component. *)
LEMMA ContractedStep ==
  ASSUME NEW j \in Jobs, j.mode = "contracted", NEW p, NEW s \in 1..Len(Body[j]), NEW cl,
         BuffersOK(j, cl), ContractedCells(j, p, s, cl), NEW name \in Pointers(j), NEW x,
         IsAt(j, s, name, x)
  PROVE  ContractedCells(j, p, s + 1, Add(cl, name, x \div j.n,
                           Entry(name, x \div j.n, x % j.n, p, x % j.n)))
<1>. DEFINE d == x \div j.n
            g == x % j.n
            e == Entry(name, d, g, p, g)
            new == Add(cl, name, d, e)
<1>1. IsBuffer(j, name) /\ x \in 0..Size(j, name)-1
  BY ContractedPointers, DoneBelow
<1>2. d \in 0..Count(j.nspin, name)-1 /\ g \in 0..j.n-1 /\ x = d * j.n + g
  BY <1>1, PlaceParts DEF IsBuffer
<1>. HIDE DEF d, g
<1>3. d \in 0..BufferLength(j, name)-1
  BY <1>2, ContractedPlace
<1>4. \A other \in Pointers(j) : \A i \in 0..BufferLength(j, other)-1 :
        new[other][i] = IF other = name /\ i = d THEN Append(cl[name][d], e)
                        ELSE cl[other][i]
  BY <1>3, AddAt
<1>. HIDE DEF new
<1>5. ASSUME NEW other \in Pointers(j), NEW c \in 0..Count(j.nspin, other)-1
      PROVE  \E m \in 0..j.n : FirstDone(j, s + 1, other, c, m)
                               /\ new[other][c] = Sum(other, c, m, p)
  <2>1. c \in 0..BufferLength(j, other)-1 /\ IsBuffer(j, other)
    BY ContractedPlace, ContractedPointers
  <2>2. new[other][c] = IF other = name /\ c = d THEN Append(cl[name][d], e)
                        ELSE cl[other][c]
    BY <1>4, <2>1
  <2>3. PICK m \in 0..j.n : FirstDone(j, s, other, c, m) /\ cl[other][c] = Sum(other, c, m, p)
    BY DEF ContractedCells
  <2>4. CASE other = name /\ c = d
    <3>1. IsAt(j, s, name, d * j.n + g) /\ FirstDone(j, s, name, d, m)
      BY <1>2, <2>3, <2>4
    <3>2. m = g /\ FirstDone(j, s + 1, name, d, g + 1)
      BY <1>1, <1>2, <3>1, FeaturesBefore
    <3>3. g \in Nat /\ g + 1 \in 0..j.n
      BY <1>2, JobFacts
    <3>4. new[other][c] = Append(Sum(name, d, g, p), e)
      BY <2>2, <2>3, <2>4, <3>2
    <3>5. new[other][c] = Sum(name, d, g + 1, p)
      BY <3>3, <3>4, SumAppended
    <3>6. QED
      BY <2>4, <3>2, <3>3, <3>5
  <2>5. CASE ~(other = name /\ c = d)
    <3>1. new[other][c] = Sum(other, c, m, p)
      BY <2>2, <2>3, <2>5
    <3>2. ASSUME NEW f \in 0..j.n-1
          PROVE  Done(j, s + 1, other, c * j.n + f) <=> Done(j, s, other, c * j.n + f)
      <4>1. Done(j, s + 1, other, c * j.n + f) <=>
              Done(j, s, other, c * j.n + f) \/ (other = name /\ c * j.n + f = x)
        BY DoneStep, SameStatement
      <4>2. ~(other = name /\ c * j.n + f = x)
        <5>1. SUFFICES ASSUME other = name, c * j.n + f = x PROVE FALSE
          OBVIOUS
        <5>2. (c * j.n + f) \div j.n = c
          BY <2>1, ComponentPlace DEF IsBuffer
        <5>3. QED
          BY <2>5, <5>1, <5>2 DEF d
      <4>3. QED
        BY <4>1, <4>2
    <3>3. FirstDone(j, s + 1, other, c, m)
      BY <2>3, <3>2 DEF FirstDone
    <3>4. QED
      BY <3>1, <3>3
  <2>6. QED
    BY <2>4, <2>5
<1>6. QED
  BY <1>5 DEF ContractedCells, new, e, d, g

(* Contraction: a statement whose pointer is NULL leaves the sums right. *)
LEMMA ContractedSkip ==
  ASSUME NEW j \in Jobs, NEW p, NEW s \in 1..Len(Body[j]), NEW cl,
         ContractedCells(j, p, s, cl), NEW name, name \notin Pointers(j), NEW x,
         IsAt(j, s, name, x)
  PROVE  ContractedCells(j, p, s + 1, cl)
<1>1. \A other \in Pointers(j) : \A y : Done(j, s + 1, other, y) <=> Done(j, s, other, y)
  BY DoneStep, SameStatement
<1>2. ASSUME NEW other \in Pointers(j), NEW c, NEW m, FirstDone(j, s, other, c, m)
      PROVE  FirstDone(j, s + 1, other, c, m)
  BY <1>1, <1>2 DEF FirstDone
<1>3. QED
  BY <1>2 DEF ContractedCells

(* Contraction: cleared arrays are sums of no terms. *)
LEMMA ContractedInit ==
  ASSUME NEW j \in Jobs, j.mode = "contracted", NEW p
  PROVE  BuffersOK(j, Empty(j)) /\ ContractedCells(j, p, 1, Empty(j))
<1>1. \A name \in Pointers(j) :
        Empty(j)[name] = [i \in 0..BufferLength(j, name)-1 |-> << >>]
  BY DEF Empty
<1>2. BuffersOK(j, Empty(j))
  BY <1>1 DEF BuffersOK, Empty
<1>3. ASSUME NEW name \in Pointers(j), NEW c \in 0..Count(j.nspin, name)-1
      PROVE  \E m \in 0..j.n : FirstDone(j, 1, name, c, m)
                               /\ Empty(j)[name][c] = Sum(name, c, m, p)
  <2>1. Empty(j)[name][c] = << >>
    BY <1>1, ContractedPlace
  <2>2. Sum(name, c, 0, p) = << >>
    BY DEF Sum
  <2>3. 0 \in 0..j.n /\ \A f \in 0..j.n-1 : ~(f < 0)
    BY JobFacts
  <2>4. FirstDone(j, 1, name, c, 0)
    BY <2>3, DoneStart DEF FirstDone
  <2>5. QED
    BY <2>1, <2>2, <2>3, <2>4
<1>4. QED
  BY <1>2, <1>3 DEF ContractedCells

(* Contraction: after the last statement the sums have all the features. *)
LEMMA ContractedDone ==
  ASSUME NEW j \in Jobs, j.mode = "contracted", NEW p, NEW cl,
         ContractedCells(j, p, Len(Body[j]) + 1, cl), NEW name \in Pointers(j),
         NEW c \in 0..Count(j.nspin, name)-1
  PROVE  cl[name][c] = Sum(name, c, j.n, p)
<1>. DEFINE n == j.n
            e == Len(Body[j]) + 1
<1>1. n \in Nat \ {0} /\ IsBuffer(j, name)
  BY JobFacts, ContractedPointers
<1>2. PICK m \in 0..n : FirstDone(j, e, name, c, m) /\ cl[name][c] = Sum(name, c, m, p)
  BY DEF ContractedCells
<1>3. \A f \in 0..n-1 : Done(j, e, name, c * n + f)
  BY <1>1, ComponentPlace, AllDone DEF IsBuffer
<1>4. \A f \in 0..n-1 : f < m
  BY <1>2, <1>3 DEF FirstDone
<1>. HIDE DEF n, e
<1>5. m = n
  <2>1. n - 1 \in 0..n-1
    BY <1>1
  <2>2. n - 1 < m
    BY <1>4, <2>1
  <2>3. QED
    BY <1>1, <1>2, <2>2
<1>6. QED
  BY <1>2, <1>5 DEF n

(* Contraction: storing the sums of a point leaves those of other points
   alone. *)
LEMMA ContractedAfter ==
  ASSUME NEW j \in Jobs, j.mode = "contracted", NEW p \in 0..j.points-1, NEW cl,
         ContractedCells(j, p, Len(Body[j]) + 1, cl), NEW st, ContractedStore(j, p, st)
  PROVE  ContractedStore(j, p + 1,
           [name \in DOMAIN st |->
              [i \in DOMAIN st[name] |->
                 IF i % j.points = p THEN cl[name][i \div j.points] ELSE st[name][i]]])
<1>. DEFINE new == [name \in DOMAIN st |->
                      [i \in DOMAIN st[name] |->
                         IF i % j.points = p THEN cl[name][i \div j.points] ELSE st[name][i]]]
            n == j.points
<1>1. n \in Nat /\ p \in 0..n-1 /\ DOMAIN st = Pointers(j)
  BY JobFacts DEF ContractedStore
<1>2. \A name \in Pointers(j) :
        new[name] = [i \in DOMAIN st[name] |->
                       IF i % n = p THEN cl[name][i \div n] ELSE st[name][i]]
  BY <1>1
<1>3. new = [name \in Pointers(j) |-> new[name]]
  BY <1>1
<1>. HIDE DEF new
<1>4. ASSUME NEW name \in Pointers(j)
      PROVE  /\ new[name] = [i \in 0..Components(j, name) * n - 1 |-> new[name][i]]
             /\ \A q \in 0..n-1 : \A c \in 0..Components(j, name)-1 :
                  q < p + 1 => new[name][c * n + q] = Sum(name, c, j.n, q)
  <2>. DEFINE m == Components(j, name)
              S == 0..m*n-1
  <2>1. m = Count(j.nspin, name) /\ m \in Nat
    BY ContractedPointers DEF IsBuffer
  <2>2. DOMAIN st[name] = S
    BY DEF ContractedStore
  <2>3. \A q \in 0..n-1 : \A c \in 0..m-1 : q < p => st[name][c * n + q] = Sum(name, c, j.n, q)
    BY DEF ContractedStore
  <2>4. \A c \in 0..m-1 : cl[name][c] = Sum(name, c, j.n, p)
    <3>1. ASSUME NEW c \in 0..m-1 PROVE cl[name][c] = Sum(name, c, j.n, p)
      <4>1. c \in 0..Count(j.nspin, name)-1
        BY <2>1
      <4>2. QED
        BY <4>1, ContractedDone
    <3>2. QED
      BY <3>1
  <2>. HIDE DEF m, n, S
  <2>5. new[name] = [i \in S |-> new[name][i]]
    BY <1>2, <2>2
  <2>6. \A i \in S : new[name][i] = IF i % n = p THEN cl[name][i \div n] ELSE st[name][i]
    BY <1>2, <2>2
  <2>7. ASSUME NEW q \in 0..n-1, NEW c \in 0..m-1, q < p + 1
        PROVE  new[name][c * n + q] = Sum(name, c, j.n, q)
    <3>1. n \in Nat \ {0} /\ c \in Nat /\ c \in 0..m-1
      BY <1>1, <2>1
    <3>2. (c * n + q) \div n = c /\ (c * n + q) % n = q
      BY <3>1, Division
    <3>3. c * n + q \in S
      BY <1>1, <2>1, RowIndex DEF S
    <3>4. new[name][c * n + q] = IF q = p THEN cl[name][c] ELSE st[name][c * n + q]
      BY <2>6, <3>2, <3>3
    <3>5. q = p \/ (q # p /\ q < p)
      BY <1>1, <2>7
    <3>6. QED
      BY <2>3, <2>4, <3>1, <3>4, <3>5
  <2>8. QED
    BY <2>5, <2>7 DEF S, m
<1>5. QED
  BY <1>3, <1>4 DEF ContractedStore, new, n

(* Contraction: nothing is stored before the first point. *)
LEMMA ContractedStoreInit ==
  ASSUME NEW j \in Jobs,
         NEW st, st = [name \in Pointers(j) |->
                         [i \in 0..Components(j, name) * j.points - 1 |-> << >>]]
  PROVE  ContractedStore(j, 0, st)
<1>1. \A name \in Pointers(j) :
        st[name] = [i \in 0..Components(j, name) * j.points - 1 |-> << >>]
  OBVIOUS
<1>2. \A q \in 0..j.points-1 : ~(q < 0)
  BY JobFacts
<1>3. QED
  BY <1>1, <1>2 DEF ContractedStore

(* Streaming: the place of a feature is its number. *)
LEMMA StreamedPlace ==
  ASSUME NEW j \in Jobs, j.mode = "streaming"
  PROVE  /\ << >> \in Pointers(j) /\ BufferLength(j, << >>) = j.n /\ IsBuffer(j, << >>)
         /\ \A name \in Pointers(j) : name = << >>
         /\ \A f \in 0..j.n-1 : /\ f \in 0..Size(j, << >>)-1
                                /\ f \div j.n = 0 /\ f % j.n = f
<1>1. Pointers(j) = {<< >>} /\ IsBuffer(j, << >>) /\ Size(j, << >>) = j.n
  BY StreamingPointers
<1>2. BufferLength(j, << >>) = j.n
  BY DEF BufferLength
<1>3. ASSUME NEW f \in 0..j.n-1
      PROVE  f \div j.n = 0 /\ f % j.n = f
  <2>. DEFINE n == j.n
  <2>1. n \in Nat \ {0} /\ f \in 0..n-1 /\ 0 \in Nat
    BY JobFacts
  <2>. HIDE DEF n
  <2>2. (0 * n + f) \div n = 0 /\ (0 * n + f) % n = f
    BY <2>1, Division
  <2>3. 0 * n + f = f
    BY <2>1
  <2>4. QED
    BY <2>2, <2>3 DEF n
<1>4. QED
  BY <1>1, <1>2, <1>3

(* Streaming: a statement fills the place of its feature. *)
LEMMA StreamedStep ==
  ASSUME NEW j \in Jobs, j.mode = "streaming", NEW p, NEW s \in 1..Len(Body[j]), NEW cl,
         BuffersOK(j, cl), StreamedCells(j, p, s, cl), NEW x, IsAt(j, s, << >>, x)
  PROVE  StreamedCells(j, p, s + 1, Add(cl, << >>, x,
                         Entry(<< >>, x \div j.n, x % j.n, p, -1)))
<1>. DEFINE e == Entry(<< >>, x \div j.n, x % j.n, p, -1)
            new == Add(cl, << >>, x, e)
<1>1. /\ x \in 0..Size(j, << >>)-1
      /\ \A y \in 0..Size(j, << >>)-1 : Done(j, s, << >>, y) <=> y < x
  BY DoneBelow
<1>2. x \in 0..j.n-1
  BY <1>1, StreamingPointers
<1>3. \A f \in 0..j.n-1 : new[<< >>][f] = IF f = x THEN Append(cl[<< >>][x], e) ELSE cl[<< >>][f]
  BY <1>2, AddAt, StreamedPlace
<1>4. \A f \in 0..j.n-1 : f \in 0..Size(j, << >>)-1
  BY StreamedPlace
<1>5. \A f \in 0..j.n-1 :
        cl[<< >>][f] = IF Done(j, s, << >>, f) THEN <<Entry(<< >>, 0, f, p, -1)>> ELSE << >>
  BY DEF StreamedCells
<1>6. e = Entry(<< >>, 0, x, p, -1)
  BY <1>2, StreamedPlace
<1>. HIDE DEF new, e
<1>7. ASSUME NEW f \in 0..j.n-1
      PROVE  new[<< >>][f] =
               IF Done(j, s + 1, << >>, f) THEN <<Entry(<< >>, 0, f, p, -1)>> ELSE << >>
  <2>1. Done(j, s + 1, << >>, f) <=> Done(j, s, << >>, f) \/ f = x
    BY DoneStep, SameStatement
  <2>2. CASE f = x
    <3>1. ~(x < x)
      BY <1>2
    <3>2. ~Done(j, s, << >>, x)
      BY <1>1, <3>1
    <3>3. cl[<< >>][x] = << >>
      BY <1>2, <1>5, <3>2
    <3>4. new[<< >>][f] = <<e>>
      BY <1>3, <2>2, <3>3
    <3>5. QED
      BY <1>6, <2>1, <2>2, <3>4
  <2>3. CASE f # x
    BY <1>3, <1>5, <2>1, <2>3
  <2>4. QED
    BY <2>2, <2>3
<1>8. QED
  BY <1>7 DEF StreamedCells, new, e

(* Streaming: the cleared array has no values. *)
LEMMA StreamedInit ==
  ASSUME NEW j \in Jobs, j.mode = "streaming", NEW p
  PROVE  BuffersOK(j, Empty(j)) /\ StreamedCells(j, p, 1, Empty(j))
<1>1. \A name \in Pointers(j) :
        Empty(j)[name] = [i \in 0..BufferLength(j, name)-1 |-> << >>]
  BY DEF Empty
<1>2. BuffersOK(j, Empty(j))
  BY <1>1 DEF BuffersOK, Empty
<1>3. \A f \in 0..j.n-1 : Empty(j)[<< >>][f] = << >>
  <2>1. << >> \in Pointers(j) /\ BufferLength(j, << >>) = j.n
    BY StreamedPlace
  <2>2. Empty(j)[<< >>] = [i \in 0..BufferLength(j, << >>)-1 |-> << >>]
    BY <1>1, <2>1
  <2>3. QED
    BY <2>1, <2>2
<1>4. QED
  BY <1>2, <1>3, DoneStart DEF StreamedCells

(* Streaming: the features of a point are added to the sums of the points
   before it. *)
LEMMA StreamedAfter ==
  ASSUME NEW j \in Jobs, j.mode = "streaming", NEW p \in Nat, NEW cl,
         StreamedCells(j, p, Len(Body[j]) + 1, cl), NEW st, StreamedStore(j, p, st)
  PROVE  StreamedStore(j, p + 1, [f \in DOMAIN st |-> st[f] \o cl[<< >>][f]])
<1>. DEFINE new == [f \in DOMAIN st |-> st[f] \o cl[<< >>][f]]
<1>1. DOMAIN st = 0..j.n-1
  BY DEF StreamedStore
<1>2. new = [f \in 0..j.n-1 |-> new[f]] /\ \A f \in 0..j.n-1 : new[f] = st[f] \o cl[<< >>][f]
  BY <1>1
<1>. HIDE DEF new
<1>3. ASSUME NEW f \in 0..j.n-1
      PROVE  new[f] = [i \in 1..p+1 |-> Entry(<< >>, 0, f, i - 1, -1)]
  <2>1. Done(j, Len(Body[j]) + 1, << >>, f)
    BY StreamedPlace, AllDone
  <2>2. cl[<< >>][f] = <<Entry(<< >>, 0, f, p, -1)>>
    BY <2>1 DEF StreamedCells
  <2>3. st[f] = [i \in 1..p |-> Entry(<< >>, 0, f, i - 1, -1)]
    BY DEF StreamedStore
  <2>. DEFINE e(i) == Entry(<< >>, 0, f, i - 1, -1)
              t == [i \in 1..p |-> e(i)]
              u == <<e(p + 1)>>
  <2>4. p + 1 - 1 = p
    OBVIOUS
  <2>5. st[f] = t /\ cl[<< >>][f] = u
    BY <2>2, <2>3, <2>4
  <2>. HIDE DEF e
  <2>6. t \o u = [i \in 1..p+1 |-> e(i)]
    <3>1. Len(t) = p /\ Len(u) = 1
      OBVIOUS
    <3>2. t \o u = [i \in 1..p+1 |-> IF i =< p THEN t[i] ELSE u[i - p]]
      BY <3>1
    <3>3. \A i \in 1..p+1 : (IF i =< p THEN t[i] ELSE u[i - p]) = e(i)
      OBVIOUS
    <3>4. QED
      BY <3>2, <3>3
  <2>7. new[f] = [i \in 1..p+1 |-> e(i)]
    BY <1>2, <2>5, <2>6
  <2>8. QED
    BY <2>7 DEF e
<1>4. QED
  BY <1>2, <1>3 DEF StreamedStore, new

(* Streaming: the sums are empty before the first point. *)
LEMMA StreamedStoreInit ==
  ASSUME NEW j \in Jobs, NEW st, st = [f \in 0..j.n-1 |-> << >>]
  PROVE  StreamedStore(j, 0, st)
<1>1. \A f \in 0..j.n-1 : st[f] = << >>
  OBVIOUS
<1>2. \A f : [i \in 1..0 |-> Entry(<< >>, 0, f, i - 1, -1)] = << >>
  OBVIOUS
<1>3. QED
  BY <1>1, <1>2 DEF StreamedStore

(* Every call starts in the invariant. *)
LEMMA KernelStarts == KernelInit => KernelInvariant
<1>. SUFFICES ASSUME KernelInit PROVE KernelInvariant
  OBVIOUS
<1>1. job \in Jobs /\ point = 0 /\ statement = 1 /\ cells = Empty(job)
  BY DEF KernelInit
<1>2. 0 \in 0..job.points /\ 1 \in 1..Len(Body[job])+1
  <2>1. job.points \in Nat /\ Len(Body[job]) \in Nat
    BY <1>1, JobFacts, BodyFacts
  <2>2. QED
    BY <2>1
<1>3. CASE job.mode = "combined"
  <2>1. BuffersOK(job, cells) /\ CombinedCells(job, point, statement, cells)
    BY <1>1, <1>3, CombinedInit
  <2>2. QED
    BY <1>1, <1>2, <1>3, <2>1 DEF KernelInvariant
<1>4. CASE job.mode = "contracted"
  <2>1. BuffersOK(job, cells) /\ ContractedCells(job, point, statement, cells)
    BY <1>1, <1>4, ContractedInit
  <2>2. stored = [name \in Pointers(job) |->
                    [i \in 0..Components(job, name) * job.points - 1 |-> << >>]]
    BY <1>4 DEF KernelInit
  <2>3. ContractedStore(job, point, stored)
    BY <1>1, <2>2, ContractedStoreInit
  <2>4. QED
    BY <1>1, <1>2, <1>4, <2>1, <2>3 DEF KernelInvariant
<1>5. CASE job.mode = "streaming"
  <2>1. BuffersOK(job, cells) /\ StreamedCells(job, point, statement, cells)
    BY <1>1, <1>5, StreamedInit
  <2>2. stored = [f \in 0..job.n-1 |-> << >>]
    BY <1>5 DEF KernelInit
  <2>3. StreamedStore(job, point, stored)
    BY <1>1, <2>2, StreamedStoreInit
  <2>4. QED
    BY <1>1, <1>2, <1>5, <2>1, <2>3 DEF KernelInvariant
<1>6. QED
  BY <1>1, <1>3, <1>4, <1>5, JobFacts

(* What the current statement is, and where it adds. *)
LEMMA CurrentStatement ==
  ASSUME KernelInvariant, point < job.points, statement =< Len(Body[job])
  PROVE  /\ statement \in 1..Len(Body[job]) /\ point \in 0..job.points-1
         /\ statement + 1 \in 1..Len(Body[job])+1
         /\ IsAt(job, statement, Current.name, Current.index)
         /\ Current.name \in Pointers(job) =>
              /\ IsBuffer(job, Current.name)
              /\ Place(Current) \in 0..BufferLength(job, Current.name)-1
              /\ Current.index \in 0..Size(job, Current.name)-1
         /\ [value |-> ComputedValue(Current), coefficient |-> Coefficient(Current)] =
              Entry(Current.name, Current.index \div job.n, Current.index % job.n, point,
                    Coefficient(Current))
<1>1. /\ job \in Jobs /\ point \in 0..job.points /\ statement \in 1..Len(Body[job])+1
  BY DEF KernelInvariant
<1>2. Len(Body[job]) \in Nat /\ job.points \in Nat
  BY <1>1, BodyFacts, JobFacts
<1>3. /\ statement \in 1..Len(Body[job]) /\ point \in 0..job.points-1
      /\ statement + 1 \in 1..Len(Body[job])+1
  BY <1>1, <1>2
<1>. DEFINE name == Current.name
            x == Current.index
<1>4. IsAt(job, statement, name, x)
  BY DEF IsAt, Current
<1>5. StatementOK(job, statement) /\ x \in 0..Size(job, name)-1
  BY <1>1, <1>3, <1>4, DoneBelow
<1>6. Current.exponents = Vector(name, x \div job.n)
  BY <1>5 DEF StatementOK, Current
<1>7. [value |-> ComputedValue(Current), coefficient |-> Coefficient(Current)] =
        Entry(name, x \div job.n, x % job.n, point, Coefficient(Current))
  BY <1>6 DEF ComputedValue, Entry
<1>8. ASSUME name \in Pointers(job)
      PROVE  IsBuffer(job, name) /\ Place(Current) \in 0..BufferLength(job, name)-1
  <2>1. CASE job.mode = "combined"
    <3>1. IsBuffer(job, name) /\ Dim(job, name) = Size(job, name)
      BY <1>1, <1>8, <2>1, CombinedPointers
    <3>2. point * Size(job, name) + x \in 0..BufferLength(job, name)-1
      BY <1>1, <1>3, <1>5, <1>8, <2>1, CombinedRow
    <3>3. Place(Current) = point * Size(job, name) + x
      BY <2>1, <3>1 DEF Place
    <3>4. QED
      BY <3>1, <3>2, <3>3
  <2>2. CASE job.mode = "contracted"
    <3>1. IsBuffer(job, name)
      BY <1>1, <1>8, <2>2, ContractedPointers
    <3>2. x \div job.n \in 0..Count(job.nspin, name)-1
      BY <1>1, <1>5, <3>1, PlaceParts DEF IsBuffer
    <3>3. x \div job.n \in 0..BufferLength(job, name)-1
      BY <1>1, <1>8, <2>2, <3>2, ContractedPlace
    <3>4. Place(Current) = x \div job.n
      BY <2>2 DEF Place
    <3>5. QED
      BY <3>1, <3>3, <3>4
  <2>3. CASE job.mode = "streaming"
    <3>1. name = << >> /\ IsBuffer(job, name) /\ BufferLength(job, name) = job.n
      BY <1>1, <1>8, <2>3, StreamedPlace
    <3>2. Size(job, name) = job.n
      BY <1>1, <2>3, <3>1, StreamingPointers
    <3>3. Place(Current) = x
      BY <2>3 DEF Place
    <3>4. QED
      BY <1>5, <3>1, <3>2, <3>3
  <2>4. QED
    BY <1>1, <2>1, <2>2, <2>3, JobFacts
<1>9. QED
  BY <1>3, <1>4, <1>5, <1>7, <1>8

(* A statement keeps it. *)
LEMMA KernelRuns ==
  ASSUME KernelInvariant, RunStatement
  PROVE  KernelInvariant'
<1>1. /\ point < job.points /\ statement =< Len(Body[job])
      /\ job' = job /\ point' = point /\ stored' = stored /\ statement' = statement + 1
  BY DEF RunStatement
<1>2. job \in Jobs /\ point \in 0..job.points /\ BuffersOK(job, cells)
  BY DEF KernelInvariant
<1>3. /\ job.mode = "combined" => CombinedCells(job, point, statement, cells)
      /\ job.mode = "contracted" =>
           ContractedCells(job, point, statement, cells) /\ ContractedStore(job, point, stored)
      /\ job.mode = "streaming" =>
           StreamedCells(job, point, statement, cells) /\ StreamedStore(job, point, stored)
  BY DEF KernelInvariant
<1>. DEFINE name == Current.name
            x == Current.index
            e == [value |-> ComputedValue(Current), coefficient |-> Coefficient(Current)]
<1>4. /\ statement \in 1..Len(Body[job]) /\ point \in 0..job.points-1
      /\ statement + 1 \in 1..Len(Body[job])+1
      /\ IsAt(job, statement, name, x)
      /\ name \in Pointers(job) =>
           Place(Current) \in 0..BufferLength(job, name)-1 /\ IsBuffer(job, name)
      /\ e = Entry(name, x \div job.n, x % job.n, point, Coefficient(Current))
  BY <1>1, CurrentStatement
<1>5. cells' = IF name \notin Pointers(job) THEN cells ELSE Add(cells, name, Place(Current), e)
  BY DEF RunStatement, Add
<1>. HIDE DEF name, x, e
<1>6. BuffersOK(job, cells')
  <2>1. CASE name \in Pointers(job)
    BY <1>2, <1>4, <1>5, <2>1, AddAt
  <2>2. CASE name \notin Pointers(job)
    BY <1>2, <1>5, <2>2
  <2>3. QED
    BY <2>1, <2>2
<1>7. CASE job.mode = "combined"
  <2>1. CombinedCells(job, point, statement + 1, cells')
    <3>1. CASE name \in Pointers(job)
      <4>1. Place(Current) = point * Size(job, name) + x /\ Coefficient(Current) = -1
        BY <1>2, <1>7, <3>1, CombinedPointers DEF Place, Coefficient, name, x
      <4>2. cells' = Add(cells, name, point * Size(job, name) + x,
                         Entry(name, x \div job.n, x % job.n, point, -1))
        BY <1>4, <1>5, <3>1, <4>1
      <4>3. QED
        BY <1>2, <1>3, <1>4, <1>7, <3>1, <4>2, CombinedStep
    <3>2. CASE name \notin Pointers(job)
      BY <1>2, <1>3, <1>4, <1>5, <1>7, <3>2, CombinedSkip
    <3>3. QED
      BY <3>1, <3>2
  <2>2. QED
    BY <1>1, <1>2, <1>4, <1>6, <1>7, <2>1 DEF KernelInvariant
<1>8. CASE job.mode = "contracted"
  <2>1. ContractedCells(job, point, statement + 1, cells')
    <3>1. CASE name \in Pointers(job)
      <4>1. Place(Current) = x \div job.n /\ Coefficient(Current) = x % job.n
        BY <1>8 DEF Place, Coefficient, x
      <4>2. cells' = Add(cells, name, x \div job.n,
                         Entry(name, x \div job.n, x % job.n, point, x % job.n))
        BY <1>4, <1>5, <3>1, <4>1
      <4>3. QED
        BY <1>2, <1>3, <1>4, <1>8, <3>1, <4>2, ContractedStep
    <3>2. CASE name \notin Pointers(job)
      BY <1>2, <1>3, <1>4, <1>5, <1>8, <3>2, ContractedSkip
    <3>3. QED
      BY <3>1, <3>2
  <2>2. QED
    BY <1>1, <1>2, <1>3, <1>4, <1>6, <1>8, <2>1 DEF KernelInvariant
<1>9. CASE job.mode = "streaming"
  <2>1. name = << >>
    <3>1. job.order = 0 /\ StatementOK(job, statement)
      BY <1>2, <1>4, <1>9, JobFacts, BodyFacts
    <3>2. Body[job][statement].name = name
      BY <1>4 DEF IsAt
    <3>3. IsListed(name, Len(name)) /\ Len(name) \in 0..0
      BY <3>1, <3>2 DEF StatementOK
    <3>4. name \in Seq(Nat) /\ Len(name) = 0
      BY <3>3, PartOfName
    <3>5. QED
      BY <3>4
  <2>2. name \in Pointers(job)
    BY <1>2, <1>9, <2>1, StreamedPlace
  <2>3. Place(Current) = x /\ Coefficient(Current) = -1
    BY <1>9 DEF Place, Coefficient, x
  <2>4. cells' = Add(cells, << >>, x, Entry(<< >>, x \div job.n, x % job.n, point, -1))
    BY <1>4, <1>5, <2>1, <2>2, <2>3
  <2>5. StreamedCells(job, point, statement + 1, cells')
    BY <1>2, <1>3, <1>4, <1>9, <2>1, <2>4, StreamedStep
  <2>6. QED
    BY <1>1, <1>2, <1>3, <1>4, <1>6, <1>9, <2>5 DEF KernelInvariant
<1>10. QED
  BY <1>2, <1>7, <1>8, <1>9, JobFacts

(* The end of a point keeps it. *)
LEMMA KernelEndsPoint ==
  ASSUME KernelInvariant, EndPoint
  PROVE  KernelInvariant'
<1>1. /\ point < job.points /\ statement > Len(Body[job])
      /\ job' = job /\ point' = point + 1 /\ statement' = 1 /\ stored' = AfterPoint
      /\ cells' = IF job.mode = "combined" THEN cells ELSE Empty(job)
  BY DEF EndPoint
<1>2. /\ job \in Jobs /\ point \in 0..job.points /\ BuffersOK(job, cells)
      /\ statement \in 1..Len(Body[job])+1
  BY DEF KernelInvariant
<1>3. Len(Body[job]) \in Nat /\ job.points \in Nat
  BY <1>2, BodyFacts, JobFacts
<1>4. /\ statement = Len(Body[job]) + 1 /\ point \in 0..job.points-1 /\ point \in Nat
      /\ point + 1 \in 0..job.points /\ 1 \in 1..Len(Body[job])+1
  BY <1>1, <1>2, <1>3
<1>5. CASE job.mode = "combined"
  <2>1. CombinedCells(job, point, Len(Body[job]) + 1, cells)
    BY <1>4, <1>5 DEF KernelInvariant
  <2>2. CombinedCells(job, point + 1, 1, cells)
    BY <1>2, <1>4, <1>5, <2>1, CombinedEnd
  <2>3. QED
    BY <1>1, <1>2, <1>4, <1>5, <2>2 DEF KernelInvariant
<1>6. CASE job.mode = "contracted"
  <2>1. ContractedCells(job, point, Len(Body[job]) + 1, cells)
        /\ ContractedStore(job, point, stored)
    BY <1>4, <1>6 DEF KernelInvariant
  <2>2. stored' = [name \in DOMAIN stored |->
                     [i \in DOMAIN stored[name] |->
                        IF i % job.points = point THEN cells[name][i \div job.points]
                        ELSE stored[name][i]]]
    BY <1>1, <1>6 DEF AfterPoint
  <2>3. ContractedStore(job, point + 1, stored')
    BY <1>2, <1>4, <1>6, <2>1, <2>2, ContractedAfter
  <2>4. cells' = Empty(job)
    BY <1>1, <1>6
  <2>5. BuffersOK(job, cells') /\ ContractedCells(job, point + 1, 1, cells')
    BY <1>2, <1>6, <2>4, ContractedInit
  <2>6. QED
    BY <1>1, <1>2, <1>4, <1>6, <2>3, <2>5 DEF KernelInvariant
<1>7. CASE job.mode = "streaming"
  <2>1. StreamedCells(job, point, Len(Body[job]) + 1, cells)
        /\ StreamedStore(job, point, stored)
    BY <1>4, <1>7 DEF KernelInvariant
  <2>2. stored' = [f \in DOMAIN stored |-> stored[f] \o cells[<< >>][f]]
    BY <1>1, <1>7 DEF AfterPoint
  <2>3. StreamedStore(job, point + 1, stored')
    BY <1>2, <1>4, <1>7, <2>1, <2>2, StreamedAfter
  <2>4. cells' = Empty(job)
    BY <1>1, <1>7
  <2>5. BuffersOK(job, cells') /\ StreamedCells(job, point + 1, 1, cells')
    BY <1>2, <1>7, <2>4, StreamedInit
  <2>6. QED
    BY <1>1, <1>2, <1>4, <1>7, <2>3, <2>5 DEF KernelInvariant
<1>8. QED
  BY <1>2, <1>5, <1>6, <1>7, JobFacts

(* So does a step that changes nothing. *)
LEMMA KernelStutters ==
  ASSUME KernelInvariant, UNCHANGED kernelVars
  PROVE  KernelInvariant'
BY DEF KernelInvariant, kernelVars

(* The invariant of a call holds in every reachable state; the theorems below
   read their properties off it. *)
THEOREM KernelKept == KernelSpec => []KernelInvariant
<1>1. KernelInvariant /\ [KernelNext]_kernelVars => KernelInvariant'
  BY KernelRuns, KernelEndsPoint, KernelStutters DEF KernelNext
<1>2. QED
  BY <1>1, KernelStarts, PTL DEF KernelSpec

(* No statement of a generated function adds outside the buffer it was given,
   for any number of features and points, in any of the three calls. *)
THEOREM StaysWithinBuffers == KernelSpec => []WithinBuffers
<1>1. KernelInvariant => WithinBuffers
  <2>. SUFFICES ASSUME KernelInvariant, point < job.points, statement =< Len(Body[job]),
                       Current.name \in Pointers(job)
                PROVE  Place(Current) \in DOMAIN cells[Current.name]
    BY DEF WithinBuffers
  <2>1. Place(Current) \in 0..BufferLength(job, Current.name)-1
    BY CurrentStatement
  <2>2. DOMAIN cells[Current.name] = 0..BufferLength(job, Current.name)-1
    BY DEF KernelInvariant, BuffersOK
  <2>3. QED
    BY <2>1, <2>2
<1>2. QED
  BY <1>1, KernelKept, PTL

(* What the properties say of a component is what the generator lists. *)
LEMMA PromisedIs ==
  ASSUME NEW j \in Jobs, NEW name, IsBuffer(j, name),
         NEW c \in 0..Count(j.nspin, name)-1, NEW f, NEW p, NEW coefficient
  PROVE  [value |-> Promised(name, c, f, p), coefficient |-> coefficient] =
           Entry(name, c, f, p, coefficient)
<1>1. c \in 0..Len(EnumerateSpinPartials(name))-1
  <2>1. /\ Count(j.nspin, name) \in Nat /\ IsListed(name, Len(name))
        /\ Count(j.nspin, name) =< Len(EnumerateSpinPartials(name))
    BY DEF IsBuffer
  <2>2. Len(EnumerateSpinPartials(name)) \in Nat
    BY <2>1, JobFacts, PartOfName
  <2>3. QED
    BY <2>1, <2>2
<1>2. Component[name][c] = Vector(name, c)
  BY <1>1, ComponentIs DEF IsBuffer
<1>3. QED
  BY <1>2 DEF Promised, Entry

(* A combined evaluation fills every place of every private buffer with the
   one value it is for. *)
THEOREM FillsItsBuffers == KernelSpec => []CombinedFilled
<1>1. KernelInvariant => CombinedFilled
  <2>. SUFFICES ASSUME KernelInvariant, Finished, job.mode = "combined",
                       NEW name \in Pointers(job), NEW p \in 0..job.points-1,
                       NEW f \in 0..job.n-1,
                       NEW c \in 0..(Dim(job, name) \div job.n)-1
                PROVE  cells[name][p * Dim(job, name) + c * job.n + f] =
                         <<[value |-> Promised(name, c, f, p), coefficient |-> -1]>>
    BY DEF CombinedFilled
  <2>1. job \in Jobs /\ point = job.points /\ CombinedCells(job, point, statement, cells)
    BY DEF KernelInvariant, Finished
  <2>2. IsBuffer(job, name) /\ Dim(job, name) = Size(job, name)
    BY <2>1, CombinedPointers
  <2>3. job.n \in Nat \ {0} /\ job.points \in Nat
    BY <2>1, JobFacts
  <2>4. Dim(job, name) \div job.n = Count(job.nspin, name)
    <3>. DEFINE m == Count(job.nspin, name)
                n == job.n
    <3>1. m \in Nat /\ n \in Nat \ {0} /\ 0 \in 0..n-1
      BY <2>2, <2>3 DEF IsBuffer
    <3>. HIDE DEF m, n
    <3>2. (m * n + 0) \div n = m
      BY <3>1, Division
    <3>3. m * n + 0 = m * n
      BY <3>1
    <3>4. QED
      BY <2>2, <3>2, <3>3 DEF Size, m, n
  <2>5. c \in 0..Count(job.nspin, name)-1
    BY <2>4
  <2>6. /\ c * job.n + f \in 0..Size(job, name)-1
        /\ (c * job.n + f) \div job.n = c /\ (c * job.n + f) % job.n = f
    BY <2>1, <2>2, <2>5, ComponentPlace DEF IsBuffer
  <2>7. p < point
    BY <2>1, <2>3
  <2>8. cells[name][p * Size(job, name) + (c * job.n + f)] = <<Entry(name, c, f, p, -1)>>
    BY <2>1, <2>6, <2>7 DEF CombinedCells
  <2>9. p * Dim(job, name) + c * job.n + f = p * Size(job, name) + (c * job.n + f)
    <3>. DEFINE a == p * Size(job, name)
                b == c * job.n
    <3>1. a \in Int /\ b \in Int
      BY <2>2, <2>3, <2>5 DEF IsBuffer
    <3>2. p * Dim(job, name) = a
      BY <2>2
    <3>. HIDE DEF a, b
    <3>3. a + b + f = a + (b + f)
      BY <2>3, <3>1
    <3>4. QED
      BY <3>2, <3>3 DEF a, b
  <2>10. QED
    BY <2>1, <2>2, <2>5, <2>8, <2>9, PromisedIs
<1>2. QED
  BY <1>1, KernelKept, PTL

(* A contraction stores for every component and point the sum over all the
   features. *)
THEOREM ContractsFeatures == KernelSpec => []ContractedFilled
<1>1. KernelInvariant => ContractedFilled
  <2>. SUFFICES ASSUME KernelInvariant, Finished, job.mode = "contracted",
                       NEW name \in DOMAIN stored, NEW p \in 0..job.points-1,
                       NEW c \in 0..Components(job, name)-1
                PROVE  stored[name][c * job.points + p] =
                         [i \in 1..job.n |-> [value |-> Promised(name, c, i - 1, p),
                                              coefficient |-> i - 1]]
    BY DEF ContractedFilled
  <2>1. job \in Jobs /\ point = job.points /\ ContractedStore(job, point, stored)
    BY DEF KernelInvariant, Finished
  <2>2. name \in Pointers(job) /\ p < point
    BY <2>1, JobFacts DEF ContractedStore
  <2>3. IsBuffer(job, name) /\ c \in 0..Count(job.nspin, name)-1
    BY <2>1, <2>2, ContractedPointers
  <2>4. stored[name][c * job.points + p] = Sum(name, c, job.n, p)
    BY <2>1, <2>2 DEF ContractedStore
  <2>5. \A i \in 1..job.n :
          [value |-> Promised(name, c, i - 1, p), coefficient |-> i - 1] =
            Entry(name, c, i - 1, p, i - 1)
    BY <2>1, <2>3, PromisedIs
  <2>6. QED
    BY <2>4, <2>5 DEF Sum
<1>2. QED
  BY <1>1, KernelKept, PTL

(* The streaming integral of a feature has its value at every point, once. *)
THEOREM StreamsEveryPoint == KernelSpec => []StreamedFilled
<1>1. KernelInvariant => StreamedFilled
  <2>. SUFFICES ASSUME KernelInvariant, Finished, job.mode = "streaming",
                       NEW f \in 0..job.n-1
                PROVE  stored[f] = [i \in 1..job.points |->
                         [value |-> Promised(<< >>, 0, f, i - 1), coefficient |-> -1]]
    BY DEF StreamedFilled
  <2>1. job \in Jobs /\ point = job.points /\ StreamedStore(job, point, stored)
    BY DEF KernelInvariant, Finished
  <2>2. IsBuffer(job, << >>) /\ Count(job.nspin, << >>) = 1
    BY <2>1, StreamingPointers
  <2>3. stored[f] = [i \in 1..job.points |-> Entry(<< >>, 0, f, i - 1, -1)]
    BY <2>1 DEF StreamedStore
  <2>4. 0 \in 0..Count(job.nspin, << >>)-1
    BY <2>2
  <2>5. \A i \in 1..job.points :
          [value |-> Promised(<< >>, 0, f, i - 1), coefficient |-> -1] =
            Entry(<< >>, 0, f, i - 1, -1)
    BY <2>1, <2>2, <2>4, PromisedIs
  <2>6. QED
    BY <2>3, <2>5
<1>2. QED
  BY <1>1, KernelKept, PTL

=============================================================================
