----------------------- MODULE SpinComponents_proofs -----------------------
(***************************************************************************)
(* Lemmas about the lists the generator and the library share: the fields  *)
(* of the private output, flattened lists of lists, the names of the       *)
(* derivatives and their spin components, the outputs of an order, and the *)
(* batches they are cut into. They are for any number of features.         *)
(***************************************************************************)
EXTENDS SpinComponents, FiniteSetTheorems, WellFoundedInduction, TLAPS

(* The first of some entries or variables that are rejected. *)
LEMMA FirstExists ==
  ASSUME NEW n \in Nat, NEW S, S \subseteq 1..n, S # {}
  PROVE  (CHOOSE i \in S : \A j \in S : i =< j) \in S
<1>. DEFINE Less == {ss \in Nat \X Nat : ss[1] < ss[2]}
<1>1. IsWellFoundedOn(Less, Nat)
  BY NatLessThanWellFounded DEF OpToRel
<1>2. \E m \in S : \A j \in S : m =< j
  <2>1. S \subseteq Nat
    OBVIOUS
  <2>2. PICK m \in S : \A j \in S : <<j, m>> \notin Less
    <3>. HIDE DEF Less
    <3>. QED
      BY <1>1, <2>1, WFMin
  <2>3. ASSUME NEW j \in S PROVE m =< j
    <3>1. j \in Nat /\ m \in Nat /\ <<j, m>> \in Nat \X Nat
      BY <2>1
    <3>2. ~(j < m)
      BY <2>2, <3>1
    <3>3. QED
      BY <3>1, <3>2
  <2>4. QED
    BY <2>3
<1>3. QED
  BY <1>2

(* The checks of a list of variables, for the first that is rejected ... *)
LEMMA CheckedVariables ==
  ASSUME NEW nspin \in Spins, NEW list \in Seq(Nat), VariablesStatus(nspin, list) = "OK"
  PROVE  /\ \A i \in DOMAIN list : list[i] \in {RHO, SIGMA, TAU}
         /\ \A i \in 2..Len(list) : list[i-1] =< list[i]
<1>. DEFINE bad == {i \in DOMAIN list : VariableStatus(nspin, list, i) # "OK"}
            first == CHOOSE i \in bad : \A j \in bad : i =< j
<1>1. Len(list) \in Nat /\ DOMAIN list = 1..Len(list) /\ \A i \in DOMAIN list : list[i] \in Nat
  OBVIOUS
<1>2. bad = {}
  <2>1. SUFFICES ASSUME bad # {} PROVE FALSE
    OBVIOUS
  <2>2. VariablesStatus(nspin, list) = VariableStatus(nspin, list, first)
    BY <2>1 DEF VariablesStatus
  <2>3. bad \subseteq 1..Len(list)
    BY <1>1
  <2>. HIDE DEF bad
  <2>4. first \in bad
    BY <1>1, <2>1, <2>3, FirstExists
  <2>5. VariableStatus(nspin, list, first) # "OK"
    BY <2>4 DEF bad
  <2>6. QED
    BY <2>2, <2>5
<1>3. \A i \in DOMAIN list : VariableStatus(nspin, list, i) = "OK"
  BY <1>2
<1>. HIDE DEF bad
<1>4. ASSUME NEW i \in DOMAIN list
      PROVE  /\ list[i] =< TAU
             /\ i > 1 => list[i-1] =< list[i]
             /\ Dimensions(nspin)[list[i]] # 0
  <2>1. VariableStatus(nspin, list, i) = "OK"
    BY <1>3
  <2>2. ~(list[i] > TAU \/ (i > 1 /\ list[i] < list[i-1]))
    BY <2>1 DEF VariableStatus
  <2>3. Dimensions(nspin)[list[i]] # 0
    BY <2>1, <2>2 DEF VariableStatus
  <2>4. i > 1 => i - 1 \in DOMAIN list
    BY <1>1
  <2>5. QED
    BY <1>1, <2>2, <2>3, <2>4 DEF TAU
<1>5. ASSUME NEW i \in DOMAIN list
      PROVE  list[i] \in {RHO, SIGMA, TAU}
  <2>1. list[i] \in {RHO, SIGMA, LAPL, TAU}
    BY <1>1, <1>4 DEF RHO, SIGMA, LAPL, TAU
  <2>2. Dimensions(nspin)[LAPL] = 0
    BY DEF Dimensions, RHO, SIGMA, LAPL, TAU
  <2>3. QED
    BY <1>4, <2>1, <2>2
<1>6. ASSUME NEW i \in 2..Len(list)
      PROVE  list[i-1] =< list[i]
  BY <1>1, <1>4
<1>7. QED
  BY <1>5, <1>6
-----------------------------------------------------------------------------
(* The names of the private output fields. *)
LEMMA FieldNameList ==
  /\ PrivateFields[1].name = "zk" /\ PrivateFields[2].name = "vrho"
  /\ PrivateFields[3].name = "vsigma" /\ PrivateFields[4].name = "vtau"
  /\ PrivateFields[5].name = "v2rho2" /\ PrivateFields[6].name = "v2rhosigma"
  /\ PrivateFields[7].name = "v2rhotau" /\ PrivateFields[8].name = "v2sigma2"
  /\ PrivateFields[9].name = "v2sigmatau" /\ PrivateFields[10].name = "v2tau2"
  /\ PrivateFields[11].name = "v3rho3" /\ PrivateFields[12].name = "v3rho2sigma"
  /\ PrivateFields[13].name = "v3rho2tau" /\ PrivateFields[14].name = "v3rhosigma2"
  /\ PrivateFields[15].name = "v3rhosigmatau" /\ PrivateFields[16].name = "v3rhotau2"
  /\ PrivateFields[17].name = "v3sigma3" /\ PrivateFields[18].name = "v3sigma2tau"
  /\ PrivateFields[19].name = "v3sigmatau2" /\ PrivateFields[20].name = "v3tau3"
  /\ PrivateFields[21].name = "v4rho4" /\ PrivateFields[22].name = "v4rho3sigma"
  /\ PrivateFields[23].name = "v4rho3tau" /\ PrivateFields[24].name = "v4rho2sigma2"
  /\ PrivateFields[25].name = "v4rho2sigmatau" /\ PrivateFields[26].name = "v4rho2tau2"
  /\ PrivateFields[27].name = "v4rhosigma3" /\ PrivateFields[28].name = "v4rhosigma2tau"
  /\ PrivateFields[29].name = "v4rhosigmatau2" /\ PrivateFields[30].name = "v4rhotau3"
  /\ PrivateFields[31].name = "v4sigma4" /\ PrivateFields[32].name = "v4sigma3tau"
  /\ PrivateFields[33].name = "v4sigma2tau2" /\ PrivateFields[34].name = "v4sigmatau3"
  /\ PrivateFields[35].name = "v4tau4"
BY DEF PrivateFields, Field

(* There are 35 of them ... *)
LEMMA NumberOfFields == Len(PrivateFields) = 35
BY DEF PrivateFields, Field

(* ... and no two have the same name. *)
LEMMA FieldNamesDiffer ==
  \A i, j \in 1..Len(PrivateFields) :
    PrivateFields[i].name = PrivateFields[j].name => i = j
<1>1. ASSUME NEW i \in 1..35, NEW j \in 1..35, i < j,
             PrivateFields[i].name = PrivateFields[j].name
      PROVE  FALSE
  BY <1>1, FieldNameList, SMTT(60)
<1>2. ASSUME NEW i \in 1..35, NEW j \in 1..35,
             PrivateFields[i].name = PrivateFields[j].name
      PROVE  i = j
  <2>1. i < j \/ j < i \/ i = j
    OBVIOUS
  <2>2. QED
    BY <1>1, <1>2, <2>1
<1>3. QED
  BY <1>2, NumberOfFields

(* The places of the fields up to order 3, by their variables. *)
LEMMA FieldsOfVariables ==
  /\ PrivateFields[1].vars = << >> /\ PrivateFields[2].vars = <<RHO>>
  /\ PrivateFields[3].vars = <<SIGMA>> /\ PrivateFields[4].vars = <<TAU>>
  /\ PrivateFields[5].vars = <<RHO, RHO>> /\ PrivateFields[6].vars = <<RHO, SIGMA>>
  /\ PrivateFields[7].vars = <<RHO, TAU>> /\ PrivateFields[8].vars = <<SIGMA, SIGMA>>
  /\ PrivateFields[9].vars = <<SIGMA, TAU>> /\ PrivateFields[10].vars = <<TAU, TAU>>
  /\ PrivateFields[11].vars = <<RHO, RHO, RHO>>
  /\ PrivateFields[12].vars = <<RHO, RHO, SIGMA>>
  /\ PrivateFields[13].vars = <<RHO, RHO, TAU>>
  /\ PrivateFields[14].vars = <<RHO, SIGMA, SIGMA>>
  /\ PrivateFields[15].vars = <<RHO, SIGMA, TAU>>
  /\ PrivateFields[16].vars = <<RHO, TAU, TAU>>
  /\ PrivateFields[17].vars = <<SIGMA, SIGMA, SIGMA>>
  /\ PrivateFields[18].vars = <<SIGMA, SIGMA, TAU>>
  /\ PrivateFields[19].vars = <<SIGMA, TAU, TAU>>
  /\ PrivateFields[20].vars = <<TAU, TAU, TAU>>
BY DEF PrivateFields, Field

(* Every sorted list of up to three variables is that of a field. *)
LEMMA EveryListHasAField ==
  ASSUME NEW list \in Seq(Nat), Len(list) \in 0..3,
         \A i \in 1..Len(list) : list[i] \in {RHO, SIGMA, TAU},
         \A i \in 2..Len(list) : list[i-1] =< list[i]
  PROVE  \E k \in DOMAIN PrivateFields : PrivateFields[k].vars = list
<1>. DEFINE Lists == {PrivateFields[k].vars : k \in DOMAIN PrivateFields}
<1>1. 1..35 = DOMAIN PrivateFields
  BY NumberOfFields DEF PrivateFields
<1>2. \A k \in 1..35 : PrivateFields[k].vars \in Lists
  BY <1>1
<1>3. /\ << >> \in Lists /\ <<RHO>> \in Lists /\ <<SIGMA>> \in Lists /\ <<TAU>> \in Lists
      /\ <<RHO, RHO>> \in Lists /\ <<RHO, SIGMA>> \in Lists /\ <<RHO, TAU>> \in Lists
      /\ <<SIGMA, SIGMA>> \in Lists /\ <<SIGMA, TAU>> \in Lists /\ <<TAU, TAU>> \in Lists
      /\ <<RHO, RHO, RHO>> \in Lists /\ <<RHO, RHO, SIGMA>> \in Lists
      /\ <<RHO, RHO, TAU>> \in Lists /\ <<RHO, SIGMA, SIGMA>> \in Lists
      /\ <<RHO, SIGMA, TAU>> \in Lists /\ <<RHO, TAU, TAU>> \in Lists
      /\ <<SIGMA, SIGMA, SIGMA>> \in Lists /\ <<SIGMA, SIGMA, TAU>> \in Lists
      /\ <<SIGMA, TAU, TAU>> \in Lists /\ <<TAU, TAU, TAU>> \in Lists
  <2>. HIDE DEF Lists
  <2>1. /\ PrivateFields[1].vars \in Lists /\ PrivateFields[2].vars \in Lists
        /\ PrivateFields[3].vars \in Lists /\ PrivateFields[4].vars \in Lists
        /\ PrivateFields[5].vars \in Lists /\ PrivateFields[6].vars \in Lists
        /\ PrivateFields[7].vars \in Lists /\ PrivateFields[8].vars \in Lists
        /\ PrivateFields[9].vars \in Lists /\ PrivateFields[10].vars \in Lists
        /\ PrivateFields[11].vars \in Lists /\ PrivateFields[12].vars \in Lists
        /\ PrivateFields[13].vars \in Lists /\ PrivateFields[14].vars \in Lists
        /\ PrivateFields[15].vars \in Lists /\ PrivateFields[16].vars \in Lists
        /\ PrivateFields[17].vars \in Lists /\ PrivateFields[18].vars \in Lists
        /\ PrivateFields[19].vars \in Lists /\ PrivateFields[20].vars \in Lists
    BY <1>2
  <2>2. QED
    BY <2>1, FieldsOfVariables
<1>4. list \in Lists
  <2>. HIDE DEF Lists
  <2>. DEFINE a == list[1]
              b == list[2]
              d == list[3]
  <2>1. CASE Len(list) = 0
    <3>1. list = << >>
      BY <2>1
    <3>2. QED
      BY <1>3, <3>1
  <2>2. CASE Len(list) = 1
    <3>1. list = <<a>> /\ a \in {RHO, SIGMA, TAU}
      BY <2>2
    <3>. HIDE DEF a
    <3>2. QED
      BY <1>3, <3>1
  <2>3. CASE Len(list) = 2
    <3>1. list = <<a, b>>
      BY <2>3
    <3>2. a \in {RHO, SIGMA, TAU} /\ b \in {RHO, SIGMA, TAU} /\ a =< b
      BY <2>3
    <3>. HIDE DEF a, b
    <3>3. \/ a = RHO /\ b \in {RHO, SIGMA, TAU}
          \/ a = SIGMA /\ b \in {SIGMA, TAU}
          \/ a = TAU /\ b = TAU
      BY <3>2 DEF RHO, SIGMA, TAU
    <3>4. <<a, b>> \in Lists
      BY <1>3, <3>3
    <3>5. QED
      BY <3>1, <3>4
  <2>4. CASE Len(list) = 3
    <3>1. list = <<a, b, d>>
      BY <2>4
    <3>2. /\ a \in {RHO, SIGMA, TAU} /\ b \in {RHO, SIGMA, TAU} /\ d \in {RHO, SIGMA, TAU}
          /\ a =< b /\ b =< d
      BY <2>4
    <3>. HIDE DEF a, b, d
    <3>3. \/ a = RHO /\ b = RHO /\ d \in {RHO, SIGMA, TAU}
          \/ a = RHO /\ b = SIGMA /\ d \in {SIGMA, TAU}
          \/ a = RHO /\ b = TAU /\ d = TAU
          \/ a = SIGMA /\ b = SIGMA /\ d \in {SIGMA, TAU}
          \/ a \in {SIGMA, TAU} /\ b = TAU /\ d = TAU
      BY <3>2 DEF RHO, SIGMA, TAU
    <3>4. <<a, b, d>> \in Lists
      BY <1>3, <3>3
    <3>5. QED
      BY <3>1, <3>4
  <2>5. QED
    BY <2>1, <2>2, <2>3, <2>4
<1>5. QED
  BY <1>4

(* A field has at least one component. *)
LEMMA FieldComponents ==
  \A i \in 1..35 : PrivateFields[i].polarized > 0
<1>1. /\ PrivateFields[1].polarized > 0
      /\ PrivateFields[2].polarized > 0
      /\ PrivateFields[3].polarized > 0
      /\ PrivateFields[4].polarized > 0
      /\ PrivateFields[5].polarized > 0
      /\ PrivateFields[6].polarized > 0
      /\ PrivateFields[7].polarized > 0
  BY DEF PrivateFields, Field
<1>2. /\ PrivateFields[8].polarized > 0
      /\ PrivateFields[9].polarized > 0
      /\ PrivateFields[10].polarized > 0
      /\ PrivateFields[11].polarized > 0
      /\ PrivateFields[12].polarized > 0
      /\ PrivateFields[13].polarized > 0
      /\ PrivateFields[14].polarized > 0
  BY DEF PrivateFields, Field
<1>3. /\ PrivateFields[15].polarized > 0
      /\ PrivateFields[16].polarized > 0
      /\ PrivateFields[17].polarized > 0
      /\ PrivateFields[18].polarized > 0
      /\ PrivateFields[19].polarized > 0
      /\ PrivateFields[20].polarized > 0
      /\ PrivateFields[21].polarized > 0
  BY DEF PrivateFields, Field
<1>4. /\ PrivateFields[22].polarized > 0
      /\ PrivateFields[23].polarized > 0
      /\ PrivateFields[24].polarized > 0
      /\ PrivateFields[25].polarized > 0
      /\ PrivateFields[26].polarized > 0
      /\ PrivateFields[27].polarized > 0
      /\ PrivateFields[28].polarized > 0
  BY DEF PrivateFields, Field
<1>5. /\ PrivateFields[29].polarized > 0
      /\ PrivateFields[30].polarized > 0
      /\ PrivateFields[31].polarized > 0
      /\ PrivateFields[32].polarized > 0
      /\ PrivateFields[33].polarized > 0
      /\ PrivateFields[34].polarized > 0
      /\ PrivateFields[35].polarized > 0
  BY DEF PrivateFields, Field
<1>6. QED
  BY <1>1, <1>2, <1>3, <1>4, <1>5

(* The number of variables of a field; the first 20 have up to three. *)
LEMMA FieldVariableCount ==
  \A i \in 1..35 : /\ Len(PrivateFields[i].vars) \in Nat
                   /\ Len(PrivateFields[i].vars) =< 3 => i \in 1..20
<1>1. /\ Len(PrivateFields[1].vars) = 0 /\ Len(PrivateFields[2].vars) = 1
      /\ Len(PrivateFields[3].vars) = 1 /\ Len(PrivateFields[4].vars) = 1
      /\ Len(PrivateFields[5].vars) = 2 /\ Len(PrivateFields[6].vars) = 2
      /\ Len(PrivateFields[7].vars) = 2 /\ Len(PrivateFields[8].vars) = 2
      /\ Len(PrivateFields[9].vars) = 2 /\ Len(PrivateFields[10].vars) = 2
      /\ Len(PrivateFields[11].vars) = 3 /\ Len(PrivateFields[12].vars) = 3
      /\ Len(PrivateFields[13].vars) = 3 /\ Len(PrivateFields[14].vars) = 3
      /\ Len(PrivateFields[15].vars) = 3 /\ Len(PrivateFields[16].vars) = 3
      /\ Len(PrivateFields[17].vars) = 3 /\ Len(PrivateFields[18].vars) = 3
      /\ Len(PrivateFields[19].vars) = 3 /\ Len(PrivateFields[20].vars) = 3
      /\ Len(PrivateFields[21].vars) = 4 /\ Len(PrivateFields[22].vars) = 4
      /\ Len(PrivateFields[23].vars) = 4 /\ Len(PrivateFields[24].vars) = 4
      /\ Len(PrivateFields[25].vars) = 4 /\ Len(PrivateFields[26].vars) = 4
      /\ Len(PrivateFields[27].vars) = 4 /\ Len(PrivateFields[28].vars) = 4
      /\ Len(PrivateFields[29].vars) = 4 /\ Len(PrivateFields[30].vars) = 4
      /\ Len(PrivateFields[31].vars) = 4 /\ Len(PrivateFields[32].vars) = 4
      /\ Len(PrivateFields[33].vars) = 4 /\ Len(PrivateFields[34].vars) = 4
      /\ Len(PrivateFields[35].vars) = 4
  BY DEF PrivateFields, Field
<1>2. \A i \in 1..20 : Len(PrivateFields[i].vars) \in Nat
  BY <1>1, SMTT(60)
<1>3. \A i \in 21..35 : Len(PrivateFields[i].vars) = 4
  BY <1>1, SMTT(100)
<1>4. ASSUME NEW i \in 1..35
      PROVE  /\ Len(PrivateFields[i].vars) \in Nat
             /\ Len(PrivateFields[i].vars) =< 3 => i \in 1..20
  <2>1. CASE i \in 1..20
    BY <1>2, <2>1
  <2>2. CASE i \in 21..35
    <3>1. Len(PrivateFields[i].vars) = 4
      BY <1>3, <2>2
    <3>2. QED
      BY <3>1
  <2>3. QED
    BY <2>1, <2>2
<1>5. QED
  BY <1>4
-----------------------------------------------------------------------------
(* The components of p equal variables of d components. *)
GroupSize(d, p) ==
  IF p = 0 \/ d = 1 THEN 1 ELSE IF d = 2 THEN p + 1 ELSE <<3, 6, 10>>[p]

(* The components of a variable. *)
SpinDim(nspin, var) == Dimensions(nspin)[var]

(* A list of r times rho, s times sigma and t times tau. *)
IsSplit(list, r, s, t) ==
  /\ list \in Seq(Nat) /\ Len(list) = r + s + t
  /\ r \in 0..3 /\ s \in 0..3 /\ t \in 0..3 /\ r + s + t =< 3
  /\ \A i \in 1..Len(list) :
       list[i] = IF i =< r THEN RHO ELSE IF i =< r + s THEN SIGMA ELSE TAU

(* Its components. *)
SplitSize(nspin, r, s, t) ==
  GroupSize(SpinDim(nspin, RHO), r) * GroupSize(SpinDim(nspin, SIGMA), s)
  * GroupSize(SpinDim(nspin, TAU), t)

(* The components of the variables for either number of spins. *)
LEMMA Dims ==
  /\ SpinDim("UNPOLARIZED", RHO) = 1 /\ SpinDim("UNPOLARIZED", SIGMA) = 1
  /\ SpinDim("UNPOLARIZED", LAPL) = 0 /\ SpinDim("UNPOLARIZED", TAU) = 1
  /\ SpinDim("POLARIZED", RHO) = 2 /\ SpinDim("POLARIZED", SIGMA) = 3
  /\ SpinDim("POLARIZED", LAPL) = 0 /\ SpinDim("POLARIZED", TAU) = 2
BY DEF SpinDim, Dimensions, RHO, SIGMA, LAPL, TAU

(* The numbers of components of the groups. *)
LEMMA GroupSizes ==
  /\ GroupSize(2, 0) = 1 /\ GroupSize(2, 1) = 2 /\ GroupSize(2, 2) = 3
  /\ GroupSize(2, 3) = 4 /\ GroupSize(3, 0) = 1 /\ GroupSize(3, 1) = 3
  /\ GroupSize(3, 2) = 6 /\ GroupSize(3, 3) = 10
BY DEF GroupSize

(* The components the table of private fields has. *)
LEMMA TableOfComponents ==
  /\ PrivateFields[1].polarized = 1 /\ PrivateFields[2].polarized = 2
  /\ PrivateFields[3].polarized = 3 /\ PrivateFields[4].polarized = 2
  /\ PrivateFields[5].polarized = 3 /\ PrivateFields[6].polarized = 6
  /\ PrivateFields[7].polarized = 4 /\ PrivateFields[8].polarized = 6
  /\ PrivateFields[9].polarized = 6 /\ PrivateFields[10].polarized = 3
  /\ PrivateFields[11].polarized = 4 /\ PrivateFields[12].polarized = 9
  /\ PrivateFields[13].polarized = 6 /\ PrivateFields[14].polarized = 12
  /\ PrivateFields[15].polarized = 12 /\ PrivateFields[16].polarized = 6
  /\ PrivateFields[17].polarized = 10 /\ PrivateFields[18].polarized = 12
  /\ PrivateFields[19].polarized = 9 /\ PrivateFields[20].polarized = 4
<1>1. /\ PrivateFields[1].polarized = 1 /\ PrivateFields[2].polarized = 2
      /\ PrivateFields[3].polarized = 3 /\ PrivateFields[4].polarized = 2
  BY DEF PrivateFields, Field
<1>2. /\ PrivateFields[5].polarized = 3 /\ PrivateFields[6].polarized = 6
      /\ PrivateFields[7].polarized = 4 /\ PrivateFields[8].polarized = 6
  BY DEF PrivateFields, Field
<1>3. /\ PrivateFields[9].polarized = 6 /\ PrivateFields[10].polarized = 3
      /\ PrivateFields[11].polarized = 4 /\ PrivateFields[12].polarized = 9
  BY DEF PrivateFields, Field
<1>4. /\ PrivateFields[13].polarized = 6 /\ PrivateFields[14].polarized = 12
      /\ PrivateFields[15].polarized = 12 /\ PrivateFields[16].polarized = 6
  BY DEF PrivateFields, Field
<1>5. /\ PrivateFields[17].polarized = 10 /\ PrivateFields[18].polarized = 12
      /\ PrivateFields[19].polarized = 9 /\ PrivateFields[20].polarized = 4
  BY DEF PrivateFields, Field
<1>6. QED
  BY <1>1, <1>2, <1>3, <1>4, <1>5

(* The variables and the components of every field up to order 3. *)
LEMMA FieldShapes ==
  ASSUME NEW k \in 1..20
  PROVE  \E r, s, t \in 0..3 :
           /\ IsSplit(PrivateFields[k].vars, r, s, t)
           /\ PrivateFields[k].polarized = SplitSize("POLARIZED", r, s, t)
<1>. DEFINE Shape(j, r, s, t) ==
              /\ IsSplit(PrivateFields[j].vars, r, s, t)
              /\ PrivateFields[j].polarized = SplitSize("POLARIZED", r, s, t)
<1>1. Shape(1, 0, 0, 0)
  <2>1. IsSplit(<< >>, 0, 0, 0)
    BY DEF IsSplit, RHO, SIGMA, TAU
  <2>2. SplitSize("POLARIZED", 0, 0, 0) = 1
    BY Dims, GroupSizes DEF SplitSize
  <2>3. QED
    BY <2>1, <2>2, FieldsOfVariables, TableOfComponents
<1>2. Shape(2, 1, 0, 0)
  <2>1. IsSplit(<<RHO>>, 1, 0, 0)
    BY DEF IsSplit, RHO, SIGMA, TAU
  <2>2. SplitSize("POLARIZED", 1, 0, 0) = 2
    BY Dims, GroupSizes DEF SplitSize
  <2>3. QED
    BY <2>1, <2>2, FieldsOfVariables, TableOfComponents
<1>3. Shape(3, 0, 1, 0)
  <2>1. IsSplit(<<SIGMA>>, 0, 1, 0)
    BY DEF IsSplit, RHO, SIGMA, TAU
  <2>2. SplitSize("POLARIZED", 0, 1, 0) = 3
    BY Dims, GroupSizes DEF SplitSize
  <2>3. QED
    BY <2>1, <2>2, FieldsOfVariables, TableOfComponents
<1>4. Shape(4, 0, 0, 1)
  <2>1. IsSplit(<<TAU>>, 0, 0, 1)
    BY DEF IsSplit, RHO, SIGMA, TAU
  <2>2. SplitSize("POLARIZED", 0, 0, 1) = 2
    BY Dims, GroupSizes DEF SplitSize
  <2>3. QED
    BY <2>1, <2>2, FieldsOfVariables, TableOfComponents
<1>5. Shape(5, 2, 0, 0)
  <2>1. IsSplit(<<RHO, RHO>>, 2, 0, 0)
    BY DEF IsSplit, RHO, SIGMA, TAU
  <2>2. SplitSize("POLARIZED", 2, 0, 0) = 3
    BY Dims, GroupSizes DEF SplitSize
  <2>3. QED
    BY <2>1, <2>2, FieldsOfVariables, TableOfComponents
<1>6. Shape(6, 1, 1, 0)
  <2>1. IsSplit(<<RHO, SIGMA>>, 1, 1, 0)
    BY DEF IsSplit, RHO, SIGMA, TAU
  <2>2. SplitSize("POLARIZED", 1, 1, 0) = 6
    BY Dims, GroupSizes DEF SplitSize
  <2>3. QED
    BY <2>1, <2>2, FieldsOfVariables, TableOfComponents
<1>7. Shape(7, 1, 0, 1)
  <2>1. IsSplit(<<RHO, TAU>>, 1, 0, 1)
    BY DEF IsSplit, RHO, SIGMA, TAU
  <2>2. SplitSize("POLARIZED", 1, 0, 1) = 4
    BY Dims, GroupSizes DEF SplitSize
  <2>3. QED
    BY <2>1, <2>2, FieldsOfVariables, TableOfComponents
<1>8. Shape(8, 0, 2, 0)
  <2>1. IsSplit(<<SIGMA, SIGMA>>, 0, 2, 0)
    BY DEF IsSplit, RHO, SIGMA, TAU
  <2>2. SplitSize("POLARIZED", 0, 2, 0) = 6
    BY Dims, GroupSizes DEF SplitSize
  <2>3. QED
    BY <2>1, <2>2, FieldsOfVariables, TableOfComponents
<1>9. Shape(9, 0, 1, 1)
  <2>1. IsSplit(<<SIGMA, TAU>>, 0, 1, 1)
    BY DEF IsSplit, RHO, SIGMA, TAU
  <2>2. SplitSize("POLARIZED", 0, 1, 1) = 6
    BY Dims, GroupSizes DEF SplitSize
  <2>3. QED
    BY <2>1, <2>2, FieldsOfVariables, TableOfComponents
<1>10. Shape(10, 0, 0, 2)
  <2>1. IsSplit(<<TAU, TAU>>, 0, 0, 2)
    BY DEF IsSplit, RHO, SIGMA, TAU
  <2>2. SplitSize("POLARIZED", 0, 0, 2) = 3
    BY Dims, GroupSizes DEF SplitSize
  <2>3. QED
    BY <2>1, <2>2, FieldsOfVariables, TableOfComponents
<1>11. Shape(11, 3, 0, 0)
  <2>1. IsSplit(<<RHO, RHO, RHO>>, 3, 0, 0)
    BY DEF IsSplit, RHO, SIGMA, TAU
  <2>2. SplitSize("POLARIZED", 3, 0, 0) = 4
    BY Dims, GroupSizes DEF SplitSize
  <2>3. QED
    BY <2>1, <2>2, FieldsOfVariables, TableOfComponents
<1>12. Shape(12, 2, 1, 0)
  <2>1. IsSplit(<<RHO, RHO, SIGMA>>, 2, 1, 0)
    BY DEF IsSplit, RHO, SIGMA, TAU
  <2>2. SplitSize("POLARIZED", 2, 1, 0) = 9
    BY Dims, GroupSizes DEF SplitSize
  <2>3. QED
    BY <2>1, <2>2, FieldsOfVariables, TableOfComponents
<1>13. Shape(13, 2, 0, 1)
  <2>1. IsSplit(<<RHO, RHO, TAU>>, 2, 0, 1)
    BY DEF IsSplit, RHO, SIGMA, TAU
  <2>2. SplitSize("POLARIZED", 2, 0, 1) = 6
    BY Dims, GroupSizes DEF SplitSize
  <2>3. QED
    BY <2>1, <2>2, FieldsOfVariables, TableOfComponents
<1>14. Shape(14, 1, 2, 0)
  <2>1. IsSplit(<<RHO, SIGMA, SIGMA>>, 1, 2, 0)
    BY DEF IsSplit, RHO, SIGMA, TAU
  <2>2. SplitSize("POLARIZED", 1, 2, 0) = 12
    BY Dims, GroupSizes DEF SplitSize
  <2>3. QED
    BY <2>1, <2>2, FieldsOfVariables, TableOfComponents
<1>15. Shape(15, 1, 1, 1)
  <2>1. IsSplit(<<RHO, SIGMA, TAU>>, 1, 1, 1)
    BY DEF IsSplit, RHO, SIGMA, TAU
  <2>2. SplitSize("POLARIZED", 1, 1, 1) = 12
    BY Dims, GroupSizes DEF SplitSize
  <2>3. QED
    BY <2>1, <2>2, FieldsOfVariables, TableOfComponents
<1>16. Shape(16, 1, 0, 2)
  <2>1. IsSplit(<<RHO, TAU, TAU>>, 1, 0, 2)
    BY DEF IsSplit, RHO, SIGMA, TAU
  <2>2. SplitSize("POLARIZED", 1, 0, 2) = 6
    BY Dims, GroupSizes DEF SplitSize
  <2>3. QED
    BY <2>1, <2>2, FieldsOfVariables, TableOfComponents
<1>17. Shape(17, 0, 3, 0)
  <2>1. IsSplit(<<SIGMA, SIGMA, SIGMA>>, 0, 3, 0)
    BY DEF IsSplit, RHO, SIGMA, TAU
  <2>2. SplitSize("POLARIZED", 0, 3, 0) = 10
    BY Dims, GroupSizes DEF SplitSize
  <2>3. QED
    BY <2>1, <2>2, FieldsOfVariables, TableOfComponents
<1>18. Shape(18, 0, 2, 1)
  <2>1. IsSplit(<<SIGMA, SIGMA, TAU>>, 0, 2, 1)
    BY DEF IsSplit, RHO, SIGMA, TAU
  <2>2. SplitSize("POLARIZED", 0, 2, 1) = 12
    BY Dims, GroupSizes DEF SplitSize
  <2>3. QED
    BY <2>1, <2>2, FieldsOfVariables, TableOfComponents
<1>19. Shape(19, 0, 1, 2)
  <2>1. IsSplit(<<SIGMA, TAU, TAU>>, 0, 1, 2)
    BY DEF IsSplit, RHO, SIGMA, TAU
  <2>2. SplitSize("POLARIZED", 0, 1, 2) = 9
    BY Dims, GroupSizes DEF SplitSize
  <2>3. QED
    BY <2>1, <2>2, FieldsOfVariables, TableOfComponents
<1>20. Shape(20, 0, 0, 3)
  <2>1. IsSplit(<<TAU, TAU, TAU>>, 0, 0, 3)
    BY DEF IsSplit, RHO, SIGMA, TAU
  <2>2. SplitSize("POLARIZED", 0, 0, 3) = 4
    BY Dims, GroupSizes DEF SplitSize
  <2>3. QED
    BY <2>1, <2>2, FieldsOfVariables, TableOfComponents
<1>. HIDE DEF Shape
<1>21. \E r, s, t \in 0..3 : Shape(k, r, s, t)
  BY <1>1, <1>2, <1>3, <1>4, <1>5, <1>6, <1>7, <1>8, <1>9, <1>10,
     <1>11, <1>12, <1>13, <1>14, <1>15, <1>16, <1>17, <1>18, <1>19, <1>20, SMTT(60)
<1>22. QED
  BY <1>21 DEF Shape
-----------------------------------------------------------------------------
(* Lists. *)

(* Every non-empty set of numbers has a least element ... *)
LEMMA LeastNumber ==
  ASSUME NEW T \in SUBSET Nat, T # {}
  PROVE  \E x \in T : \A y \in T : x =< y
<1>. DEFINE Less == {ss \in Nat \X Nat : ss[1] < ss[2]}
<1>1. IsWellFoundedOn(Less, Nat)
  BY NatLessThanWellFounded DEF OpToRel
<1>2. PICK x \in T : \A y \in T : <<y, x>> \notin Less
  <2>. HIDE DEF Less
  <2>. QED
    BY <1>1, WFMin
<1>3. ASSUME NEW y \in T PROVE x =< y
  <2>1. x \in Nat /\ y \in Nat /\ <<y, x>> \in Nat \X Nat
    OBVIOUS
  <2>2. ~(y < x)
    BY <1>2, <2>1
  <2>3. QED
    BY <2>1, <2>2
<1>4. QED
  BY <1>3

(* ... so that a set with 0 and every successor has all of them. *)
LEMMA SetInduction ==
  ASSUME NEW S, 0 \in S, \A n \in Nat : n \in S => n + 1 \in S
  PROVE  \A n \in Nat : n \in S
<1>. DEFINE T == Nat \ S
<1>1. SUFFICES ASSUME T # {} PROVE FALSE
  OBVIOUS
<1>2. PICK x \in T : \A y \in T : x =< y
  <2>. HIDE DEF T
  <2>1. T \in SUBSET Nat
    BY DEF T
  <2>2. QED
    BY <1>1, <2>1, LeastNumber
<1>3. x # 0 /\ x - 1 \in Nat
  OBVIOUS
<1>4. x - 1 \in S
  BY <1>2, <1>3
<1>5. QED
  BY <1>3, <1>4

(* A list of lists is appended one list after the other. *)
IsFlattening(flat, ss) ==
  /\ flat[1] = ss[1]
  /\ \A i \in 2..Len(ss) : flat[i] = flat[i-1] \o ss[i]

(* FlattenSeq is the last stage of a function that joins one list after the
   other. *)
LEMMA FlattenSteps ==
  ASSUME NEW ss, Len(ss) \in Nat \ {0}
  PROVE  \E flat : IsFlattening(flat, ss) /\ FlattenSeq(ss) = flat[Len(ss)]
<1>. DEFINE N == Len(ss)
            Step(f, m) == [i \in 1..m |-> IF i = 1 THEN ss[i] ELSE f[i-1] \o ss[i]]
            S == {m \in Nat : \E g : g = Step(g, m)}
            flatten == CHOOSE flatten : flatten = Step(flatten, N)
<1>1. 0 \in S
  <2>1. Step(<< >>, 0) = [i \in 1..0 |-> << >>]
    OBVIOUS
  <2>2. Step(Step(<< >>, 0), 0) = Step(<< >>, 0)
    OBVIOUS
  <2>. HIDE DEF Step
  <2>3. QED
    BY <2>2
<1>2. ASSUME NEW m \in Nat, m \in S
      PROVE  m + 1 \in S
  <2>1. PICK g : g = Step(g, m)
    BY <1>2
  <2>. DEFINE next == IF m = 0 THEN ss[1] ELSE g[m] \o ss[m+1]
              h == [i \in 1..m+1 |-> IF i = m + 1 THEN next ELSE g[i]]
              term(i) == IF i = 1 THEN ss[i] ELSE h[i-1] \o ss[i]
  <2>2. ASSUME NEW i \in 1..m+1
        PROVE  h[i] = term(i)
    <3>1. CASE i = m + 1 /\ m = 0
      BY <3>1
    <3>2. CASE i = m + 1 /\ m # 0
      <4>1. i # 1 /\ i - 1 = m /\ m \in 1..m+1 /\ m # m + 1
        BY <3>2
      <4>2. next = g[m] \o ss[m+1]
        BY <3>2
      <4>. HIDE DEF next
      <4>3. h[m] = g[m] /\ h[i] = next
        BY <3>2, <4>1
      <4>. HIDE DEF h
      <4>4. QED
        BY <3>2, <4>1, <4>2, <4>3
    <3>3. CASE i # m + 1
      <4>1. i \in 1..m /\ h[i] = g[i]
        BY <3>3
      <4>2. g[i] = IF i = 1 THEN ss[i] ELSE g[i-1] \o ss[i]
        BY <2>1, <4>1
      <4>3. i # 1 => h[i-1] = g[i-1]
        BY <4>1
      <4>. HIDE DEF h, next
      <4>4. QED
        BY <4>1, <4>2, <4>3
    <3>4. QED
      BY <3>1, <3>2, <3>3
  <2>3. h = [i \in 1..m+1 |-> h[i]]
    OBVIOUS
  <2>4. h = Step(h, m + 1)
    <3>. HIDE DEF h
    <3>. QED
      BY <2>2, <2>3
  <2>. HIDE DEF Step, h
  <2>5. QED
    BY <2>4
<1>3. N \in S
  <2>. HIDE DEF S
  <2>. QED
    BY <1>1, <1>2, SetInduction
<1>4. flatten = Step(flatten, N)
  <2>1. \E g : g = Step(g, N)
    BY <1>3
  <2>. HIDE DEF Step, N
  <2>2. QED
    BY <2>1
<1>5. FlattenSeq(ss) = flatten[N]
  BY DEF FlattenSeq
<1>. HIDE DEF flatten
<1>6. \A i \in 1..N : flatten[i] = IF i = 1 THEN ss[i] ELSE flatten[i-1] \o ss[i]
  BY <1>4
<1>7. IsFlattening(flatten, ss)
  <2>. HIDE DEF Step
  <2>1. 1 \in 1..N /\ \A i \in 2..N : i \in 1..N /\ i # 1
    OBVIOUS
  <2>2. QED
    BY <1>6, <2>1 DEF IsFlattening
<1>8. QED
  BY <1>5, <1>7

Elements(s) == {s[i] : i \in DOMAIN s}

(* The elements of a list come in an order. *)
InOrder(s, R) == \A i, j \in DOMAIN s : i < j => <<s[i], s[j]>> \in R

AllBefore(s, t, R) == \A x \in Elements(s), y \in Elements(t) : <<x, y>> \in R

(* Joining two lists joins their elements and keeps them in order. *)
LEMMA Appended ==
  ASSUME NEW E, NEW R, NEW s \in Seq(E), NEW t \in Seq(E)
  PROVE  /\ s \o t \in Seq(E)
         /\ Elements(s \o t) = Elements(s) \cup Elements(t)
         /\ InOrder(s, R) /\ InOrder(t, R) /\ AllBefore(s, t, R) => InOrder(s \o t, R)
<1>. DEFINE m == Len(s)
            n == Len(t)
            u == s \o t
<1>1. /\ m \in Nat /\ n \in Nat /\ DOMAIN s = 1..m /\ DOMAIN t = 1..n
      /\ u \in Seq(E) /\ DOMAIN u = 1..m+n
  OBVIOUS
<1>2. /\ \A i \in 1..m : u[i] = s[i]
      /\ \A i \in 1..m+n : i > m => u[i] = t[i-m]
  OBVIOUS
<1>3. \A i \in 1..n : u[m + i] = t[i] /\ m + i \in 1..m+n
  BY <1>1, <1>2
<1>. HIDE DEF m, n, u
<1>4. Elements(u) = Elements(s) \cup Elements(t)
  <2>1. ASSUME NEW i \in 1..m+n PROVE u[i] \in Elements(s) \cup Elements(t)
    <3>1. CASE i =< m
      BY <1>1, <1>2, <3>1 DEF Elements
    <3>2. CASE i > m
      <4>1. i - m \in 1..n
        BY <1>1, <3>2
      <4>2. QED
        BY <1>1, <1>2, <3>2, <4>1 DEF Elements
    <3>3. QED
      BY <1>1, <3>1, <3>2
  <2>2. ASSUME NEW i \in 1..m PROVE s[i] \in Elements(u)
    <3>1. i \in 1..m+n /\ u[i] = s[i]
      BY <1>1, <1>2
    <3>2. QED
      BY <1>1, <3>1 DEF Elements
  <2>3. ASSUME NEW i \in 1..n PROVE t[i] \in Elements(u)
    BY <1>1, <1>3 DEF Elements
  <2>4. QED
    BY <1>1, <2>1, <2>2, <2>3 DEF Elements
<1>5. ASSUME InOrder(s, R), InOrder(t, R), AllBefore(s, t, R)
      PROVE  InOrder(u, R)
  <2>1. SUFFICES ASSUME NEW i \in 1..m+n, NEW j \in 1..m+n, i < j
                 PROVE  <<u[i], u[j]>> \in R
    BY <1>1 DEF InOrder
  <2>2. CASE j =< m
    <3>1. i \in 1..m /\ j \in 1..m
      BY <1>1, <2>1, <2>2
    <3>2. QED
      BY <1>1, <1>2, <1>5, <2>1, <3>1 DEF InOrder
  <2>3. CASE i =< m /\ j > m
    <3>1. i \in 1..m /\ j - m \in 1..n
      BY <1>1, <2>3
    <3>2. s[i] \in Elements(s) /\ t[j-m] \in Elements(t)
      BY <1>1, <3>1 DEF Elements
    <3>3. u[i] = s[i] /\ u[j] = t[j-m]
      BY <1>1, <1>2, <2>3, <3>1
    <3>4. QED
      BY <1>5, <3>2, <3>3 DEF AllBefore
  <2>4. CASE i > m
    <3>1. i - m \in 1..n /\ j - m \in 1..n /\ i - m < j - m
      BY <1>1, <2>1, <2>4
    <3>2. u[i] = t[i-m] /\ u[j] = t[j-m]
      BY <1>1, <1>2, <2>1, <2>4
    <3>3. QED
      BY <1>1, <1>5, <3>1, <3>2 DEF InOrder
  <2>5. QED
    BY <1>1, <2>2, <2>3, <2>4
<1>6. QED
  BY <1>1, <1>4, <1>5 DEF u

(* A list of lists each in order, all of a list before the next. *)
AreInOrder(ss, R) ==
  /\ \A i \in DOMAIN ss : InOrder(ss[i], R)
  /\ \A i, j \in DOMAIN ss : i < j => AllBefore(ss[i], ss[j], R)

(* The same of all the lists of a list. *)
LEMMA Flattened ==
  ASSUME NEW E, NEW R, NEW ss \in Seq(Seq(E)), AreInOrder(ss, R)
  PROVE  /\ FlattenSeq(ss) \in Seq(E)
         /\ Elements(FlattenSeq(ss)) = UNION {Elements(ss[i]) : i \in DOMAIN ss}
         /\ InOrder(FlattenSeq(ss), R)
<1>. DEFINE N == Len(ss)
            Upto(m) == UNION {Elements(ss[i]) : i \in 1..m}
<1>1. N \in Nat /\ DOMAIN ss = 1..N /\ \A i \in 1..N : ss[i] \in Seq(E)
  OBVIOUS
<1>2. CASE N = 0
  <2>1. FlattenSeq(ss) = ss
    BY <1>2 DEF FlattenSeq
  <2>2. ss = << >>
    BY <1>2
  <2>3. DOMAIN ss = {}
    BY <1>1, <1>2
  <2>4. QED
    BY <2>1, <2>2, <2>3 DEF Elements, InOrder
<1>3. CASE N # 0
  <2>1. PICK flat : IsFlattening(flat, ss) /\ FlattenSeq(ss) = flat[N]
    BY <1>1, <1>3, FlattenSteps
  <2>. DEFINE Good(m) == /\ flat[m] \in Seq(E)
                         /\ Elements(flat[m]) = Upto(m)
                         /\ InOrder(flat[m], R)
              S == {k \in Nat : k + 1 =< N => Good(k + 1)}
  <2>2. Good(1)
    <3>1. flat[1] = ss[1] /\ 1 \in 1..N
      BY <1>1, <1>3, <2>1 DEF IsFlattening
    <3>2. Upto(1) = Elements(ss[1])
      OBVIOUS
    <3>3. InOrder(ss[1], R)
      BY <1>1, <3>1 DEF AreInOrder
    <3>. HIDE DEF Upto
    <3>4. QED
      BY <1>1, <3>1, <3>2, <3>3
  <2>. HIDE DEF Good
  <2>3. ASSUME NEW m \in Nat \ {0}, m + 1 =< N, Good(m)
        PROVE  Good(m + 1)
    <3>1. m + 1 \in 2..N /\ m + 1 \in 1..N /\ (m + 1) - 1 = m
      BY <1>1, <2>3
    <3>2. flat[m+1] = flat[m] \o ss[m+1]
      BY <2>1, <3>1 DEF IsFlattening
    <3>3. Upto(m + 1) = Upto(m) \cup Elements(ss[m+1])
      <4>1. 1..m+1 = (1..m) \cup {m+1}
        OBVIOUS
      <4>2. QED
        BY <4>1
    <3>4. AllBefore(flat[m], ss[m+1], R)
      <4>1. ASSUME NEW x \in Upto(m), NEW y \in Elements(ss[m+1])
            PROVE  <<x, y>> \in R
        <5>1. PICK i \in 1..m : x \in Elements(ss[i])
          OBVIOUS
        <5>2. i \in DOMAIN ss /\ m + 1 \in DOMAIN ss /\ i < m + 1
          BY <1>1, <3>1
        <5>3. QED
          BY <5>1, <5>2 DEF AreInOrder, AllBefore
      <4>. HIDE DEF Upto
      <4>2. QED
        BY <2>3, <4>1 DEF AllBefore, Good
    <3>5. InOrder(ss[m+1], R) /\ ss[m+1] \in Seq(E)
      BY <1>1, <3>1 DEF AreInOrder
    <3>6. flat[m] \in Seq(E) /\ Elements(flat[m]) = Upto(m) /\ InOrder(flat[m], R)
      BY <2>3 DEF Good
    <3>. HIDE DEF Upto
    <3>7. /\ flat[m] \o ss[m+1] \in Seq(E)
          /\ Elements(flat[m] \o ss[m+1]) = Elements(flat[m]) \cup Elements(ss[m+1])
          /\ InOrder(flat[m] \o ss[m+1], R)
      BY <3>4, <3>5, <3>6, Appended
    <3>8. QED
      BY <3>2, <3>3, <3>6, <3>7 DEF Good
  <2>4. 0 \in S
    BY <2>2
  <2>5. ASSUME NEW k \in Nat, k \in S
        PROVE  k + 1 \in S
    <3>1. SUFFICES ASSUME (k + 1) + 1 =< N PROVE Good((k + 1) + 1)
      OBVIOUS
    <3>2. k + 1 \in Nat \ {0} /\ k + 1 =< N
      BY <1>1, <3>1
    <3>3. QED
      BY <2>3, <2>5, <3>1, <3>2
  <2>6. N - 1 \in S
    <3>1. N - 1 \in Nat
      BY <1>1, <1>3
    <3>. HIDE DEF S
    <3>2. QED
      BY <2>4, <2>5, <3>1, SetInduction
  <2>7. Good(N)
    <3>1. N - 1 \in Nat /\ (N - 1) + 1 = N /\ N =< N
      BY <1>1, <1>3
    <3>. HIDE DEF N
    <3>2. QED
      BY <2>6, <3>1
  <2>8. QED
    BY <1>1, <2>1, <2>7 DEF Good
<1>4. QED
  BY <1>2, <1>3
-----------------------------------------------------------------------------
(* Names and spin components. *)

(* The table of the two-spin variables, power by power, as the generator
   fills it. *)
LEMMA PairRows ==
  /\ Pairs[0] = << <<0, 0>> >>
  /\ Pairs[1] = << <<1, 0>>, <<0, 1>> >>
  /\ Pairs[2] = << <<2, 0>>, <<1, 1>>, <<0, 2>> >>
  /\ Pairs[3] = << <<3, 0>>, <<2, 1>>, <<1, 2>>, <<0, 3>> >>
BY DEF Pairs, MaxSourceOrder

(* The table of the variable with three components. *)
LEMMA TripleRows ==
  /\ Triples[0] = << <<0, 0, 0>> >>
  /\ Triples[1] = << <<1, 0, 0>>, <<0, 1, 0>>, <<0, 0, 1>> >>
  /\ Triples[2] = << <<2, 0, 0>>, <<1, 1, 0>>, <<1, 0, 1>>,
                     <<0, 2, 0>>, <<0, 1, 1>>, <<0, 0, 2>> >>
  /\ Triples[3] = << <<3, 0, 0>>, <<2, 1, 0>>, <<2, 0, 1>>, <<1, 2, 0>>,
                          <<1, 1, 1>>, <<1, 0, 2>>, <<0, 3, 0>>, <<0, 2, 1>>,
                          <<0, 1, 2>>, <<0, 0, 3>> >>
BY DEF Triples, MaxSourceOrder

(* The names of the derivatives as the generator lists them, order by order. *)
LEMMA PartialRows ==
  /\ Partials[0] = << << >> >>
  /\ Partials[1] = << <<RHO>>, <<SIGMA>>, <<LAPL>>, <<TAU>> >>
  /\ Partials[2] = << <<RHO, RHO>>, <<RHO, SIGMA>>, <<RHO, LAPL>>, <<RHO, TAU>>,
               <<SIGMA, SIGMA>>, <<SIGMA, LAPL>>, <<SIGMA, TAU>>,
               <<LAPL, LAPL>>, <<LAPL, TAU>>, <<TAU, TAU>> >>
  /\ Partials[3] = << <<RHO, RHO, RHO>>, <<RHO, RHO, SIGMA>>, <<RHO, RHO, LAPL>>,
               <<RHO, RHO, TAU>>, <<RHO, SIGMA, SIGMA>>, <<RHO, SIGMA, LAPL>>,
               <<RHO, SIGMA, TAU>>, <<RHO, LAPL, LAPL>>, <<RHO, LAPL, TAU>>,
               <<RHO, TAU, TAU>>, <<SIGMA, SIGMA, SIGMA>>,
               <<SIGMA, SIGMA, LAPL>>, <<SIGMA, SIGMA, TAU>>,
               <<SIGMA, LAPL, LAPL>>, <<SIGMA, LAPL, TAU>>, <<SIGMA, TAU, TAU>>,
               <<LAPL, LAPL, LAPL>>, <<LAPL, LAPL, TAU>>, <<LAPL, TAU, TAU>>,
               <<TAU, TAU, TAU>> >>
BY DEF Partials, MaxSourceOrder

(* The number of spin components of a variable of two components ... *)
LEMMA PairTable ==
  ASSUME NEW p \in 0..3
  PROVE  Len(Pairs[p]) = p + 1 /\ Len(Pairs[p]) = GroupSize(2, p)
<1>1. /\ Len(Pairs[0]) = 1 /\ Len(Pairs[1]) = 2
      /\ Len(Pairs[2]) = 3 /\ Len(Pairs[3]) = 4
  BY PairRows
<1>2. CASE p = 0
  <2>1. Len(Pairs[p]) = 1
    BY <1>1, <1>2
  <2>2. GroupSize(2, p) = 1
    BY <1>2, GroupSizes
  <2>3. QED
    BY <1>2, <2>1, <2>2
<1>3. CASE p = 1
  <2>1. Len(Pairs[p]) = 2
    BY <1>1, <1>3
  <2>2. GroupSize(2, p) = 2
    BY <1>3, GroupSizes
  <2>3. QED
    BY <1>3, <2>1, <2>2
<1>4. CASE p = 2
  <2>1. Len(Pairs[p]) = 3
    BY <1>1, <1>4
  <2>2. GroupSize(2, p) = 3
    BY <1>4, GroupSizes
  <2>3. QED
    BY <1>4, <2>1, <2>2
<1>5. CASE p = 3
  <2>1. Len(Pairs[p]) = 4
    BY <1>1, <1>5
  <2>2. GroupSize(2, p) = 4
    BY <1>5, GroupSizes
  <2>3. QED
    BY <1>5, <2>1, <2>2
<1>6. QED
  BY <1>2, <1>3, <1>4, <1>5

(* ... and of sigma. *)
LEMMA TripleTable ==
  ASSUME NEW p \in 0..3
  PROVE  Len(Triples[p]) = GroupSize(3, p) /\ Len(Triples[p]) \in Nat \ {0}
<1>1. /\ Len(Triples[0]) = 1 /\ Len(Triples[1]) = 3
      /\ Len(Triples[2]) = 6 /\ Len(Triples[3]) = 10
  BY TripleRows
<1>2. CASE p = 0
  <2>1. Len(Triples[p]) = 1
    BY <1>1, <1>2
  <2>2. GroupSize(3, p) = 1
    BY <1>2, GroupSizes
  <2>3. QED
    BY <1>2, <2>1, <2>2
<1>3. CASE p = 1
  <2>1. Len(Triples[p]) = 3
    BY <1>1, <1>3
  <2>2. GroupSize(3, p) = 3
    BY <1>3, GroupSizes
  <2>3. QED
    BY <1>3, <2>1, <2>2
<1>4. CASE p = 2
  <2>1. Len(Triples[p]) = 6
    BY <1>1, <1>4
  <2>2. GroupSize(3, p) = 6
    BY <1>4, GroupSizes
  <2>3. QED
    BY <1>4, <2>1, <2>2
<1>5. CASE p = 3
  <2>1. Len(Triples[p]) = 10
    BY <1>1, <1>5
  <2>2. GroupSize(3, p) = 10
    BY <1>5, GroupSizes
  <2>3. QED
    BY <1>5, <2>1, <2>2
<1>6. QED
  BY <1>2, <1>3, <1>4, <1>5
-----------------------------------------------------------------------------
(* The powers of the variables of a name. *)
LEMMA PowersOfSplit ==
  ASSUME NEW name, NEW r, NEW s, NEW t, IsSplit(name, r, s, t)
  PROVE  /\ Power(name, RHO) = r /\ Power(name, SIGMA) = s
         /\ Power(name, LAPL) = 0 /\ Power(name, TAU) = t
<1>1. /\ DOMAIN name = 1..r+s+t /\ r \in Nat /\ s \in Nat /\ t \in Nat
      /\ \A i \in 1..r+s+t :
           name[i] = IF i =< r THEN RHO ELSE IF i =< r + s THEN SIGMA ELSE TAU
  BY DEF IsSplit
<1>2. /\ {i \in DOMAIN name : name[i] = RHO} = 1..r
      /\ {i \in DOMAIN name : name[i] = SIGMA} = r+1..r+s
      /\ {i \in DOMAIN name : name[i] = LAPL} = {}
      /\ {i \in DOMAIN name : name[i] = TAU} = r+s+1..r+s+t
  BY <1>1 DEF RHO, SIGMA, LAPL, TAU
<1>3. /\ 1 \in Int /\ r \in Int /\ r + 1 \in Int /\ r + s \in Int
      /\ r + s + 1 \in Int /\ r + s + t \in Int
  BY <1>1
<1>4. \A a, b \in Int : Cardinality(a..b) = IF a > b THEN 0 ELSE b - a + 1
  BY FS_Interval
<1>5. /\ Cardinality(1..r) = r /\ Cardinality(r+1..r+s) = s
      /\ Cardinality(r+s+1..r+s+t) = t
  <2>. DEFINE a == r + 1
              b == r + s
              d == r + s + 1
              e == r + s + t
  <2>1. a \in Int /\ b \in Int /\ d \in Int /\ e \in Int
    BY <1>3
  <2>. HIDE DEF a, b, d, e
  <2>2. /\ Cardinality(1..r) = IF 1 > r THEN 0 ELSE r - 1 + 1
        /\ Cardinality(a..b) = IF a > b THEN 0 ELSE b - a + 1
        /\ Cardinality(d..e) = IF d > e THEN 0 ELSE e - d + 1
    BY <1>3, <1>4, <2>1
  <2>3. /\ a = r + 1 /\ b = r + s /\ d = b + 1 /\ e = b + t
    BY DEF a, b, d, e
  <2>4. /\ Cardinality(1..r) = r /\ Cardinality(a..b) = s /\ Cardinality(d..e) = t
    BY <1>1, <2>1, <2>2, <2>3
  <2>5. QED
    BY <2>4 DEF a, b, d, e
<1>6. QED
  BY <1>2, <1>5, FS_EmptySet DEF Power

(* A name with the laplacian has a power of it. *)
LEMMA PowerOfLaplacian ==
  ASSUME NEW name \in Seq(Nat), NEW i \in DOMAIN name, name[i] = LAPL
  PROVE  Power(name, LAPL) # 0
<1>. DEFINE S == {k \in DOMAIN name : name[k] = LAPL}
<1>1. IsFiniteSet(DOMAIN name)
  <2>1. DOMAIN name = 1..Len(name) /\ 1 \in Int /\ Len(name) \in Int
    OBVIOUS
  <2>2. QED
    BY <2>1, FS_Interval
<1>2. IsFiniteSet(S) /\ S # {}
  BY <1>1, FS_Subset
<1>3. QED
  BY <1>2, FS_EmptySet DEF Power

(* The names without the laplacian are some rho, some sigma and some tau ... *)
LEMMA SplitNames ==
  /\ IsSplit(<< >>, 0, 0, 0) /\ IsSplit(<<RHO>>, 1, 0, 0)
  /\ IsSplit(<<SIGMA>>, 0, 1, 0) /\ IsSplit(<<TAU>>, 0, 0, 1)
  /\ IsSplit(<<RHO, RHO>>, 2, 0, 0) /\ IsSplit(<<RHO, SIGMA>>, 1, 1, 0)
  /\ IsSplit(<<RHO, TAU>>, 1, 0, 1) /\ IsSplit(<<SIGMA, SIGMA>>, 0, 2, 0)
  /\ IsSplit(<<SIGMA, TAU>>, 0, 1, 1) /\ IsSplit(<<TAU, TAU>>, 0, 0, 2)
  /\ IsSplit(<<RHO, RHO, RHO>>, 3, 0, 0) /\ IsSplit(<<RHO, RHO, SIGMA>>, 2, 1, 0)
  /\ IsSplit(<<RHO, RHO, TAU>>, 2, 0, 1) /\ IsSplit(<<RHO, SIGMA, SIGMA>>, 1, 2, 0)
  /\ IsSplit(<<RHO, SIGMA, TAU>>, 1, 1, 1) /\ IsSplit(<<RHO, TAU, TAU>>, 1, 0, 2)
  /\ IsSplit(<<SIGMA, SIGMA, SIGMA>>, 0, 3, 0) /\ IsSplit(<<SIGMA, SIGMA, TAU>>, 0, 2, 1)
  /\ IsSplit(<<SIGMA, TAU, TAU>>, 0, 1, 2) /\ IsSplit(<<TAU, TAU, TAU>>, 0, 0, 3)
BY DEF IsSplit, RHO, SIGMA, TAU

(* ... and the others have a power of it. *)
LEMMA LaplacianNames ==
  ASSUME NEW a \in 0..3, NEW b \in 0..3
  PROVE  /\ Power(<<LAPL>>, LAPL) # 0
         /\ Power(<<a, LAPL>>, LAPL) # 0 /\ Power(<<LAPL, a>>, LAPL) # 0
         /\ Power(<<LAPL, a, b>>, LAPL) # 0 /\ Power(<<a, LAPL, b>>, LAPL) # 0
         /\ Power(<<a, b, LAPL>>, LAPL) # 0
<1>1. /\ <<LAPL>> \in Seq(Nat) /\ <<a, LAPL>> \in Seq(Nat) /\ <<LAPL, a>> \in Seq(Nat)
      /\ <<LAPL, a, b>> \in Seq(Nat) /\ <<a, LAPL, b>> \in Seq(Nat)
      /\ <<a, b, LAPL>> \in Seq(Nat)
  BY DEF LAPL
<1>2. /\ 1 \in DOMAIN <<LAPL>> /\ <<LAPL>>[1] = LAPL
      /\ 2 \in DOMAIN <<a, LAPL>> /\ <<a, LAPL>>[2] = LAPL
      /\ 1 \in DOMAIN <<LAPL, a>> /\ <<LAPL, a>>[1] = LAPL
      /\ 1 \in DOMAIN <<LAPL, a, b>> /\ <<LAPL, a, b>>[1] = LAPL
      /\ 2 \in DOMAIN <<a, LAPL, b>> /\ <<a, LAPL, b>>[2] = LAPL
      /\ 3 \in DOMAIN <<a, b, LAPL>> /\ <<a, b, LAPL>>[3] = LAPL
  OBVIOUS
<1>3. QED
  BY <1>1, <1>2, PowerOfLaplacian

(* A name of an order, as the tables of names list them. *)
IsName(name, order) ==
  /\ name \in Seq(Nat) /\ Len(name) = order
  /\ Power(name, LAPL) = 0 =>
       \E r, s, t \in 0..3 : r + s + t = order /\ IsSplit(name, r, s, t)

(* The names of an order without LAPL are the splits of it into powers of
   RHO, SIGMA and TAU, each once: one lemma for every order. *)
LEMMA NamesOfOrder0 ==
  /\ Len(Partials[0]) = 1
  /\ \A i \in 1..1 : IsName(Partials[0][i], 0)
  /\ \A r, s, t \in 0..3 : r + s + t = 0 => \E i \in 1..1 : IsSplit(Partials[0][i], r, s, t)
  /\ \A i, j \in 1..1 : Partials[0][i] = Partials[0][j] => i = j
<1>1. Len(Partials[0]) = 1
  BY PartialRows
<1>2. /\ Partials[0][1] = << >>
  BY PartialRows
<1>3. /\ IsSplit(Partials[0][1], 0, 0, 0)
  BY <1>2, SplitNames
<1>4. ASSUME NEW i \in 1..1 PROVE IsName(Partials[0][i], 0)
  <2>1. Partials[0][i] \in Seq(Nat) /\ Len(Partials[0][i]) = 0
    <3>. DEFINE Lists == {x \in Seq(Nat) : Len(x) = 0}
    <3>1. /\ Partials[0][1] \in Lists
      BY <1>2 DEF RHO, SIGMA, LAPL, TAU
    <3>. HIDE DEF Lists
    <3>2. Partials[0][i] \in Lists
      BY <3>1, SMTT(60)
    <3>3. QED
      BY <3>2 DEF Lists
  <2>2. QED
    BY <1>3, <2>1 DEF IsName
<1>5. \A r, s, t \in 0..3 : r + s + t = 0 => \E i \in 1..1 : IsSplit(Partials[0][i], r, s, t)
  <2>1. \A r, s, t \in 0..3 : r + s + t = 0 =>
          \/ r = 0 /\ s = 0 /\ t = 0
    OBVIOUS
  <2>2. QED
    BY <1>3, <2>1
<1>6. \A i, j \in 1..1 : Partials[0][i] = Partials[0][j] => i = j
  OBVIOUS
<1>7. QED
  BY <1>1, <1>4, <1>5, <1>6

(* Order 1. *)
LEMMA NamesOfOrder1 ==
  /\ Len(Partials[1]) = 4
  /\ \A i \in 1..4 : IsName(Partials[1][i], 1)
  /\ \A r, s, t \in 0..3 : r + s + t = 1 => \E i \in 1..4 : IsSplit(Partials[1][i], r, s, t)
  /\ \A i, j \in 1..4 : Partials[1][i] = Partials[1][j] => i = j
<1>1. Len(Partials[1]) = 4
  BY PartialRows
<1>2. /\ Partials[1][1] = <<RHO>> /\ Partials[1][2] = <<SIGMA>>
      /\ Partials[1][3] = <<LAPL>> /\ Partials[1][4] = <<TAU>>
  BY PartialRows
<1>3. /\ IsSplit(Partials[1][1], 1, 0, 0) /\ IsSplit(Partials[1][2], 0, 1, 0)
      /\ IsSplit(Partials[1][4], 0, 0, 1)
  BY <1>2, SplitNames
<1>4. ASSUME NEW i \in 1..4 PROVE IsName(Partials[1][i], 1)
  <2>1. Partials[1][i] \in Seq(Nat) /\ Len(Partials[1][i]) = 1
    <3>. DEFINE Lists == {x \in Seq(Nat) : Len(x) = 1}
    <3>1. /\ Partials[1][1] \in Lists /\ Partials[1][2] \in Lists
          /\ Partials[1][3] \in Lists /\ Partials[1][4] \in Lists
      BY <1>2 DEF RHO, SIGMA, LAPL, TAU
    <3>. HIDE DEF Lists
    <3>2. Partials[1][i] \in Lists
      BY <3>1, SMTT(60)
    <3>3. QED
      BY <3>2 DEF Lists
  <2>2. /\ Power(Partials[1][3], LAPL) # 0
    BY <1>2, LaplacianNames DEF RHO, SIGMA, LAPL, TAU
  <2>3. Power(Partials[1][i], LAPL) = 0 => i \in {1, 2, 4}
    BY <2>2, SMTT(60)
  <2>4. ASSUME i \in {1, 2, 4}
        PROVE  \E r, s, t \in 0..3 : r + s + t = 1 /\ IsSplit(Partials[1][i], r, s, t)
    BY <1>3, <2>4, SMTT(60)
  <2>5. QED
    BY <2>1, <2>3, <2>4 DEF IsName
<1>5. \A r, s, t \in 0..3 : r + s + t = 1 => \E i \in 1..4 : IsSplit(Partials[1][i], r, s, t)
  <2>1. \A r, s, t \in 0..3 : r + s + t = 1 =>
          \/ r = 1 /\ s = 0 /\ t = 0
          \/ r = 0 /\ s = 1 /\ t = 0
          \/ r = 0 /\ s = 0 /\ t = 1
    OBVIOUS
  <2>2. QED
    BY <1>3, <2>1
<1>6. \A i, j \in 1..4 : Partials[1][i] = Partials[1][j] => i = j
  <2>. DEFINE code(name) == 1 * name[1]
  <2>1. /\ code(Partials[1][1]) = 0 /\ code(Partials[1][2]) = 1
        /\ code(Partials[1][3]) = 2 /\ code(Partials[1][4]) = 3
    BY <1>2 DEF RHO, SIGMA, LAPL, TAU
  <2>. HIDE DEF code
  <2>2. ASSUME NEW i \in 1..4, NEW j \in 1..4, code(Partials[1][i]) = code(Partials[1][j])
        PROVE  i = j
    BY <2>1, <2>2, SMTT(60)
  <2>3. QED
    BY <2>2
<1>7. QED
  BY <1>1, <1>4, <1>5, <1>6

(* Order 2. *)
LEMMA NamesOfOrder2 ==
  /\ Len(Partials[2]) = 10
  /\ \A i \in 1..10 : IsName(Partials[2][i], 2)
  /\ \A r, s, t \in 0..3 : r + s + t = 2 => \E i \in 1..10 : IsSplit(Partials[2][i], r, s, t)
  /\ \A i, j \in 1..10 : Partials[2][i] = Partials[2][j] => i = j
<1>1. Len(Partials[2]) = 10
  BY PartialRows
<1>2. /\ Partials[2][1] = <<RHO, RHO>> /\ Partials[2][2] = <<RHO, SIGMA>>
      /\ Partials[2][3] = <<RHO, LAPL>> /\ Partials[2][4] = <<RHO, TAU>>
      /\ Partials[2][5] = <<SIGMA, SIGMA>> /\ Partials[2][6] = <<SIGMA, LAPL>>
      /\ Partials[2][7] = <<SIGMA, TAU>> /\ Partials[2][8] = <<LAPL, LAPL>>
      /\ Partials[2][9] = <<LAPL, TAU>> /\ Partials[2][10] = <<TAU, TAU>>
  BY PartialRows
<1>3. /\ IsSplit(Partials[2][1], 2, 0, 0) /\ IsSplit(Partials[2][2], 1, 1, 0)
      /\ IsSplit(Partials[2][4], 1, 0, 1) /\ IsSplit(Partials[2][5], 0, 2, 0)
      /\ IsSplit(Partials[2][7], 0, 1, 1) /\ IsSplit(Partials[2][10], 0, 0, 2)
  BY <1>2, SplitNames
<1>4. ASSUME NEW i \in 1..10 PROVE IsName(Partials[2][i], 2)
  <2>1. Partials[2][i] \in Seq(Nat) /\ Len(Partials[2][i]) = 2
    <3>. DEFINE Lists == {x \in Seq(Nat) : Len(x) = 2}
    <3>1. /\ Partials[2][1] \in Lists /\ Partials[2][2] \in Lists
          /\ Partials[2][3] \in Lists /\ Partials[2][4] \in Lists
          /\ Partials[2][5] \in Lists /\ Partials[2][6] \in Lists
          /\ Partials[2][7] \in Lists /\ Partials[2][8] \in Lists
          /\ Partials[2][9] \in Lists /\ Partials[2][10] \in Lists
      BY <1>2 DEF RHO, SIGMA, LAPL, TAU
    <3>. HIDE DEF Lists
    <3>2. Partials[2][i] \in Lists
      BY <3>1, SMTT(60)
    <3>3. QED
      BY <3>2 DEF Lists
  <2>2. /\ Power(Partials[2][3], LAPL) # 0 /\ Power(Partials[2][6], LAPL) # 0
        /\ Power(Partials[2][8], LAPL) # 0 /\ Power(Partials[2][9], LAPL) # 0
    BY <1>2, LaplacianNames DEF RHO, SIGMA, LAPL, TAU
  <2>3. Power(Partials[2][i], LAPL) = 0 => i \in {1, 2, 4, 5, 7, 10}
    BY <2>2, SMTT(60)
  <2>4. ASSUME i \in {1, 2, 4, 5, 7, 10}
        PROVE  \E r, s, t \in 0..3 : r + s + t = 2 /\ IsSplit(Partials[2][i], r, s, t)
    BY <1>3, <2>4, SMTT(60)
  <2>5. QED
    BY <2>1, <2>3, <2>4 DEF IsName
<1>5. \A r, s, t \in 0..3 : r + s + t = 2 => \E i \in 1..10 : IsSplit(Partials[2][i], r, s, t)
  <2>1. \A r, s, t \in 0..3 : r + s + t = 2 =>
          \/ r = 2 /\ s = 0 /\ t = 0
          \/ r = 1 /\ s = 1 /\ t = 0
          \/ r = 1 /\ s = 0 /\ t = 1
          \/ r = 0 /\ s = 2 /\ t = 0
          \/ r = 0 /\ s = 1 /\ t = 1
          \/ r = 0 /\ s = 0 /\ t = 2
    OBVIOUS
  <2>2. QED
    BY <1>3, <2>1
<1>6. \A i, j \in 1..10 : Partials[2][i] = Partials[2][j] => i = j
  <2>. DEFINE code(name) == 4 * name[1] + 1 * name[2]
  <2>1. /\ code(Partials[2][1]) = 0 /\ code(Partials[2][2]) = 1
        /\ code(Partials[2][3]) = 2 /\ code(Partials[2][4]) = 3
        /\ code(Partials[2][5]) = 5 /\ code(Partials[2][6]) = 6
        /\ code(Partials[2][7]) = 7 /\ code(Partials[2][8]) = 10
        /\ code(Partials[2][9]) = 11 /\ code(Partials[2][10]) = 15
    BY <1>2 DEF RHO, SIGMA, LAPL, TAU
  <2>. HIDE DEF code
  <2>2. ASSUME NEW i \in 1..10, NEW j \in 1..10, code(Partials[2][i]) = code(Partials[2][j])
        PROVE  i = j
    BY <2>1, <2>2, SMTT(60)
  <2>3. QED
    BY <2>2
<1>7. QED
  BY <1>1, <1>4, <1>5, <1>6

(* Order 3. *)
LEMMA NamesOfOrder3 ==
  /\ Len(Partials[3]) = 20
  /\ \A i \in 1..20 : IsName(Partials[3][i], 3)
  /\ \A r, s, t \in 0..3 : r + s + t = 3 => \E i \in 1..20 : IsSplit(Partials[3][i], r, s, t)
  /\ \A i, j \in 1..20 : Partials[3][i] = Partials[3][j] => i = j
<1>1. Len(Partials[3]) = 20
  BY PartialRows
<1>2. /\ Partials[3][1] = <<RHO, RHO, RHO>> /\ Partials[3][2] = <<RHO, RHO, SIGMA>>
      /\ Partials[3][3] = <<RHO, RHO, LAPL>> /\ Partials[3][4] = <<RHO, RHO, TAU>>
      /\ Partials[3][5] = <<RHO, SIGMA, SIGMA>> /\ Partials[3][6] = <<RHO, SIGMA, LAPL>>
      /\ Partials[3][7] = <<RHO, SIGMA, TAU>> /\ Partials[3][8] = <<RHO, LAPL, LAPL>>
      /\ Partials[3][9] = <<RHO, LAPL, TAU>> /\ Partials[3][10] = <<RHO, TAU, TAU>>
      /\ Partials[3][11] = <<SIGMA, SIGMA, SIGMA>> /\ Partials[3][12] = <<SIGMA, SIGMA, LAPL>>
      /\ Partials[3][13] = <<SIGMA, SIGMA, TAU>> /\ Partials[3][14] = <<SIGMA, LAPL, LAPL>>
      /\ Partials[3][15] = <<SIGMA, LAPL, TAU>> /\ Partials[3][16] = <<SIGMA, TAU, TAU>>
      /\ Partials[3][17] = <<LAPL, LAPL, LAPL>> /\ Partials[3][18] = <<LAPL, LAPL, TAU>>
      /\ Partials[3][19] = <<LAPL, TAU, TAU>> /\ Partials[3][20] = <<TAU, TAU, TAU>>
  BY PartialRows
<1>3. /\ IsSplit(Partials[3][1], 3, 0, 0) /\ IsSplit(Partials[3][2], 2, 1, 0)
      /\ IsSplit(Partials[3][4], 2, 0, 1) /\ IsSplit(Partials[3][5], 1, 2, 0)
      /\ IsSplit(Partials[3][7], 1, 1, 1) /\ IsSplit(Partials[3][10], 1, 0, 2)
      /\ IsSplit(Partials[3][11], 0, 3, 0) /\ IsSplit(Partials[3][13], 0, 2, 1)
      /\ IsSplit(Partials[3][16], 0, 1, 2) /\ IsSplit(Partials[3][20], 0, 0, 3)
  BY <1>2, SplitNames
<1>4. ASSUME NEW i \in 1..20 PROVE IsName(Partials[3][i], 3)
  <2>1. Partials[3][i] \in Seq(Nat) /\ Len(Partials[3][i]) = 3
    <3>. DEFINE Lists == {x \in Seq(Nat) : Len(x) = 3}
    <3>1. /\ Partials[3][1] \in Lists /\ Partials[3][2] \in Lists
          /\ Partials[3][3] \in Lists /\ Partials[3][4] \in Lists
          /\ Partials[3][5] \in Lists /\ Partials[3][6] \in Lists
          /\ Partials[3][7] \in Lists /\ Partials[3][8] \in Lists
          /\ Partials[3][9] \in Lists /\ Partials[3][10] \in Lists
          /\ Partials[3][11] \in Lists /\ Partials[3][12] \in Lists
          /\ Partials[3][13] \in Lists /\ Partials[3][14] \in Lists
          /\ Partials[3][15] \in Lists /\ Partials[3][16] \in Lists
          /\ Partials[3][17] \in Lists /\ Partials[3][18] \in Lists
          /\ Partials[3][19] \in Lists /\ Partials[3][20] \in Lists
      BY <1>2 DEF RHO, SIGMA, LAPL, TAU
    <3>. HIDE DEF Lists
    <3>2. Partials[3][i] \in Lists
      BY <3>1, SMTT(60)
    <3>3. QED
      BY <3>2 DEF Lists
  <2>2. /\ Power(Partials[3][3], LAPL) # 0 /\ Power(Partials[3][6], LAPL) # 0
        /\ Power(Partials[3][8], LAPL) # 0 /\ Power(Partials[3][9], LAPL) # 0
        /\ Power(Partials[3][12], LAPL) # 0 /\ Power(Partials[3][14], LAPL) # 0
        /\ Power(Partials[3][15], LAPL) # 0 /\ Power(Partials[3][17], LAPL) # 0
        /\ Power(Partials[3][18], LAPL) # 0 /\ Power(Partials[3][19], LAPL) # 0
    BY <1>2, LaplacianNames DEF RHO, SIGMA, LAPL, TAU
  <2>3. Power(Partials[3][i], LAPL) = 0 => i \in {1, 2, 4, 5, 7, 10, 11, 13, 16, 20}
    BY <2>2, SMTT(60)
  <2>4. ASSUME i \in {1, 2, 4, 5, 7, 10, 11, 13, 16, 20}
        PROVE  \E r, s, t \in 0..3 : r + s + t = 3 /\ IsSplit(Partials[3][i], r, s, t)
    BY <1>3, <2>4, SMTT(60)
  <2>5. QED
    BY <2>1, <2>3, <2>4 DEF IsName
<1>5. \A r, s, t \in 0..3 : r + s + t = 3 => \E i \in 1..20 : IsSplit(Partials[3][i], r, s, t)
  <2>1. \A r, s, t \in 0..3 : r + s + t = 3 =>
          \/ r = 3 /\ s = 0 /\ t = 0
          \/ r = 2 /\ s = 1 /\ t = 0
          \/ r = 2 /\ s = 0 /\ t = 1
          \/ r = 1 /\ s = 2 /\ t = 0
          \/ r = 1 /\ s = 1 /\ t = 1
          \/ r = 1 /\ s = 0 /\ t = 2
          \/ r = 0 /\ s = 3 /\ t = 0
          \/ r = 0 /\ s = 2 /\ t = 1
          \/ r = 0 /\ s = 1 /\ t = 2
          \/ r = 0 /\ s = 0 /\ t = 3
    OBVIOUS
  <2>2. QED
    BY <1>3, <2>1
<1>6. \A i, j \in 1..20 : Partials[3][i] = Partials[3][j] => i = j
  <2>. DEFINE code(name) == 16 * name[1] + 4 * name[2] + 1 * name[3]
  <2>1. /\ code(Partials[3][1]) = 0 /\ code(Partials[3][2]) = 1
        /\ code(Partials[3][3]) = 2 /\ code(Partials[3][4]) = 3
        /\ code(Partials[3][5]) = 5 /\ code(Partials[3][6]) = 6
        /\ code(Partials[3][7]) = 7 /\ code(Partials[3][8]) = 10
        /\ code(Partials[3][9]) = 11 /\ code(Partials[3][10]) = 15
        /\ code(Partials[3][11]) = 21 /\ code(Partials[3][12]) = 22
        /\ code(Partials[3][13]) = 23 /\ code(Partials[3][14]) = 26
        /\ code(Partials[3][15]) = 27 /\ code(Partials[3][16]) = 31
        /\ code(Partials[3][17]) = 42 /\ code(Partials[3][18]) = 43
        /\ code(Partials[3][19]) = 47 /\ code(Partials[3][20]) = 63
    BY <1>2 DEF RHO, SIGMA, LAPL, TAU
  <2>. HIDE DEF code
  <2>2. ASSUME NEW i \in 1..20, NEW j \in 1..20, code(Partials[3][i]) = code(Partials[3][j])
        PROVE  i = j
    BY <2>1, <2>2, SMTT(60)
  <2>3. QED
    BY <2>2
<1>7. QED
  BY <1>1, <1>4, <1>5, <1>6
-----------------------------------------------------------------------------
(* The derivatives of an order. *)

(* A name of an order whose derivatives are generated. *)
IsListed(name, order) ==
  \E r, s, t \in 0..3 : r + s + t = order /\ IsSplit(name, r, s, t)

(* How many of its components are. *)
Count(nspin, name) ==
  IF nspin = "POLARIZED" THEN Len(EnumerateSpinPartials(name)) ELSE 1

(* A component of a name. *)
Vector(name, number) == EnumerateSpinPartials(name)[number + 1].exponents

Derivative(name, number) ==
  [name |-> name, number |-> number, exponents |-> Vector(name, number)]

AllDerivatives == {Derivative(name, number) : name \in Seq(Nat), number \in Nat}

(* The components of a name come in the order of their numbers. *)
ByNumber ==
  {p \in AllDerivatives \X AllDerivatives :
     p[1].name = p[2].name => p[1].number < p[2].number}

(* Of any order every name is listed once. *)
LEMMA NamesOfOrder ==
  ASSUME NEW order \in 0..3
  PROVE  /\ Len(Partials[order]) \in Nat /\ DOMAIN Partials[order] = 1..Len(Partials[order])
         /\ \A i \in DOMAIN Partials[order] : IsName(Partials[order][i], order)
         /\ \A name : IsListed(name, order) =>
              \E i \in DOMAIN Partials[order] : Partials[order][i] = name
         /\ \A i, j \in DOMAIN Partials[order] :
              Partials[order][i] = Partials[order][j] => i = j
<1>1. \A name, r, s, t, other : IsSplit(name, r, s, t) /\ IsSplit(other, r, s, t) => name = other
  <2>1. ASSUME NEW name, NEW r, NEW s, NEW t, NEW other,
               IsSplit(name, r, s, t), IsSplit(other, r, s, t)
        PROVE  name = other
    BY <2>1 DEF IsSplit
  <2>2. QED
    BY <2>1
<1>2. CASE order = 0
  <2>1. DOMAIN Partials[0] = 1..1
    BY PartialRows
  <2>2. Len(Partials[order]) = 1 /\ DOMAIN Partials[order] = 1..1
    BY <1>2, <2>1, NamesOfOrder0
  <2>3. \A i \in 1..1 : IsName(Partials[order][i], order)
    BY <1>2, NamesOfOrder0
  <2>4. ASSUME NEW name, IsListed(name, order)
        PROVE  \E i \in 1..1 : Partials[order][i] = name
    <3>1. PICK r \in 0..3, s \in 0..3, t \in 0..3 :
            r + s + t = order /\ IsSplit(name, r, s, t)
      BY <2>4 DEF IsListed
    <3>2. \E i \in 1..1 : IsSplit(Partials[order][i], r, s, t)
      BY <1>2, <3>1, NamesOfOrder0
    <3>3. QED
      BY <1>1, <3>1, <3>2
  <2>5. \A i, j \in 1..1 : Partials[order][i] = Partials[order][j] => i = j
    BY <1>2, NamesOfOrder0
  <2>6. \A name : IsListed(name, order) => \E i \in 1..1 : Partials[order][i] = name
    BY <2>4
  <2>. DEFINE names == Partials[order]
  <2>7. Len(names) \in Nat /\ DOMAIN names = 1..Len(names)
    BY <2>2
  <2>. HIDE DEF names
  <2>8. QED
    BY <2>2, <2>3, <2>5, <2>6, <2>7, Zenon DEF names
<1>3. CASE order = 1
  <2>1. DOMAIN Partials[1] = 1..4
    BY PartialRows
  <2>2. Len(Partials[order]) = 4 /\ DOMAIN Partials[order] = 1..4
    BY <1>3, <2>1, NamesOfOrder1
  <2>3. \A i \in 1..4 : IsName(Partials[order][i], order)
    BY <1>3, NamesOfOrder1
  <2>4. ASSUME NEW name, IsListed(name, order)
        PROVE  \E i \in 1..4 : Partials[order][i] = name
    <3>1. PICK r \in 0..3, s \in 0..3, t \in 0..3 :
            r + s + t = order /\ IsSplit(name, r, s, t)
      BY <2>4 DEF IsListed
    <3>2. \E i \in 1..4 : IsSplit(Partials[order][i], r, s, t)
      BY <1>3, <3>1, NamesOfOrder1
    <3>3. QED
      BY <1>1, <3>1, <3>2
  <2>5. \A i, j \in 1..4 : Partials[order][i] = Partials[order][j] => i = j
    BY <1>3, NamesOfOrder1
  <2>6. \A name : IsListed(name, order) => \E i \in 1..4 : Partials[order][i] = name
    BY <2>4
  <2>. DEFINE names == Partials[order]
  <2>7. Len(names) \in Nat /\ DOMAIN names = 1..Len(names)
    BY <2>2
  <2>. HIDE DEF names
  <2>8. QED
    BY <2>2, <2>3, <2>5, <2>6, <2>7, Zenon DEF names
<1>4. CASE order = 2
  <2>1. DOMAIN Partials[2] = 1..10
    BY PartialRows
  <2>2. Len(Partials[order]) = 10 /\ DOMAIN Partials[order] = 1..10
    BY <1>4, <2>1, NamesOfOrder2
  <2>3. \A i \in 1..10 : IsName(Partials[order][i], order)
    BY <1>4, NamesOfOrder2
  <2>4. ASSUME NEW name, IsListed(name, order)
        PROVE  \E i \in 1..10 : Partials[order][i] = name
    <3>1. PICK r \in 0..3, s \in 0..3, t \in 0..3 :
            r + s + t = order /\ IsSplit(name, r, s, t)
      BY <2>4 DEF IsListed
    <3>2. \E i \in 1..10 : IsSplit(Partials[order][i], r, s, t)
      BY <1>4, <3>1, NamesOfOrder2
    <3>3. QED
      BY <1>1, <3>1, <3>2
  <2>5. \A i, j \in 1..10 : Partials[order][i] = Partials[order][j] => i = j
    BY <1>4, NamesOfOrder2
  <2>6. \A name : IsListed(name, order) => \E i \in 1..10 : Partials[order][i] = name
    BY <2>4
  <2>. DEFINE names == Partials[order]
  <2>7. Len(names) \in Nat /\ DOMAIN names = 1..Len(names)
    BY <2>2
  <2>. HIDE DEF names
  <2>8. QED
    BY <2>2, <2>3, <2>5, <2>6, <2>7, Zenon DEF names
<1>5. CASE order = 3
  <2>1. DOMAIN Partials[3] = 1..20
    BY PartialRows
  <2>2. Len(Partials[order]) = 20 /\ DOMAIN Partials[order] = 1..20
    BY <1>5, <2>1, NamesOfOrder3
  <2>3. \A i \in 1..20 : IsName(Partials[order][i], order)
    BY <1>5, NamesOfOrder3
  <2>4. ASSUME NEW name, IsListed(name, order)
        PROVE  \E i \in 1..20 : Partials[order][i] = name
    <3>1. PICK r \in 0..3, s \in 0..3, t \in 0..3 :
            r + s + t = order /\ IsSplit(name, r, s, t)
      BY <2>4 DEF IsListed
    <3>2. \E i \in 1..20 : IsSplit(Partials[order][i], r, s, t)
      BY <1>5, <3>1, NamesOfOrder3
    <3>3. QED
      BY <1>1, <3>1, <3>2
  <2>5. \A i, j \in 1..20 : Partials[order][i] = Partials[order][j] => i = j
    BY <1>5, NamesOfOrder3
  <2>6. \A name : IsListed(name, order) => \E i \in 1..20 : Partials[order][i] = name
    BY <2>4
  <2>. DEFINE names == Partials[order]
  <2>7. Len(names) \in Nat /\ DOMAIN names = 1..Len(names)
    BY <2>2
  <2>. HIDE DEF names
  <2>8. QED
    BY <2>2, <2>3, <2>5, <2>6, <2>7, Zenon DEF names
<1>6. QED
  BY <1>2, <1>3, <1>4, <1>5

(* The components of a name are numbered as they are enumerated. *)
LEMMA Enumerated ==
  ASSUME NEW name, NEW r, NEW s, NEW t, IsSplit(name, r, s, t)
  PROVE  /\ EnumerateSpinPartials(name) \in Seq(AllDerivatives)
         /\ Len(EnumerateSpinPartials(name)) = SplitSize("POLARIZED", r, s, t)
         /\ Len(EnumerateSpinPartials(name)) \in Nat \ {0}
         /\ \A k \in 1..Len(EnumerateSpinPartials(name)) :
              EnumerateSpinPartials(name)[k] = Derivative(name, k - 1)
<1>. DEFINE all == EnumerateSpinPartials(name)
            a == Len(Pairs[r])
            b == Len(Triples[s])
            c == Len(Pairs[t])
            M == a * b * (Len(Pairs[0]) * c)
<1>1. /\ r \in 0..3 /\ s \in 0..3 /\ t \in 0..3 /\ name \in Seq(Nat)
      /\ Power(name, RHO) = r /\ Power(name, SIGMA) = s
      /\ Power(name, LAPL) = 0 /\ Power(name, TAU) = t
  <2>1. r \in 0..3 /\ s \in 0..3 /\ t \in 0..3 /\ name \in Seq(Nat)
    BY DEF IsSplit
  <2>2. QED
    BY <2>1, PowersOfSplit
<1>2. all = [k \in 1..M |-> [name |-> name, number |-> k - 1, exponents |-> all[k].exponents]]
  BY <1>1 DEF EnumerateSpinPartials
<1>3. /\ a \in Nat \ {0} /\ b \in Nat \ {0} /\ c \in Nat \ {0} /\ Len(Pairs[0]) = 1
      /\ a = GroupSize(2, r) /\ b = GroupSize(3, s) /\ c = GroupSize(2, t)
  <2>1. a = r + 1 /\ a = GroupSize(2, r)
    BY <1>1, PairTable
  <2>4. c = t + 1 /\ c = GroupSize(2, t)
    BY <1>1, PairTable
  <2>5. Len(Pairs[0]) = 1
    BY PairRows
  <2>2. b = GroupSize(3, s) /\ b \in Nat \ {0}
    BY <1>1, TripleTable
  <2>. HIDE DEF a, b, c
  <2>3. QED
    BY <1>1, <2>1, <2>2, <2>4, <2>5
<1>4. M \in Nat \ {0} /\ M = SplitSize("POLARIZED", r, s, t)
  <2>1. SplitSize("POLARIZED", r, s, t) = a * b * c
    BY <1>3, Dims DEF SplitSize
  <2>. HIDE DEF a, b, c
  <2>2. a * b \in Nat \ {0}
    BY <1>3
  <2>3. 1 * c = c /\ (a * b) * c \in Nat \ {0}
    BY <1>3, <2>2
  <2>4. QED
    BY <1>3, <2>1, <2>3
<1>. HIDE DEF M, all
<1>5. ASSUME NEW k \in 1..M
      PROVE  all[k] = Derivative(name, k - 1) /\ all[k] \in AllDerivatives
  <2>1. k - 1 \in Nat /\ (k - 1) + 1 = k
    BY <1>4
  <2>2. all[k] = [name |-> name, number |-> k - 1, exponents |-> all[k].exponents]
    BY <1>2
  <2>3. Vector(name, k - 1) = all[k].exponents
    BY <2>1 DEF Vector, all
  <2>4. all[k] = Derivative(name, k - 1)
    BY <2>2, <2>3 DEF Derivative
  <2>5. QED
    BY <1>1, <2>1, <2>4 DEF AllDerivatives
<1>6. all \in Seq(AllDerivatives) /\ Len(all) = M
  <2>1. all = [k \in 1..M |-> all[k]]
    BY <1>2
  <2>2. QED
    BY <1>4, <1>5, <2>1
<1>7. QED
  BY <1>4, <1>5, <1>6 DEF all

(* What a name is in the list with. *)
Part(nspin, name) == ForSpins(nspin, EnumerateSpinPartials(name))

(* What a name adds to the list of derivatives. *)
LEMMA PartOfName ==
  ASSUME NEW nspin \in Spins, NEW order, NEW name, IsListed(name, order)
  PROVE  /\ Power(name, LAPL) = 0 /\ name \in Seq(Nat) /\ Len(name) = order
         /\ Count(nspin, name) \in Nat \ {0}
         /\ Count(nspin, name) =< Len(EnumerateSpinPartials(name))
         /\ Part(nspin, name) \in Seq(AllDerivatives)
         /\ Len(Part(nspin, name)) = Count(nspin, name)
         /\ \A k \in 1..Count(nspin, name) : Part(nspin, name)[k] = Derivative(name, k - 1)
<1>1. PICK r \in 0..3, s \in 0..3, t \in 0..3 : r + s + t = order /\ IsSplit(name, r, s, t)
  BY DEF IsListed
<1>2. Power(name, LAPL) = 0 /\ name \in Seq(Nat) /\ Len(name) = order
  <2>1. name \in Seq(Nat) /\ Len(name) = order
    BY <1>1 DEF IsSplit
  <2>2. QED
    BY <1>1, <2>1, PowersOfSplit
<1>. DEFINE all == EnumerateSpinPartials(name)
            m == IF nspin = "POLARIZED" THEN Len(all) ELSE 1
<1>3. /\ all \in Seq(AllDerivatives) /\ Len(all) \in Nat \ {0}
      /\ \A k \in 1..Len(all) : all[k] = Derivative(name, k - 1)
  BY <1>1, Enumerated
<1>4. m \in Nat \ {0} /\ m =< Len(all) /\ Count(nspin, name) = m
  BY <1>3 DEF Count
<1>5. Part(nspin, name) = SubSeq(all, 1, m)
  BY DEF Part, ForSpins
<1>. HIDE DEF all, m
<1>6. /\ SubSeq(all, 1, m) \in Seq(AllDerivatives) /\ Len(SubSeq(all, 1, m)) = m
      /\ \A k \in 1..m : SubSeq(all, 1, m)[k] = all[k]
  BY <1>3, <1>4
<1>7. \A k \in 1..m : k \in 1..Len(all)
  BY <1>3, <1>4
<1>8. QED
  BY <1>2, <1>3, <1>4, <1>5, <1>6, <1>7 DEF all

(* What a list of derivatives consists of. *)
IsListOf(ds, nspin, order) ==
  /\ ds \in Seq(AllDerivatives)
  /\ \A d \in Elements(ds) :
       \E name : IsListed(name, order) /\ \E c \in 0..Count(nspin, name)-1 :
         d = Derivative(name, c)
  /\ \A name : IsListed(name, order) =>
       \A c \in 0..Count(nspin, name)-1 : Derivative(name, c) \in Elements(ds)
  /\ InOrder(ds, ByNumber)

(* The list of the derivatives of an order has those of every name, and no
   others. *)
LEMMA DerivativesListed ==
  ASSUME NEW nspin \in Spins, NEW order \in 0..3
  PROVE  IsListOf(Derivatives(nspin, order), nspin, order)
<1>. DEFINE names == Partials[order]
            N == Len(names)
            part(i) == When(Power(names[i], LAPL) = 0, Part(nspin, names[i]))
            ss == [i \in 1..N |-> part(i)]
<1>1. /\ N \in Nat /\ DOMAIN names = 1..N
      /\ \A i \in 1..N : IsName(names[i], order)
      /\ \A name : IsListed(name, order) => \E i \in 1..N : names[i] = name
      /\ \A i, j \in 1..N : names[i] = names[j] => i = j
  <2>1. /\ Len(names) \in Nat /\ DOMAIN names = 1..Len(names)
        /\ \A i \in DOMAIN names : IsName(names[i], order)
        /\ \A name : IsListed(name, order) => \E i \in DOMAIN names : names[i] = name
        /\ \A i, j \in DOMAIN names : names[i] = names[j] => i = j
    BY NamesOfOrder
  <2>. HIDE DEF names
  <2>2. QED
    BY <2>1
<1>2. Derivatives(nspin, order) = FlattenSeq(ss)
  BY <1>1 DEF Derivatives, Part
<1>. HIDE DEF N, names
<1>3. ASSUME NEW i \in 1..N
      PROVE  \/ part(i) = << >> /\ ~IsListed(names[i], order)
             \/ part(i) = Part(nspin, names[i]) /\ IsListed(names[i], order)
  <2>1. CASE Power(names[i], LAPL) = 0
    BY <1>1, <2>1 DEF IsName, IsListed, When
  <2>2. CASE Power(names[i], LAPL) # 0
    BY <2>2, PartOfName DEF When
  <2>3. QED
    BY <2>1, <2>2
<1>. HIDE DEF part
<1>4. ASSUME NEW i \in 1..N, IsListed(names[i], order)
      PROVE  /\ part(i) \in Seq(AllDerivatives) /\ Count(nspin, names[i]) \in Nat \ {0}
             /\ DOMAIN part(i) = 1..Count(nspin, names[i])
             /\ \A k \in 1..Count(nspin, names[i]) : part(i)[k] = Derivative(names[i], k - 1)
  <2>1. part(i) = Part(nspin, names[i])
    BY <1>3, <1>4
  <2>2. /\ Count(nspin, names[i]) \in Nat \ {0}
        /\ Part(nspin, names[i]) \in Seq(AllDerivatives)
        /\ Len(Part(nspin, names[i])) = Count(nspin, names[i])
        /\ \A k \in 1..Count(nspin, names[i]) :
             Part(nspin, names[i])[k] = Derivative(names[i], k - 1)
    BY <1>4, PartOfName
  <2>3. QED
    BY <2>1, <2>2
<1>5. ASSUME NEW i \in 1..N, NEW x \in Elements(part(i))
      PROVE  /\ IsListed(names[i], order)
             /\ \E k \in 1..Count(nspin, names[i]) : x = Derivative(names[i], k - 1)
  <2>1. PICK k \in DOMAIN part(i) : x = part(i)[k]
    BY DEF Elements
  <2>2. IsListed(names[i], order)
    BY <1>3, <2>1
  <2>3. QED
    BY <1>4, <2>1, <2>2
<1>6. ss \in Seq(Seq(AllDerivatives)) /\ DOMAIN ss = 1..N /\ \A i \in 1..N : ss[i] = part(i)
  <2>1. \A i \in 1..N : part(i) \in Seq(AllDerivatives)
    <3>1. << >> \in Seq(AllDerivatives)
      OBVIOUS
    <3>2. QED
      BY <1>3, <1>4, <3>1, Zenon
  <2>2. QED
    BY <1>1, <2>1
<1>. HIDE DEF ss
<1>7. ASSUME NEW i \in 1..N, NEW x \in Elements(part(i))
      PROVE  x \in AllDerivatives /\ x.name = names[i]
  <2>1. PICK k \in 1..Count(nspin, names[i]) : x = Derivative(names[i], k - 1)
    BY <1>5
  <2>2. x \in AllDerivatives
    <3>1. PICK j \in DOMAIN part(i) : x = part(i)[j]
      BY DEF Elements
    <3>2. part(i) \in Seq(AllDerivatives)
      BY <1>4, <1>5
    <3>3. QED
      BY <3>1, <3>2
  <2>3. QED
    BY <2>1, <2>2 DEF Derivative
<1>8. AreInOrder(ss, ByNumber)
  <2>1. ASSUME NEW i \in 1..N PROVE InOrder(part(i), ByNumber)
    <3>1. SUFFICES ASSUME NEW j \in DOMAIN part(i), NEW k \in DOMAIN part(i), j < k
                   PROVE  <<part(i)[j], part(i)[k]>> \in ByNumber
      BY DEF InOrder
    <3>2. IsListed(names[i], order)
      BY <1>3, <3>1
    <3>3. /\ j \in 1..Count(nspin, names[i]) /\ k \in 1..Count(nspin, names[i])
          /\ part(i)[j] = Derivative(names[i], j - 1)
          /\ part(i)[k] = Derivative(names[i], k - 1)
          /\ Count(nspin, names[i]) \in Nat
      BY <1>4, <3>1, <3>2
    <3>4. part(i)[j].number = j - 1 /\ part(i)[k].number = k - 1
      BY <3>3 DEF Derivative
    <3>5. part(i)[j] \in AllDerivatives /\ part(i)[k] \in AllDerivatives
      BY <1>4, <3>1, <3>2
    <3>6. part(i)[j].number < part(i)[k].number
      BY <3>1, <3>3, <3>4
    <3>7. QED
      BY <3>5, <3>6 DEF ByNumber
  <2>2. ASSUME NEW i \in 1..N, NEW j \in 1..N, i < j
        PROVE  AllBefore(part(i), part(j), ByNumber)
    <3>1. SUFFICES ASSUME NEW x \in Elements(part(i)), NEW y \in Elements(part(j))
                   PROVE  <<x, y>> \in ByNumber
      BY DEF AllBefore
    <3>2. names[i] # names[j]
      BY <1>1, <2>2
    <3>3. QED
      BY <1>7, <3>2 DEF ByNumber
  <2>3. QED
    BY <1>6, <2>1, <2>2 DEF AreInOrder
<1>. DEFINE ds == FlattenSeq(ss)
<1>9. /\ ds \in Seq(AllDerivatives) /\ InOrder(ds, ByNumber)
      /\ Elements(ds) = UNION {Elements(part(i)) : i \in 1..N}
  <2>1. /\ FlattenSeq(ss) \in Seq(AllDerivatives) /\ InOrder(FlattenSeq(ss), ByNumber)
        /\ Elements(FlattenSeq(ss)) = UNION {Elements(ss[i]) : i \in DOMAIN ss}
    BY <1>6, <1>8, Flattened
  <2>2. {Elements(ss[i]) : i \in DOMAIN ss} = {Elements(part(i)) : i \in 1..N}
    BY <1>6
  <2>3. QED
    BY <2>1, <2>2
<1>. HIDE DEF ds
<1>10. ASSUME NEW d \in Elements(ds)
       PROVE  \E name : IsListed(name, order) /\ \E c \in 0..Count(nspin, name)-1 :
                d = Derivative(name, c)
  <2>1. PICK i \in 1..N : d \in Elements(part(i))
    BY <1>9
  <2>2. PICK k \in 1..Count(nspin, names[i]) : d = Derivative(names[i], k - 1)
    BY <1>5, <2>1
  <2>3. k - 1 \in 0..Count(nspin, names[i])-1
    BY <1>4, <1>5, <2>1
  <2>4. QED
    BY <1>5, <2>1, <2>2, <2>3
<1>11. ASSUME NEW name, IsListed(name, order), NEW c \in 0..Count(nspin, name)-1
       PROVE  Derivative(name, c) \in Elements(ds)
  <2>1. PICK i \in 1..N : names[i] = name
    BY <1>1, <1>11
  <2>2. Count(nspin, name) \in Nat
    BY <1>4, <1>11, <2>1
  <2>3. c + 1 \in 1..Count(nspin, name) /\ (c + 1) - 1 = c
    BY <2>2
  <2>4. part(i)[c+1] = Derivative(name, c) /\ c + 1 \in DOMAIN part(i)
    BY <1>4, <1>11, <2>1, <2>3
  <2>5. Derivative(name, c) \in Elements(part(i))
    BY <2>4 DEF Elements
  <2>6. QED
    BY <1>9, <2>5
<1>12. QED
  BY <1>2, <1>9, <1>10, <1>11 DEF IsListOf, ds

(* The output of a feature for a component of a name. *)
Output(name, c, n, f) ==
  [name |-> name, exponents |-> Vector(name, c), index |-> c * n + f]

AllOutputs(n) == {Output(name, c, n, f) : name \in Seq(Nat), c \in Nat, f \in 0..n-1}

(* Outputs come order after order, and those of a name by their index. *)
Earlier(n) ==
  {p \in AllOutputs(n) \X AllOutputs(n) :
     /\ Len(p[1].name) =< Len(p[2].name)
     /\ p[1].name = p[2].name => p[1].index < p[2].index}

IsOutputOf(x, nspin, n, order) ==
  \E name : IsListed(name, order) /\
    \E c \in 0..Count(nspin, name)-1 : \E f \in 0..n-1 : x = Output(name, c, n, f)

(* A list of all the outputs of some orders. *)
ListsOutputs(outs, nspin, n, orders) ==
  /\ outs \in Seq(AllOutputs(n))
  /\ \A x : x \in Elements(outs) <=> \E order \in orders : IsOutputOf(x, nspin, n, order)
  /\ InOrder(outs, Earlier(n))

(* The index of an output grows with the component and then with the feature. *)
LEMMA IndexOrder ==
  ASSUME NEW n \in Nat \ {0}, NEW c \in Nat, NEW d \in Nat, NEW f \in 0..n-1, NEW g \in 0..n-1,
         c < d \/ (c = d /\ f < g)
  PROVE  c * n + f < d * n + g
<1>1. CASE c = d /\ f < g
  <2>1. c * n \in Nat
    OBVIOUS
  <2>. DEFINE m == c * n
  <2>2. d * n = m
    BY <1>1
  <2>. HIDE DEF m
  <2>3. m + f < m + g
    BY <1>1, <2>1 DEF m
  <2>4. QED
    BY <2>2, <2>3 DEF m
<1>2. CASE c < d
  <2>1. PICK e \in Nat : d = c + 1 + e
    <3>1. d - c - 1 \in Nat /\ d = c + 1 + (d - c - 1)
      BY <1>2
    <3>2. QED
      BY <3>1
  <2>. DEFINE m == c * n
              k == e * n
  <2>2. m \in Nat /\ k \in Nat
    OBVIOUS
  <2>3. d * n = m + n + k
    BY <2>1
  <2>. HIDE DEF m, k
  <2>4. m + f < m + n + k + g
    BY <2>2
  <2>5. QED
    BY <2>3, <2>4 DEF m
<1>3. QED
  BY <1>1, <1>2

(* What an output is made of. *)
LEMMA OutputParts ==
  ASSUME NEW n \in Nat \ {0}, NEW name \in Seq(Nat), NEW c \in Nat, NEW f \in 0..n-1
  PROVE  /\ Output(name, c, n, f) \in AllOutputs(n)
         /\ Output(name, c, n, f).name = name
         /\ Output(name, c, n, f).exponents = Vector(name, c)
         /\ Output(name, c, n, f).index = c * n + f
BY DEF Output, AllOutputs

(* An element of the list of derivatives. *)
IsListedDerivative(d, nspin, order) ==
  /\ IsListed(d.name, order) /\ d.number \in 0..Count(nspin, d.name)-1
  /\ d.name \in Seq(Nat) /\ Len(d.name) = order
  /\ d.number \in Nat /\ Count(nspin, d.name) \in Nat
  /\ d.exponents = Vector(d.name, d.number)

(* Every derivative listed is one of a name of the order. *)
LEMMA ListedDerivatives ==
  ASSUME NEW nspin \in Spins, NEW order \in 0..3
  PROVE  /\ Len(Derivatives(nspin, order)) \in Nat
         /\ DOMAIN Derivatives(nspin, order) = 1..Len(Derivatives(nspin, order))
         /\ \A i \in DOMAIN Derivatives(nspin, order) :
              IsListedDerivative(Derivatives(nspin, order)[i], nspin, order)
<1>. DEFINE ds == Derivatives(nspin, order)
            N == Len(ds)
<1>1. IsListOf(ds, nspin, order)
  BY DerivativesListed
<1>. HIDE DEF ds
<1>2. N \in Nat /\ DOMAIN ds = 1..N
  BY <1>1 DEF IsListOf
<1>3. ASSUME NEW i \in 1..N
      PROVE  IsListedDerivative(ds[i], nspin, order)
  <2>1. PICK name : IsListed(name, order) /\ \E c \in 0..Count(nspin, name)-1 :
                      ds[i] = Derivative(name, c)
    BY <1>1, <1>2 DEF IsListOf, Elements
  <2>2. PICK c \in 0..Count(nspin, name)-1 : ds[i] = Derivative(name, c)
    BY <2>1
  <2>3. ds[i].name = name /\ ds[i].number = c /\ ds[i].exponents = Vector(name, c)
    BY <2>2 DEF Derivative
  <2>4. name \in Seq(Nat) /\ Len(name) = order /\ Count(nspin, name) \in Nat
    BY <2>1, PartOfName
  <2>5. QED
    BY <2>1, <2>2, <2>3, <2>4 DEF IsListedDerivative
<1>4. QED
  BY <1>2, <1>3 DEF ds

(* The outputs of a derivative, one of every feature. *)
OutputsOf(d, n) == [f \in 1..n |-> Output(d.name, d.number, n, f - 1)]

(* The outputs of an order are those of its derivatives, one after the other. *)
LEMMA OutputsFlattened ==
  ASSUME NEW nspin \in Spins, NEW n \in Nat \ {0}, NEW order \in 0..3
  PROVE  FeatureOutputs(nspin, n, order) =
           FlattenSeq([i \in 1..Len(Derivatives(nspin, order)) |->
                         OutputsOf(Derivatives(nspin, order)[i], n)])
<1>. DEFINE ds == Derivatives(nspin, order)
            N == Len(ds)
            ofDerivative(d) ==
              [f \in 1..n |-> [name |-> d.name, exponents |-> d.exponents,
                               index |-> FlattenFeatureOutput(d.number, n, f - 1)]]
            tt == [i \in DOMAIN ds |-> ofDerivative(ds[i])]
            ss == [i \in 1..N |-> OutputsOf(ds[i], n)]
<1>1. FeatureOutputs(nspin, n, order) = FlattenSeq(tt)
  BY DEF FeatureOutputs
<1>2. DOMAIN ds = 1..N /\ \A i \in 1..N : ds[i].exponents = Vector(ds[i].name, ds[i].number)
  BY ListedDerivatives DEF IsListedDerivative
<1>. HIDE DEF ds
<1>3. \A i \in 1..N : ofDerivative(ds[i]) = OutputsOf(ds[i], n)
  BY <1>2 DEF Output, OutputsOf, FlattenFeatureOutput
<1>. HIDE DEF ofDerivative, N
<1>4. tt = ss
  BY <1>2, <1>3
<1>5. QED
  BY <1>1, <1>4 DEF ds, N

(* The outputs of an order have every component and feature of every name. *)
LEMMA FeatureOutputsListed ==
  ASSUME NEW nspin \in Spins, NEW n \in Nat \ {0}, NEW order \in 0..3
  PROVE  ListsOutputs(FeatureOutputs(nspin, n, order), nspin, n, {order})
<1>. DEFINE ds == Derivatives(nspin, order)
            N == Len(ds)
            part(i) == [f \in 1..n |-> Output(ds[i].name, ds[i].number, n, f - 1)]
            ss == [i \in 1..N |-> part(i)]
<1>1. IsListOf(ds, nspin, order)
  BY DerivativesListed
<1>2. N \in Nat /\ DOMAIN ds = 1..N
  BY ListedDerivatives
<1>3. ASSUME NEW i \in 1..N
      PROVE  /\ IsListed(ds[i].name, order) /\ ds[i].number \in 0..Count(nspin, ds[i].name)-1
             /\ ds[i].name \in Seq(Nat) /\ Len(ds[i].name) = order
             /\ ds[i].number \in Nat /\ Count(nspin, ds[i].name) \in Nat
             /\ ds[i].exponents = Vector(ds[i].name, ds[i].number)
  <2>1. i \in DOMAIN ds
    BY <1>2
  <2>2. IsListedDerivative(ds[i], nspin, order)
    BY <2>1, ListedDerivatives
  <2>3. QED
    BY <2>2 DEF IsListedDerivative
<1>4. FeatureOutputs(nspin, n, order) = FlattenSeq(ss)
  BY OutputsFlattened DEF OutputsOf
<1>. HIDE DEF ds
<1>. DEFINE out(i, f) == Output(ds[i].name, ds[i].number, n, f)
<1>5. ASSUME NEW i \in 1..N, NEW f \in 0..n-1
      PROVE  /\ out(i, f) \in AllOutputs(n) /\ out(i, f).name = ds[i].name
             /\ out(i, f).index = ds[i].number * n + f
             /\ Len(out(i, f).name) = order
  <2>1. ds[i].name \in Seq(Nat) /\ ds[i].number \in Nat /\ Len(ds[i].name) = order
    BY <1>3
  <2>2. /\ out(i, f) \in AllOutputs(n) /\ out(i, f).name = ds[i].name
        /\ out(i, f).index = ds[i].number * n + f
    <3>. DEFINE name == ds[i].name
                c == ds[i].number
    <3>1. name \in Seq(Nat) /\ c \in Nat
      BY <2>1
    <3>. HIDE DEF name, c
    <3>2. /\ Output(name, c, n, f) \in AllOutputs(n) /\ Output(name, c, n, f).name = name
          /\ Output(name, c, n, f).index = c * n + f
      BY <3>1, OutputParts
    <3>3. QED
      BY <3>2 DEF name, c
  <2>. HIDE DEF out
  <2>3. QED
    BY <2>1, <2>2
<1>. HIDE DEF out
<1>6. \A i \in 1..N : /\ part(i) \in Seq(AllOutputs(n)) /\ DOMAIN part(i) = 1..n
                      /\ \A f \in 1..n : part(i)[f] = out(i, f - 1) /\ f - 1 \in 0..n-1
  <2>1. \A f \in 1..n : f - 1 \in 0..n-1
    OBVIOUS
  <2>2. \A i \in 1..N : part(i) = [f \in 1..n |-> out(i, f - 1)]
    BY DEF out
  <2>. HIDE DEF part
  <2>3. ASSUME NEW i \in 1..N
        PROVE  /\ part(i) \in Seq(AllOutputs(n)) /\ DOMAIN part(i) = 1..n
               /\ \A f \in 1..n : part(i)[f] = out(i, f - 1) /\ f - 1 \in 0..n-1
    <3>. DEFINE s == part(i)
    <3>1. s = [f \in 1..n |-> out(i, f - 1)]
      BY <2>2
    <3>2. \A f \in 1..n : out(i, f - 1) \in AllOutputs(n)
      BY <1>5, <2>1
    <3>. HIDE DEF s
    <3>3. DOMAIN s = 1..n /\ \A f \in 1..n : s[f] = out(i, f - 1)
      BY <3>1
    <3>4. s \in Seq(AllOutputs(n))
      BY <3>1, <3>2
    <3>5. QED
      BY <2>1, <3>3, <3>4 DEF s
  <2>4. QED
    BY <2>3
<1>. HIDE DEF part, N
<1>7. ss \in Seq(Seq(AllOutputs(n))) /\ DOMAIN ss = 1..N /\ \A i \in 1..N : ss[i] = part(i)
  BY <1>2, <1>6
<1>. HIDE DEF ss
<1>8. AreInOrder(ss, Earlier(n))
  <2>1. ASSUME NEW i \in 1..N PROVE InOrder(part(i), Earlier(n))
    <3>1. SUFFICES ASSUME NEW f \in 1..n, NEW g \in 1..n, f < g
                   PROVE  <<out(i, f - 1), out(i, g - 1)>> \in Earlier(n)
      BY <1>6 DEF InOrder
    <3>2. f - 1 \in 0..n-1 /\ g - 1 \in 0..n-1 /\ f - 1 < g - 1
      BY <3>1
    <3>. DEFINE k == f - 1
                l == g - 1
    <3>. HIDE DEF k, l
    <3>3. k \in 0..n-1 /\ l \in 0..n-1 /\ k < l
      BY <3>2 DEF k, l
    <3>4. ds[i].number * n + k < ds[i].number * n + l
      BY <1>3, <3>3, IndexOrder
    <3>5. /\ Len(out(i, k).name) = order /\ Len(out(i, l).name) = order
          /\ out(i, k).index < out(i, l).index
          /\ out(i, k) \in AllOutputs(n) /\ out(i, l) \in AllOutputs(n)
      BY <1>5, <3>3, <3>4
    <3>6. <<out(i, k), out(i, l)>> \in Earlier(n)
      BY <3>5 DEF Earlier
    <3>7. QED
      BY <3>6 DEF k, l
  <2>2. ASSUME NEW i \in 1..N, NEW j \in 1..N, i < j
        PROVE  AllBefore(part(i), part(j), Earlier(n))
    <3>1. SUFFICES ASSUME NEW f \in 0..n-1, NEW g \in 0..n-1
                   PROVE  <<out(i, f), out(j, g)>> \in Earlier(n)
      BY <1>6 DEF AllBefore, Elements
    <3>2. CASE ds[i].name = ds[j].name
      <4>1. <<ds[i], ds[j]>> \in ByNumber
        BY <1>1, <1>2, <2>2 DEF IsListOf, InOrder
      <4>2. ds[i].number < ds[j].number
        BY <3>2, <4>1 DEF ByNumber
      <4>3. ds[i].number * n + f < ds[j].number * n + g
        BY <1>3, <4>2, IndexOrder
      <4>4. QED
        BY <1>5, <4>3 DEF Earlier
    <3>3. CASE ds[i].name # ds[j].name
      BY <1>5, <3>3 DEF Earlier
    <3>4. QED
      BY <3>2, <3>3
  <2>3. QED
    BY <1>7, <2>1, <2>2 DEF AreInOrder
<1>. DEFINE outs == FlattenSeq(ss)
<1>9. /\ outs \in Seq(AllOutputs(n)) /\ InOrder(outs, Earlier(n))
      /\ Elements(outs) = UNION {Elements(part(i)) : i \in 1..N}
  <2>1. /\ FlattenSeq(ss) \in Seq(AllOutputs(n)) /\ InOrder(FlattenSeq(ss), Earlier(n))
        /\ Elements(FlattenSeq(ss)) = UNION {Elements(ss[i]) : i \in DOMAIN ss}
    BY <1>7, <1>8, Flattened
  <2>2. {Elements(ss[i]) : i \in DOMAIN ss} = {Elements(part(i)) : i \in 1..N}
    BY <1>7
  <2>3. QED
    BY <2>1, <2>2
<1>. HIDE DEF outs
<1>10. ASSUME NEW x \in Elements(outs)
       PROVE  IsOutputOf(x, nspin, n, order)
  <2>1. PICK i \in 1..N : x \in Elements(part(i))
    BY <1>9
  <2>2. PICK f \in 1..n : x = out(i, f - 1)
    BY <1>6, <2>1 DEF Elements
  <2>3. f - 1 \in 0..n-1
    OBVIOUS
  <2>4. QED
    BY <1>3, <2>2, <2>3 DEF IsOutputOf, out
<1>11. ASSUME NEW x, IsOutputOf(x, nspin, n, order)
       PROVE  x \in Elements(outs)
  <2>1. PICK name : IsListed(name, order) /\
               \E c \in 0..Count(nspin, name)-1 : \E f \in 0..n-1 : x = Output(name, c, n, f)
    BY <1>11 DEF IsOutputOf
  <2>2. PICK c \in 0..Count(nspin, name)-1, f \in 0..n-1 : x = Output(name, c, n, f)
    BY <2>1
  <2>3. Derivative(name, c) \in Elements(ds)
    BY <1>1, <2>1, <2>2 DEF IsListOf
  <2>4. PICK i \in 1..N : ds[i] = Derivative(name, c)
    BY <1>2, <2>3 DEF Elements
  <2>5. ds[i].name = name /\ ds[i].number = c
    BY <2>4 DEF Derivative
  <2>6. f + 1 \in 1..n /\ (f + 1) - 1 = f
    OBVIOUS
  <2>7. part(i)[f + 1] = x /\ f + 1 \in DOMAIN part(i)
    BY <1>6, <2>2, <2>5, <2>6 DEF out
  <2>8. x \in Elements(part(i))
    BY <2>7 DEF Elements
  <2>9. QED
    BY <1>9, <2>8
<1>12. QED
  BY <1>4, <1>9, <1>10, <1>11 DEF ListsOutputs, outs
-----------------------------------------------------------------------------
(* Cutting the outputs into batches. *)

(* Two runs of one group that meet are one run. *)
LEMMA GroupRuns ==
  ASSUME NEW outputs
  PROVE  /\ \A i \in Nat : SameGroup(outputs, i, i)
         /\ \A i, j, k \in Nat : i =< j /\ j =< k =>
              (SameGroup(outputs, i, k) <=>
                 SameGroup(outputs, i, j) /\ SameGroup(outputs, j, k))
<1>1. \A i \in Nat : SameGroup(outputs, i, i)
  BY DEF SameGroup
<1>2. ASSUME NEW i \in Nat, NEW j \in Nat, NEW k \in Nat, i =< j, j =< k
      PROVE  SameGroup(outputs, i, k) <=>
               SameGroup(outputs, i, j) /\ SameGroup(outputs, j, k)
  <2>. DEFINE e(m) == outputs[m].exponents
  <2>. HIDE DEF e
  <2>1. /\ SameGroup(outputs, i, k) <=> \A m \in i..k : e(m) = e(i)
        /\ SameGroup(outputs, i, j) <=> \A m \in i..j : e(m) = e(i)
        /\ SameGroup(outputs, j, k) <=> \A m \in j..k : e(m) = e(j)
    BY DEF SameGroup, e
  <2>2. /\ j \in i..j /\ j \in i..k
        /\ \A m \in i..k : m \in i..j \/ m \in j..k
        /\ \A m \in i..j : m \in i..k
        /\ \A m \in j..k : m \in i..k
    BY <1>2
  <2>3. QED
    BY <2>1, <2>2
<1>3. QED
  BY <1>1, <1>2

(* A place has one start of its group, which all places of the run have. *)
LEMMA GroupStarts ==
  ASSUME NEW outputs, NEW i \in Nat \ {0}
  PROVE  /\ GroupStart(outputs, i) \in 1..i
         /\ SameGroup(outputs, GroupStart(outputs, i), i)
         /\ \A j \in Nat : i =< j /\ SameGroup(outputs, i, j) =>
              GroupStart(outputs, j) = GroupStart(outputs, i)
<1>. DEFINE Same(k, l) == SameGroup(outputs, k, l)
            Is(g, k) == Same(g, k) /\ (g = 1 \/ ~Same(g - 1, k))
<1>. HIDE DEF Same
<1>1. /\ \A k \in Nat : Same(k, k)
      /\ \A k, l, m \in Nat : k =< l /\ l =< m => (Same(k, m) <=> Same(k, l) /\ Same(l, m))
  BY GroupRuns DEF Same
<1>2. \A k : GroupStart(outputs, k) = CHOOSE g \in 1..k : Is(g, k)
  BY DEF GroupStart, Same
<1>3. \E g \in 1..i : Is(g, i)
  <2>. DEFINE T == {g \in 1..i : Same(g, i)}
  <2>1. i \in T /\ T \in SUBSET Nat
    BY <1>1
  <2>2. PICK g \in T : \A h \in T : g =< h
    <3>. HIDE DEF T
    <3>1. T # {}
      BY <2>1
    <3>2. QED
      BY <2>1, <3>1, LeastNumber
  <2>3. g = 1 \/ (g - 1 \in 1..i /\ ~(g =< g - 1))
    OBVIOUS
  <2>4. QED
    BY <2>2, <2>3
<1>4. ASSUME NEW k \in Nat \ {0}, NEW g \in 1..k, NEW h \in 1..k, Is(g, k), Is(h, k)
      PROVE  ~(g < h)
  <2>1. SUFFICES ASSUME g < h PROVE FALSE
    OBVIOUS
  <2>2. h # 1 /\ h - 1 \in Nat /\ g \in Nat /\ g =< h - 1 /\ h - 1 =< k
    BY <2>1
  <2>3. Same(h - 1, k)
    BY <1>1, <1>4, <2>2
  <2>4. QED
    BY <1>4, <2>2, <2>3
<1>. DEFINE g == GroupStart(outputs, i)
<1>5. g \in 1..i /\ Is(g, i)
  <2>. HIDE DEF Is
  <2>1. QED
    BY <1>2, <1>3
<1>. HIDE DEF g
<1>6. ASSUME NEW j \in Nat, i =< j, Same(i, j)
      PROVE  GroupStart(outputs, j) = g
  <2>1. g \in 1..j /\ j \in Nat \ {0} /\ g \in Nat
    BY <1>5, <1>6
  <2>2. Is(g, j)
    <3>1. Same(g, j)
      BY <1>1, <1>5, <1>6, <2>1
    <3>2. CASE g # 1
      <4>1. g - 1 \in Nat /\ g - 1 =< i
        BY <1>5
      <4>2. Same(g - 1, j) => Same(g - 1, i)
        BY <1>1, <1>6, <4>1
      <4>3. QED
        BY <1>5, <3>1, <4>2
    <3>3. QED
      BY <3>1, <3>2
  <2>. DEFINE h == GroupStart(outputs, j)
  <2>3. h \in 1..j /\ Is(h, j)
    <3>. HIDE DEF Is
    <3>1. QED
      BY <1>2, <2>1, <2>2
  <2>. HIDE DEF h, Is
  <2>4. ~(g < h) /\ ~(h < g)
    BY <1>4, <2>1, <2>2, <2>3
  <2>5. QED
    BY <2>1, <2>3, <2>4 DEF h
<1>7. QED
  BY <1>5, <1>6 DEF g, Same

(* The places a batch starts at, and the place it ends at. *)
Starts(outputs, order, i) ==
  IF order > 0 THEN (i - GroupStart(outputs, i)) % BatchSize = 0
  ELSE i = GroupStart(outputs, i)

Ends(outputs, order, i, j) ==
  /\ SameGroup(outputs, i, j)
  /\ order > 0 => j < i + BatchSize
  /\ \/ j = Len(outputs)
     \/ ~SameGroup(outputs, i, j + 1)
     \/ order > 0 /\ j + 1 = i + BatchSize

EndOf(outputs, order, i) == CHOOSE j \in i..Len(outputs) : Ends(outputs, order, i, j)

(* The search for the end of a batch stops where its condition does. *)
LEMMA BatchEnds ==
  ASSUME NEW outputs, Len(outputs) \in Nat, NEW order \in Nat, NEW i \in 1..Len(outputs)
  PROVE  EndOf(outputs, order, i) \in i..Len(outputs)
         /\ Ends(outputs, order, i, EndOf(outputs, order, i))
<1>. DEFINE N == Len(outputs)
            Same(k, l) == SameGroup(outputs, k, l)
            stops(j) == \/ j = N
                        \/ ~Same(i, j + 1)
                        \/ order > 0 /\ j + 1 = i + 4
            T == {j \in i..N : stops(j)}
<1>1. Same(i, i)
  BY GroupRuns
<1>. HIDE DEF Same, N
<1>2. N \in Nat /\ i \in 1..N
  BY DEF N
<1>3. PICK j \in T : \A k \in T : j =< k
  <2>1. N \in T /\ T \in SUBSET Nat
    BY <1>2
  <2>. HIDE DEF T
  <2>2. T # {}
    BY <2>1
  <2>3. QED
    BY <2>1, <2>2, LeastNumber
<1>4. j \in i..N /\ stops(j) /\ \A k \in i..N : k < j => ~stops(k)
  BY <1>2, <1>3
<1>5. Same(i, j)
  <2>1. CASE j = i
    BY <1>1, <2>1
  <2>2. CASE j # i
    <3>1. j - 1 \in i..N /\ j - 1 < j /\ (j - 1) + 1 = j
      BY <1>2, <1>4, <2>2
    <3>2. QED
      BY <1>4, <3>1
  <2>3. QED
    BY <2>1, <2>2
<1>6. ASSUME order > 0 PROVE j < i + 4
  <2>1. SUFFICES ASSUME ~(j < i + 4) PROVE FALSE
    OBVIOUS
  <2>2. i + 3 \in i..N /\ i + 3 < j /\ (i + 3) + 1 = i + 4
    BY <1>2, <1>4, <2>1
  <2>3. QED
    BY <1>4, <1>6, <2>2
<1>7. Ends(outputs, order, i, j)
  BY <1>4, <1>5, <1>6 DEF Ends, Same, N, BatchSize
<1>8. QED
  BY <1>4, <1>7 DEF EndOf, N

(* The batches cover the outputs, and end before the next starts. *)
LEMMA BatchesTile ==
  ASSUME NEW outputs, Len(outputs) \in Nat, NEW order \in Nat
  PROVE  /\ \A i, k \in 1..Len(outputs) :
              Starts(outputs, order, i) /\ Starts(outputs, order, k) /\ i < k =>
                EndOf(outputs, order, i) < k
         /\ \A k \in 1..Len(outputs) : \E i \in 1..Len(outputs) :
              Starts(outputs, order, i) /\ k \in i..EndOf(outputs, order, i)
<1>. DEFINE N == Len(outputs)
            Same(k, l) == SameGroup(outputs, k, l)
            G(k) == GroupStart(outputs, k)
            End(k) == EndOf(outputs, order, k)
            Start(k) == IF order > 0 THEN (k - G(k)) % 4 = 0 ELSE k = G(k)
<1>1. /\ \A k \in Nat : Same(k, k)
      /\ \A k, l, m \in Nat : k =< l /\ l =< m => (Same(k, m) <=> Same(k, l) /\ Same(l, m))
  BY GroupRuns
<1>2. \A i \in Nat \ {0} :
        /\ G(i) \in 1..i /\ Same(G(i), i)
        /\ \A j \in Nat : i =< j /\ Same(i, j) => G(j) = G(i)
  BY GroupStarts
<1>3. \A i \in 1..N : 
        /\ End(i) \in i..N /\ Same(i, End(i))
        /\ order > 0 => End(i) < i + 4
        /\ End(i) = N \/ ~Same(i, End(i) + 1) \/ (order > 0 /\ End(i) + 1 = i + 4)
  BY BatchEnds DEF Ends, BatchSize
<1>4. \A i : Starts(outputs, order, i) <=> Start(i)
  BY DEF Starts, BatchSize
<1>5. N \in Nat
  OBVIOUS
<1>. HIDE DEF N, Same, G, End
<1>6. ASSUME NEW i \in 1..N, NEW k \in 1..N, Start(i), Start(k), i < k
      PROVE  End(i) < k
  <2>1. SUFFICES ASSUME ~(End(i) < k) PROVE FALSE
    OBVIOUS
  <2>2. i \in Nat /\ k \in Nat /\ End(i) \in Nat /\ i =< k /\ k =< End(i) /\ i \in Nat \ {0}
    BY <1>3, <1>5, <1>6, <2>1
  <2>3. Same(i, k)
    BY <1>1, <1>3, <2>2
  <2>4. G(k) = G(i) /\ G(i) \in 1..i
    BY <1>2, <2>2, <2>3
  <2>5. CASE order > 0
    <3>1. k < i + 4
      BY <1>3, <2>2, <2>5
    <3>2. (i - G(i)) % 4 = 0 /\ (k - G(i)) % 4 = 0
      BY <1>6, <2>4, <2>5
    <3>. DEFINE a == i - G(i)
                b == k - G(i)
    <3>3. a \in Nat /\ b \in Nat /\ a < b /\ b < a + 4
      BY <1>6, <2>2, <2>4, <3>1
    <3>. HIDE DEF a, b
    <3>4. a % 4 = 0 /\ b % 4 = 0
      BY <3>2 DEF a, b
    <3>5. QED
      BY <3>3, <3>4
  <2>6. CASE ~(order > 0)
    BY <1>6, <2>4, <2>6
  <2>7. QED
    BY <2>5, <2>6
<1>7. ASSUME NEW k \in 1..N
      PROVE  \E i \in 1..N : Start(i) /\ k \in i..End(i)
  <2>1. /\ k \in Nat \ {0} /\ k \in Nat /\ G(k) \in 1..k /\ G(k) \in Nat \ {0}
        /\ Same(G(k), k)
    BY <1>2, <1>5
  <2>. DEFINE i == IF order > 0 THEN k - ((k - G(k)) % 4) ELSE G(k)
  <2>2. /\ i \in Nat \ {0} /\ G(k) =< i /\ i =< k
        /\ order > 0 => k < i + 4
        /\ order > 0 => (i - G(k)) % 4 = 0
    <3>. DEFINE g == G(k)
    <3>1. g \in Nat \ {0} /\ g =< k
      BY <2>1
    <3>. HIDE DEF g
    <3>2. CASE order > 0
      <4>. DEFINE a == k - g
                  r == a % 4
      <4>1. a \in Nat /\ k = a + g
        BY <3>1
      <4>. HIDE DEF a
      <4>2. r \in 0..3 /\ r =< a /\ (a - r) % 4 = 0
        BY <4>1
      <4>. HIDE DEF r
      <4>3. i = k - r
        BY <3>2 DEF g, a, r
      <4>4. i - G(k) = a - r
        <5>1. i - g = a - r
          BY <3>1, <4>1, <4>2, <4>3
        <5>2. QED
          BY <5>1 DEF g
      <4>5. G(k) = g
        BY DEF g
      <4>6. (i - G(k)) % 4 = 0
        BY <4>2, <4>4
      <4>. HIDE DEF i
      <4>7. i \in Nat \ {0} /\ g =< i /\ i =< k /\ k < i + 4
        BY <3>1, <4>1, <4>2, <4>3
      <4>8. QED
        BY <4>5, <4>6, <4>7
    <3>3. CASE ~(order > 0)
      BY <3>1, <3>3 DEF g
    <3>4. QED
      BY <3>2, <3>3
  <2>. HIDE DEF i
  <2>3. i \in 1..N /\ i \in Nat
    BY <1>5, <2>1, <2>2
  <2>4. Same(G(k), i) /\ Same(i, k)
    BY <1>1, <2>1, <2>2, <2>3
  <2>5. G(i) = G(k)
    BY <1>2, <2>1, <2>2, <2>3, <2>4
  <2>6. Start(i)
    <3>1. ~(order > 0) => i = G(k)
      BY DEF i
    <3>2. QED
      BY <2>2, <2>5, <3>1
  <2>7. k =< End(i)
    <3>1. SUFFICES ASSUME ~(k =< End(i)) PROVE FALSE
      OBVIOUS
    <3>2. End(i) \in i..N /\ End(i) + 1 \in Nat /\ i =< End(i) + 1 /\ End(i) + 1 =< k
      BY <1>3, <1>5, <2>1, <2>3, <3>1
    <3>3. Same(i, End(i) + 1)
      BY <1>1, <2>1, <2>3, <2>4, <3>2
    <3>4. End(i) # N
      BY <1>5, <3>2
    <3>5. order > 0 /\ End(i) + 1 = i + 4
      BY <1>3, <2>3, <3>3, <3>4
    <3>6. QED
      BY <2>2, <2>3, <3>2, <3>5
  <2>8. k \in i..End(i)
    BY <1>3, <1>5, <2>1, <2>2, <2>3, <2>7
  <2>9. QED
    BY <2>3, <2>6, <2>8
<1>8. QED
  BY <1>4, <1>6, <1>7 DEF N, End

LessThan == {p \in Nat \X Nat : p[1] < p[2]}

(* The places batches start at, one after the other. *)
Firsts(outputs, order) ==
  FlattenSeq([i \in DOMAIN outputs |-> When(Starts(outputs, order, i), <<i>>)])

(* The outputs that start a batch are found in their order. *)
LEMMA StartsListed ==
  ASSUME NEW outputs, NEW N \in Nat, DOMAIN outputs = 1..N, NEW order \in Nat
  PROVE  /\ Firsts(outputs, order) \in Seq(Nat)
         /\ Elements(Firsts(outputs, order)) = {i \in 1..N : Starts(outputs, order, i)}
         /\ InOrder(Firsts(outputs, order), LessThan)
<1>. DEFINE part(i) == When(Starts(outputs, order, i), <<i>>)
            ss == [i \in 1..N |-> part(i)]
<1>1. Firsts(outputs, order) = FlattenSeq(ss)
  BY DEF Firsts
<1>2. ASSUME NEW i \in 1..N
      PROVE  /\ part(i) \in Seq(Nat) /\ InOrder(part(i), LessThan)
             /\ Elements(part(i)) = IF Starts(outputs, order, i) THEN {i} ELSE {}
  <2>1. CASE Starts(outputs, order, i)
    <3>1. part(i) = <<i>>
      BY <2>1 DEF When
    <3>. HIDE DEF part
    <3>2. DOMAIN part(i) = {1} /\ part(i)[1] = i /\ part(i) \in Seq(Nat)
      BY <3>1
    <3>3. QED
      BY <2>1, <3>2 DEF InOrder, Elements
  <2>2. CASE ~Starts(outputs, order, i)
    <3>1. part(i) = << >>
      BY <2>2 DEF When
    <3>. HIDE DEF part
    <3>2. DOMAIN part(i) = {} /\ part(i) \in Seq(Nat)
      BY <3>1
    <3>3. QED
      BY <2>2, <3>2 DEF InOrder, Elements
  <2>3. QED
    BY <2>1, <2>2
<1>. HIDE DEF part
<1>3. ss \in Seq(Seq(Nat)) /\ DOMAIN ss = 1..N /\ \A i \in 1..N : ss[i] = part(i)
  BY <1>2
<1>. HIDE DEF ss
<1>4. ASSUME NEW i \in 1..N, NEW j \in 1..N, i < j
      PROVE  AllBefore(part(i), part(j), LessThan)
  <2>1. ASSUME NEW x \in Elements(part(i)), NEW y \in Elements(part(j))
        PROVE  <<x, y>> \in LessThan
    <3>1. x = i /\ y = j
      BY <1>2
    <3>2. QED
      BY <1>4, <3>1 DEF LessThan
  <2>2. QED
    BY <2>1 DEF AllBefore
<1>5. AreInOrder(ss, LessThan)
  BY <1>2, <1>3, <1>4 DEF AreInOrder
<1>6. /\ FlattenSeq(ss) \in Seq(Nat) /\ InOrder(FlattenSeq(ss), LessThan)
      /\ Elements(FlattenSeq(ss)) = UNION {Elements(part(i)) : i \in 1..N}
  <2>1. /\ FlattenSeq(ss) \in Seq(Nat) /\ InOrder(FlattenSeq(ss), LessThan)
        /\ Elements(FlattenSeq(ss)) = UNION {Elements(ss[i]) : i \in DOMAIN ss}
    BY <1>3, <1>5, Flattened
  <2>2. {Elements(ss[i]) : i \in DOMAIN ss} = {Elements(part(i)) : i \in 1..N}
    BY <1>3
  <2>3. QED
    BY <2>1, <2>2
<1>7. UNION {Elements(part(i)) : i \in 1..N} = {i \in 1..N : Starts(outputs, order, i)}
  <2>. DEFINE U == UNION {Elements(part(i)) : i \in 1..N}
  <2>1. ASSUME NEW x \in U PROVE x \in 1..N /\ Starts(outputs, order, x)
    <3>1. PICK i \in 1..N : x \in Elements(part(i))
      OBVIOUS
    <3>2. QED
      BY <1>2, <3>1
  <2>2. ASSUME NEW x \in 1..N, Starts(outputs, order, x) PROVE x \in U
    <3>1. x \in Elements(part(x))
      BY <1>2, <2>2
    <3>2. QED
      BY <3>1
  <2>. HIDE DEF U
  <2>3. U = {i \in 1..N : Starts(outputs, order, i)}
    BY <2>1, <2>2
  <2>4. QED
    BY <2>3 DEF U
<1>8. QED
  BY <1>1, <1>6, <1>7

(* The batches of a list have its elements in its order. *)
LEMMA BatchesInOrder ==
  ASSUME NEW E, NEW R, NEW outputs \in Seq(E), InOrder(outputs, R), NEW order \in Nat
  PROVE  /\ CutIntoBatches(outputs, order) \in Seq(Seq(E))
         /\ AreInOrder(CutIntoBatches(outputs, order), R)
         /\ UNION {Elements(CutIntoBatches(outputs, order)[b]) :
                     b \in DOMAIN CutIntoBatches(outputs, order)} = Elements(outputs)
         /\ \A b \in DOMAIN CutIntoBatches(outputs, order) :
              CutIntoBatches(outputs, order)[b] # << >>
<1>. DEFINE N == Len(outputs)
            End(i) == EndOf(outputs, order, i)
            Is(i) == Starts(outputs, order, i)
            first == Firsts(outputs, order)
            cut == CutIntoBatches(outputs, order)
<1>1. N \in Nat /\ DOMAIN outputs = 1..N
  OBVIOUS
<1>2. cut = [b \in DOMAIN first |-> SubSeq(outputs, first[b], End(first[b]))]
  BY DEF CutIntoBatches, Firsts, Starts, EndOf, Ends
<1>3. /\ first \in Seq(Nat) /\ Elements(first) = {i \in 1..N : Is(i)}
      /\ InOrder(first, LessThan)
  <2>. HIDE DEF N
  <2>1. /\ Firsts(outputs, order) \in Seq(Nat)
        /\ Elements(Firsts(outputs, order)) = {i \in 1..N : Starts(outputs, order, i)}
        /\ InOrder(Firsts(outputs, order), LessThan)
    BY <1>1, StartsListed
  <2>2. QED
    BY <2>1
<1>4. /\ \A i \in 1..N : End(i) \in i..N
      /\ \A i, k \in 1..N : Is(i) /\ Is(k) /\ i < k => End(i) < k
      /\ \A k \in 1..N : \E i \in 1..N : Is(i) /\ k \in i..End(i)
  BY <1>1, BatchEnds, BatchesTile
<1>. HIDE DEF first, End, Is, cut, N
<1>5. ASSUME NEW b \in DOMAIN first
      PROVE  first[b] \in 1..N /\ Is(first[b]) /\ End(first[b]) \in first[b]..N
  BY <1>3, <1>4 DEF Elements
<1>. DEFINE s(b) == SubSeq(outputs, first[b], End(first[b]))
<1>6. ASSUME NEW i \in 1..N, NEW j \in i..N
      PROVE  /\ SubSeq(outputs, i, j) \in Seq(E)
             /\ DOMAIN SubSeq(outputs, i, j) = 1..(j - i + 1)
             /\ \A k \in 1..(j - i + 1) : SubSeq(outputs, i, j)[k] = outputs[i + k - 1]
  BY <1>1 DEF N
<1>7. ASSUME NEW b \in DOMAIN first
      PROVE  /\ s(b) \in Seq(E) /\ s(b) # << >> /\ InOrder(s(b), R)
             /\ Elements(s(b)) = {outputs[k] : k \in first[b]..End(first[b])}
  <2>. DEFINE i == first[b]
              j == End(first[b])
              u == SubSeq(outputs, i, j)
  <2>1. i \in 1..N /\ j \in i..N
    BY <1>5
  <2>. HIDE DEF i, j
  <2>2. /\ u \in Seq(E) /\ DOMAIN u = 1..(j - i + 1)
        /\ \A k \in 1..(j - i + 1) : u[k] = outputs[i + k - 1]
    BY <1>6, <2>1
  <2>. HIDE DEF u
  <2>3. u # << >>
    <3>1. 1 \in DOMAIN u
      BY <1>1, <2>1, <2>2
    <3>2. QED
      BY <3>1
  <2>4. Elements(u) = {outputs[k] : k \in i..j}
    <3>1. ASSUME NEW k \in 1..(j - i + 1) PROVE u[k] \in {outputs[l] : l \in i..j}
      <4>1. i + k - 1 \in i..j
        BY <1>1, <2>1
      <4>2. QED
        BY <2>2, <4>1
    <3>2. ASSUME NEW k \in i..j PROVE outputs[k] \in Elements(u)
      <4>1. k - i + 1 \in 1..(j - i + 1) /\ i + (k - i + 1) - 1 = k
        BY <1>1, <2>1
      <4>2. u[k - i + 1] = outputs[k]
        BY <2>2, <4>1
      <4>3. QED
        BY <2>2, <4>1, <4>2 DEF Elements
    <3>3. QED
      BY <2>2, <3>1, <3>2 DEF Elements
  <2>5. InOrder(u, R)
    <3>1. SUFFICES ASSUME NEW k \in 1..(j - i + 1), NEW l \in 1..(j - i + 1), k < l
                   PROVE  <<u[k], u[l]>> \in R
      BY <2>2 DEF InOrder
    <3>2. /\ i + k - 1 \in 1..N /\ i + l - 1 \in 1..N /\ i + k - 1 < i + l - 1
      BY <1>1, <2>1, <3>1
    <3>3. u[k] = outputs[i + k - 1] /\ u[l] = outputs[i + l - 1]
      BY <2>2
    <3>4. QED
      BY <1>1, <3>2, <3>3 DEF InOrder
  <2>6. QED
    BY <2>2, <2>3, <2>4, <2>5 DEF u, i, j
<1>8. /\ cut \in Seq(Seq(E)) /\ DOMAIN cut = DOMAIN first
      /\ \A b \in DOMAIN first : cut[b] = s(b)
  <2>. HIDE DEF s
  <2>1. cut = [b \in DOMAIN first |-> s(b)]
    BY <1>2 DEF s
  <2>2. DOMAIN cut = DOMAIN first /\ \A b \in DOMAIN first : cut[b] = s(b)
    BY <2>1
  <2>3. \A b \in DOMAIN first : s(b) \in Seq(E)
    BY <1>7
  <2>4. cut \in [DOMAIN first -> Seq(E)]
    BY <2>1, <2>3
  <2>5. PICK m \in Nat : DOMAIN first = 1..m
    BY <1>3
  <2>6. cut \in Seq(Seq(E))
    BY <2>4, <2>5
  <2>7. QED
    BY <2>2, <2>6
<1>. HIDE DEF s
<1>9. ASSUME NEW b \in DOMAIN first, NEW c \in DOMAIN first, b < c
      PROVE  AllBefore(s(b), s(c), R)
  <2>1. first[b] < first[c]
    BY <1>3, <1>9 DEF InOrder, LessThan
  <2>2. End(first[b]) < first[c]
    BY <1>4, <1>5, <2>1
  <2>3. ASSUME NEW x \in Elements(s(b)), NEW y \in Elements(s(c))
        PROVE  <<x, y>> \in R
    <3>1. PICK k \in first[b]..End(first[b]) : x = outputs[k]
      BY <1>7
    <3>2. PICK l \in first[c]..End(first[c]) : y = outputs[l]
      BY <1>7
    <3>. DEFINE i == first[b]
                j == End(first[b])
                m == first[c]
                o == End(first[c])
    <3>3. i \in 1..N /\ j \in i..N /\ m \in 1..N /\ o \in m..N /\ j < m
          /\ k \in i..j /\ l \in m..o
      BY <1>5, <2>2
    <3>. HIDE DEF i, j, m, o
    <3>4. k \in 1..N /\ l \in 1..N /\ k < l
      BY <1>1, <3>3
    <3>5. QED
      BY <1>1, <3>1, <3>2, <3>4 DEF InOrder
  <2>4. QED
    BY <2>3 DEF AllBefore
<1>10. AreInOrder(cut, R)
  BY <1>7, <1>8, <1>9 DEF AreInOrder
<1>11. UNION {Elements(cut[b]) : b \in DOMAIN cut} = Elements(outputs)
  <2>1. ASSUME NEW b \in DOMAIN first, NEW x \in Elements(s(b))
        PROVE  x \in Elements(outputs)
    <3>1. PICK k \in first[b]..End(first[b]) : x = outputs[k]
      BY <1>7
    <3>2. k \in 1..N
      BY <1>1, <1>5, <3>1
    <3>3. QED
      BY <1>1, <3>1, <3>2 DEF Elements
  <2>2. ASSUME NEW k \in 1..N
        PROVE  \E b \in DOMAIN first : outputs[k] \in Elements(s(b))
    <3>1. PICK i \in 1..N : Is(i) /\ k \in i..End(i)
      BY <1>4
    <3>2. PICK b \in DOMAIN first : first[b] = i
      BY <1>3, <3>1 DEF Elements
    <3>3. QED
      BY <1>7, <3>1, <3>2
  <2>3. \A x \in Elements(outputs) : \E b \in DOMAIN first : x \in Elements(s(b))
    BY <1>1, <2>2 DEF Elements
  <2>4. \A b \in DOMAIN first : Elements(cut[b]) = Elements(s(b))
    BY <1>8
  <2>5. QED
    BY <1>8, <2>1, <2>3, <2>4
<1>12. QED
  BY <1>7, <1>8, <1>10, <1>11 DEF cut
-----------------------------------------------------------------------------
(* The body of a function. *)

AllBatches(n) == [start : 0..3, outputs : Seq(AllOutputs(n))]

(* All outputs of a batch come before those of the next. *)
BatchBefore(n) ==
  {p \in AllBatches(n) \X AllBatches(n) :
     AllBefore(p[1].outputs, p[2].outputs, Earlier(n))}

IsBatch(batch, nspin, n) ==
  /\ batch \in AllBatches(n) /\ batch.outputs # << >>
  /\ InOrder(batch.outputs, Earlier(n))
  /\ \A x \in Elements(batch.outputs) : IsOutputOf(x, nspin, n, batch.start)

(* An output is in a batch of its order. *)
IsIn(x, batch, order) == batch.start = order /\ x \in Elements(batch.outputs)

(* An output of an order has a name of that order. *)
LEMMA OutputShape ==
  ASSUME NEW nspin \in Spins, NEW n \in Nat \ {0}, NEW order, NEW x,
         IsOutputOf(x, nspin, n, order)
  PROVE  /\ x \in AllOutputs(n) /\ IsListed(x.name, order)
         /\ x.name \in Seq(Nat) /\ Len(x.name) = order
<1>1. PICK name : IsListed(name, order) /\
             \E c \in 0..Count(nspin, name)-1 : \E f \in 0..n-1 : x = Output(name, c, n, f)
  BY DEF IsOutputOf
<1>2. name \in Seq(Nat) /\ Len(name) = order /\ Count(nspin, name) \in Nat
  BY <1>1, PartOfName
<1>3. PICK c \in 0..Count(nspin, name)-1, f \in 0..n-1 : x = Output(name, c, n, f)
  BY <1>1
<1>4. c \in Nat
  BY <1>2
<1>5. x \in AllOutputs(n) /\ x.name = name
  <2>1. /\ Output(name, c, n, f) \in AllOutputs(n)
        /\ Output(name, c, n, f).name = name
    <3>1. name \in Seq(Nat) /\ f \in 0..n-1
      BY <1>2
    <3>2. QED
      BY <1>4, <3>1, OutputParts
  <2>2. QED
    BY <1>3, <2>1
<1>6. QED
  BY <1>1, <1>2, <1>5

(* An output of a lower order comes before one of a higher order. *)
LEMMA OrdersApart ==
  ASSUME NEW nspin \in Spins, NEW n \in Nat \ {0}, NEW o \in Nat, NEW p \in Nat, o < p,
         NEW x, NEW y, IsOutputOf(x, nspin, n, o), IsOutputOf(y, nspin, n, p)
  PROVE  <<x, y>> \in Earlier(n)
<1>1. /\ x \in AllOutputs(n) /\ Len(x.name) = o
      /\ y \in AllOutputs(n) /\ Len(y.name) = p
  BY OutputShape
<1>2. x.name # y.name /\ Len(x.name) =< Len(y.name)
  BY <1>1
<1>3. QED
  BY <1>1, <1>2 DEF Earlier

(* The batches of all orders have every output, each in a batch of its order. *)
LEMMA BatchesListed ==
  ASSUME NEW nspin \in Spins, NEW n \in Nat \ {0}, NEW maxorder \in 0..3
  PROVE  /\ FeatureBatches(nspin, n, maxorder) \in Seq(AllBatches(n))
         /\ InOrder(FeatureBatches(nspin, n, maxorder), BatchBefore(n))
         /\ \A B \in Elements(FeatureBatches(nspin, n, maxorder)) :
              IsBatch(B, nspin, n) /\ B.start \in 0..maxorder
         /\ \A order \in 0..maxorder : \A x : IsOutputOf(x, nspin, n, order) =>
              \E B \in Elements(FeatureBatches(nspin, n, maxorder)) : IsIn(x, B, order)
<1>. DEFINE outs(o) == FeatureOutputs(nspin, n, o)
            cut(o) == CutIntoBatches(outs(o), o)
            part(o) == [b \in DOMAIN cut(o) |-> [start |-> o, outputs |-> cut(o)[b]]]
            M == maxorder + 1
            ss == [k \in 1..M |-> part(k - 1)]
<1>1. FeatureBatches(nspin, n, maxorder) = FlattenSeq(ss)
  BY DEF FeatureBatches
<1>2. ASSUME NEW o \in 0..3
      PROVE  /\ cut(o) \in Seq(Seq(AllOutputs(n))) /\ AreInOrder(cut(o), Earlier(n))
             /\ \A b \in DOMAIN cut(o) : cut(o)[b] # << >>
             /\ \A x : (\E b \in DOMAIN cut(o) : x \in Elements(cut(o)[b]))
                       <=> IsOutputOf(x, nspin, n, o)
  <2>1. /\ outs(o) \in Seq(AllOutputs(n)) /\ InOrder(outs(o), Earlier(n)) /\ o \in Nat
        /\ \A x : x \in Elements(outs(o)) <=> IsOutputOf(x, nspin, n, o)
    <3>1. ListsOutputs(FeatureOutputs(nspin, n, o), nspin, n, {o})
      BY FeatureOutputsListed
    <3>2. QED
      BY <3>1 DEF ListsOutputs
  <2>. HIDE DEF outs
  <2>2. /\ cut(o) \in Seq(Seq(AllOutputs(n))) /\ AreInOrder(cut(o), Earlier(n))
        /\ \A b \in DOMAIN cut(o) : cut(o)[b] # << >>
        /\ UNION {Elements(cut(o)[b]) : b \in DOMAIN cut(o)} = Elements(outs(o))
    BY <2>1, BatchesInOrder
  <2>. HIDE DEF cut
  <2>3. QED
    BY <2>1, <2>2
<1>. HIDE DEF cut
<1>3. ASSUME NEW o \in 0..3
      PROVE  /\ part(o) \in Seq(AllBatches(n)) /\ DOMAIN part(o) = DOMAIN cut(o)
             /\ \A b \in DOMAIN cut(o) :
                  /\ part(o)[b].start = o /\ part(o)[b].outputs = cut(o)[b]
                  /\ part(o)[b] \in AllBatches(n)
  <2>1. cut(o) \in Seq(Seq(AllOutputs(n)))
    BY <1>2
  <2>2. \A b \in DOMAIN cut(o) : [start |-> o, outputs |-> cut(o)[b]] \in AllBatches(n)
    BY <2>1 DEF AllBatches
  <2>. DEFINE rec(b) == [start |-> o, outputs |-> cut(o)[b]]
  <2>3. \A b \in DOMAIN cut(o) : rec(b).start = o /\ rec(b).outputs = cut(o)[b]
                               /\ rec(b) \in AllBatches(n)
    BY <2>2
  <2>4. part(o) = [b \in DOMAIN cut(o) |-> rec(b)]
    OBVIOUS
  <2>. HIDE DEF rec, part
  <2>5. DOMAIN cut(o) = 1..Len(cut(o)) /\ Len(cut(o)) \in Nat
    BY <2>1
  <2>6. QED
    BY <2>3, <2>4, <2>5
<1>. HIDE DEF part
<1>4. ASSUME NEW o \in 0..3, NEW b \in DOMAIN part(o)
      PROVE  IsBatch(part(o)[b], nspin, n)
  <2>1. InOrder(cut(o)[b], Earlier(n))
    BY <1>2, <1>3 DEF AreInOrder
  <2>2. /\ b \in DOMAIN cut(o) /\ part(o)[b].start = o /\ part(o)[b].outputs = cut(o)[b]
        /\ part(o)[b] \in AllBatches(n)
    BY <1>3
  <2>3. /\ cut(o)[b] # << >>
        /\ \A x \in Elements(cut(o)[b]) : IsOutputOf(x, nspin, n, o)
    BY <1>2, <2>2
  <2>4. QED
    BY <2>1, <2>2, <2>3 DEF IsBatch
<1>5. \A k \in 1..M : k - 1 \in 0..maxorder /\ k - 1 \in 0..3
  OBVIOUS
<1>6. ss \in Seq(Seq(AllBatches(n))) /\ DOMAIN ss = 1..M /\ \A k \in 1..M : ss[k] = part(k - 1)
  BY <1>3, <1>5
<1>. HIDE DEF ss
<1>7. AreInOrder(ss, BatchBefore(n))
  <2>1. ASSUME NEW o \in 0..3 PROVE InOrder(part(o), BatchBefore(n))
    <3>1. SUFFICES ASSUME NEW b \in DOMAIN part(o), NEW c \in DOMAIN part(o), b < c
                   PROVE  <<part(o)[b], part(o)[c]>> \in BatchBefore(n)
      BY DEF InOrder
    <3>2. AllBefore(cut(o)[b], cut(o)[c], Earlier(n))
      BY <1>2, <1>3, <3>1 DEF AreInOrder
    <3>3. QED
      BY <1>3, <3>2 DEF BatchBefore
  <2>2. ASSUME NEW o \in 0..3, NEW p \in 0..3, o < p
        PROVE  AllBefore(part(o), part(p), BatchBefore(n))
    <3>1. SUFFICES ASSUME NEW b \in DOMAIN part(o), NEW c \in DOMAIN part(p)
                   PROVE  <<part(o)[b], part(p)[c]>> \in BatchBefore(n)
      BY DEF AllBefore, Elements
    <3>2. ASSUME NEW x \in Elements(cut(o)[b]), NEW y \in Elements(cut(p)[c])
          PROVE  <<x, y>> \in Earlier(n)
      <4>1. IsOutputOf(x, nspin, n, o) /\ IsOutputOf(y, nspin, n, p)
        BY <1>2, <1>3
      <4>2. o \in Nat /\ p \in Nat
        OBVIOUS
      <4>3. QED
        BY <2>2, <4>1, <4>2, OrdersApart
    <3>3. QED
      BY <1>3, <3>2 DEF BatchBefore, AllBefore
  <2>3. \A i, j \in 1..M : i < j => i - 1 < j - 1
    OBVIOUS
  <2>4. QED
    BY <1>5, <1>6, <2>1, <2>2, <2>3 DEF AreInOrder
<1>. DEFINE batches == FlattenSeq(ss)
<1>8. /\ batches \in Seq(AllBatches(n)) /\ InOrder(batches, BatchBefore(n))
      /\ Elements(batches) = UNION {Elements(part(k - 1)) : k \in 1..M}
  <2>1. /\ FlattenSeq(ss) \in Seq(AllBatches(n)) /\ InOrder(FlattenSeq(ss), BatchBefore(n))
        /\ Elements(FlattenSeq(ss)) = UNION {Elements(ss[i]) : i \in DOMAIN ss}
    BY <1>6, <1>7, Flattened
  <2>2. {Elements(ss[i]) : i \in DOMAIN ss} = {Elements(part(k - 1)) : k \in 1..M}
    BY <1>6
  <2>3. QED
    BY <2>1, <2>2
<1>. HIDE DEF batches
<1>9. ASSUME NEW B \in Elements(batches)
      PROVE  IsBatch(B, nspin, n) /\ B.start \in 0..maxorder
  <2>1. PICK k \in 1..M : B \in Elements(part(k - 1))
    BY <1>8
  <2>2. PICK b \in DOMAIN part(k - 1) : B = part(k - 1)[b]
    BY <2>1 DEF Elements
  <2>3. k - 1 \in 0..maxorder /\ k - 1 \in 0..3
    BY <1>5
  <2>4. B.start = k - 1
    BY <1>3, <2>2, <2>3
  <2>5. QED
    BY <1>4, <2>2, <2>3, <2>4
<1>10. ASSUME NEW order \in 0..maxorder, NEW x, IsOutputOf(x, nspin, n, order)
       PROVE  \E B \in Elements(batches) : IsIn(x, B, order)
  <2>1. order \in 0..3 /\ order + 1 \in 1..M /\ (order + 1) - 1 = order
    OBVIOUS
  <2>2. PICK b \in DOMAIN cut(order) : x \in Elements(cut(order)[b])
    BY <1>2, <1>10, <2>1
  <2>3. /\ part(order)[b].start = order /\ part(order)[b].outputs = cut(order)[b]
        /\ part(order)[b] \in Elements(part(order))
    BY <1>3, <2>1, <2>2 DEF Elements
  <2>4. part(order)[b] \in Elements(batches)
    BY <1>8, <2>1, <2>3
  <2>5. IsIn(x, part(order)[b], order)
    BY <2>2, <2>3 DEF IsIn
  <2>6. QED
    BY <2>4, <2>5
<1>11. QED
  BY <1>1, <1>8, <1>9, <1>10 DEF batches

(* A function has all the outputs of its order and of those below. *)
LEMMA BodyLists ==
  ASSUME NEW nspin \in Spins, NEW n \in Nat \ {0}, NEW maxorder \in 0..3,
         NEW order \in 0..maxorder
  PROVE  ListsOutputs(FunctionBody(nspin, n, maxorder, order), nspin, n, 0..order)
<1>. DEFINE batches == FeatureBatches(nspin, n, maxorder)
            N == Len(batches)
            part(b) == When(batches[b].start =< order, batches[b].outputs)
            ss == [b \in 1..N |-> part(b)]
<1>. HIDE DEF batches
<1>1. /\ batches \in Seq(AllBatches(n)) /\ InOrder(batches, BatchBefore(n))
      /\ \A B \in Elements(batches) : IsBatch(B, nspin, n) /\ B.start \in 0..maxorder
      /\ \A o \in 0..maxorder : \A x : IsOutputOf(x, nspin, n, o) =>
           \E B \in Elements(batches) : IsIn(x, B, o)
  <2>1. batches \in Seq(AllBatches(n)) /\ InOrder(batches, BatchBefore(n))
    BY BatchesListed DEF batches
  <2>2. \A B \in Elements(batches) : IsBatch(B, nspin, n) /\ B.start \in 0..maxorder
    BY BatchesListed DEF batches
  <2>3. \A o \in 0..maxorder : \A x : IsOutputOf(x, nspin, n, o) =>
           \E B \in Elements(batches) : IsIn(x, B, o)
    BY BatchesListed DEF batches
  <2>4. QED
    BY <2>1, <2>2, <2>3
<1>2. N \in Nat /\ DOMAIN batches = 1..N
  BY <1>1
<1>3. FunctionBody(nspin, n, maxorder, order) = FlattenSeq(ss)
  BY <1>2 DEF FunctionBody, batches
<1>4. ASSUME NEW b \in 1..N
      PROVE  /\ IsBatch(batches[b], nspin, n) /\ batches[b].start \in 0..maxorder
             /\ batches[b].outputs \in Seq(AllOutputs(n))
             /\ \/ part(b) = << >> /\ ~(batches[b].start =< order)
                \/ part(b) = batches[b].outputs /\ batches[b].start =< order
  <2>1. batches[b] \in Elements(batches)
    BY <1>2 DEF Elements
  <2>2. IsBatch(batches[b], nspin, n) /\ batches[b].start \in 0..maxorder
    BY <1>1, <2>1
  <2>3. batches[b].outputs \in Seq(AllOutputs(n))
    BY <2>2 DEF IsBatch, AllBatches
  <2>4. QED
    BY <2>2, <2>3 DEF When
<1>. HIDE DEF N, part
<1>5. \A b \in 1..N : part(b) \in Seq(AllOutputs(n))
  <2>1. << >> \in Seq(AllOutputs(n))
    OBVIOUS
  <2>2. QED
    BY <1>4, <2>1, Zenon
<1>6. ss \in Seq(Seq(AllOutputs(n))) /\ DOMAIN ss = 1..N /\ \A b \in 1..N : ss[b] = part(b)
  BY <1>2, <1>5
<1>. HIDE DEF ss
<1>7. Elements(<< >>) = {}
  BY DEF Elements
<1>8. AreInOrder(ss, Earlier(n))
  <2>1. ASSUME NEW b \in 1..N PROVE InOrder(part(b), Earlier(n))
    <3>1. InOrder(<< >>, Earlier(n))
      BY DEF InOrder
    <3>2. InOrder(batches[b].outputs, Earlier(n))
      BY <1>4 DEF IsBatch
    <3>3. QED
      BY <1>4, <3>1, <3>2, Zenon
  <2>2. ASSUME NEW b \in 1..N, NEW c \in 1..N, b < c
        PROVE  AllBefore(part(b), part(c), Earlier(n))
    <3>1. SUFFICES ASSUME NEW x \in Elements(part(b)), NEW y \in Elements(part(c))
                   PROVE  <<x, y>> \in Earlier(n)
      BY DEF AllBefore
    <3>2. part(b) = batches[b].outputs /\ part(c) = batches[c].outputs
      BY <1>4, <1>7, <3>1
    <3>3. <<batches[b], batches[c]>> \in BatchBefore(n)
      BY <1>1, <1>2, <2>2 DEF InOrder
    <3>4. AllBefore(batches[b].outputs, batches[c].outputs, Earlier(n))
      BY <3>3 DEF BatchBefore
    <3>5. QED
      BY <3>1, <3>2, <3>4 DEF AllBefore
  <2>3. QED
    BY <1>6, <2>1, <2>2 DEF AreInOrder
<1>. DEFINE body == FlattenSeq(ss)
<1>9. /\ body \in Seq(AllOutputs(n)) /\ InOrder(body, Earlier(n))
      /\ Elements(body) = UNION {Elements(part(b)) : b \in 1..N}
  <2>1. /\ FlattenSeq(ss) \in Seq(AllOutputs(n)) /\ InOrder(FlattenSeq(ss), Earlier(n))
        /\ Elements(FlattenSeq(ss)) = UNION {Elements(ss[i]) : i \in DOMAIN ss}
    BY <1>6, <1>8, Flattened
  <2>2. {Elements(ss[i]) : i \in DOMAIN ss} = {Elements(part(b)) : b \in 1..N}
    BY <1>6
  <2>3. QED
    BY <2>1, <2>2
<1>. HIDE DEF body
<1>10. ASSUME NEW x \in Elements(body)
       PROVE  \E o \in 0..order : IsOutputOf(x, nspin, n, o)
  <2>1. PICK b \in 1..N : x \in Elements(part(b))
    BY <1>9
  <2>2. part(b) = batches[b].outputs /\ batches[b].start =< order
    BY <1>4, <1>7, <2>1
  <2>3. batches[b].start \in 0..order
    BY <1>4, <2>2
  <2>4. IsOutputOf(x, nspin, n, batches[b].start)
    BY <1>4, <2>1, <2>2 DEF IsBatch
  <2>5. QED
    BY <2>3, <2>4
<1>11. ASSUME NEW x, NEW o \in 0..order, IsOutputOf(x, nspin, n, o)
       PROVE  x \in Elements(body)
  <2>1. o \in 0..maxorder /\ o =< order
    OBVIOUS
  <2>2. PICK B \in Elements(batches) : IsIn(x, B, o)
    BY <1>1, <1>11, <2>1
  <2>6. B.start = o /\ x \in Elements(B.outputs)
    BY <2>2 DEF IsIn
  <2>3. PICK b \in 1..N : B = batches[b]
    BY <1>2, <2>2 DEF Elements
  <2>4. part(b) = batches[b].outputs
    BY <1>4, <2>1, <2>3, <2>6
  <2>5. QED
    BY <1>9, <2>3, <2>4, <2>6
<1>12. QED
  BY <1>3, <1>9, <1>10, <1>11 DEF ListsOutputs, body
=============================================================================
