----------------------------- MODULE Handle_proofs -----------------------------
(***************************************************************************)
(* Proofs about Handle, for every number of handles and blocks. The        *)
(* inductive invariant adds to the properties that an answer is one of the *)
(* contents of the block its handle points to now.                         *)
(***************************************************************************)
EXTENDS Handle, SequenceTheorems, TLAPS

AnswersInv ==
  \A h \in Handles : answer[h] # NoAnswer =>
    func[h] \in Blocks /\ answer[h] \in AnswersOf(impl[func[h]])

IInv == HandleTypeOK /\ HandlesOwnTheirBlocks /\ AnswersInv
-----------------------------------------------------------------------------
(* An initialised block is told from a free one by its set. *)
LEMMA ContentsOfBlock ==
  ASSUME NEW i \in Impls
  PROVE  /\ Contents(i) # NoImpl
         /\ Contents(i).set \in FeatureSets /\ Contents(i).nspin \in Spins
         /\ Contents(i).set = i.set /\ Contents(i).nspin = i.nspin
BY DEF Contents, NoImpl, Impls, FeatureSets

(* Handles that were never initialised satisfy the invariant. *)
LEMMA InitIInv == HandleInit => IInv
<1> SUFFICES ASSUME HandleInit PROVE IInv
  OBVIOUS
<1> USE BlocksAssumption DEF HandleInit
<1>1. HandleTypeOK
  BY DEF HandleTypeOK
<1>2. HandlesOwnTheirBlocks /\ AnswersInv
  BY DEF HandlesOwnTheirBlocks, AnswersInv
<1> QED
  BY <1>1, <1>2 DEF IInv

(* A handle whose pointer is cleared, while the blocks stay. *)
LEMMA InitFailsStep ==
  ASSUME IInv, NEW h \in Handles, InitFails(h)
  PROVE  IInv'
<1> USE BlocksAssumption DEF IInv
<1>1. /\ func' = [func EXCEPT ![h] = Null]
      /\ answer' = [answer EXCEPT ![h] = NoAnswer]
      /\ impl' = impl
      /\ \E s \in Status : status' = [status EXCEPT ![h] = s]
  BY DEF InitFails, Forget, Status
<1>2. HandleTypeOK'
  BY <1>1 DEF HandleTypeOK
<1>3. \A g \in Handles : func'[g] = IF g = h THEN Null ELSE func[g]
  BY <1>1 DEF HandleTypeOK
<1>4. \A g \in Handles : answer'[g] = IF g = h THEN NoAnswer ELSE answer[g]
  BY <1>1 DEF HandleTypeOK
<1>5. HandlesOwnTheirBlocks'
  BY <1>1, <1>3 DEF HandlesOwnTheirBlocks, Live, Owners
<1>6. AnswersInv'
  BY <1>1, <1>3, <1>4 DEF AnswersInv
<1> QED
  BY <1>2, <1>5, <1>6

(* The block is free, so no handle has it. *)
LEMMA InitSucceedsStep ==
  ASSUME IInv, NEW h \in Handles, InitSucceeds(h)
  PROVE  IInv'
<1> USE BlocksAssumption DEF IInv
<1>1. PICK b \in Blocks \ Live, i \in Impls :
        impl' = [impl EXCEPT ![b] = Contents(i)] /\ func' = [func EXCEPT ![h] = b]
  BY DEF InitSucceeds
<1>2. /\ answer' = [answer EXCEPT ![h] = NoAnswer]
      /\ status' = [status EXCEPT ![h] = "OK"]
  BY DEF InitSucceeds, Forget
<1>3. HandleTypeOK'
  BY <1>1, <1>2 DEF HandleTypeOK, Status
<1>4. \A g \in Handles :
        /\ func'[g] = IF g = h THEN b ELSE func[g]
        /\ answer'[g] = IF g = h THEN NoAnswer ELSE answer[g]
  BY <1>1, <1>2 DEF HandleTypeOK
<1>5. \A c \in Blocks : impl'[c] = IF c = b THEN Contents(i) ELSE impl[c]
  BY <1>1 DEF HandleTypeOK
<1>6. \A g \in Handles : func[g] # b
  BY <1>1 DEF HandlesOwnTheirBlocks
<1>7. Live' = Live \cup {b}
  BY <1>1, <1>5, ContentsOfBlock DEF Live
<1>8. HandlesOwnTheirBlocks'
  BY <1>1, <1>4, <1>6, <1>7 DEF HandlesOwnTheirBlocks, Owners
<1>9. AnswersInv'
  BY <1>1, <1>4, <1>5, <1>6 DEF AnswersInv
<1> QED
  BY <1>3, <1>8, <1>9

(* The block that is freed belongs to this handle alone. *)
LEMMA EndStep ==
  ASSUME IInv, NEW h \in Handles, End(h)
  PROVE  IInv'
<1> USE BlocksAssumption DEF IInv
<1>1. /\ func[h] = Null \/ func[h] \in Blocks
      /\ func' = [func EXCEPT ![h] = Null]
      /\ answer' = [answer EXCEPT ![h] = NoAnswer]
      /\ impl' = IF func[h] = Null THEN impl ELSE [impl EXCEPT ![func[h]] = NoImpl]
      /\ status' = status
  BY DEF End, Forget, HandleTypeOK
<1>2. HandleTypeOK'
  BY <1>1 DEF HandleTypeOK
<1>3. \A g \in Handles :
        /\ func'[g] = IF g = h THEN Null ELSE func[g]
        /\ answer'[g] = IF g = h THEN NoAnswer ELSE answer[g]
  BY <1>1 DEF HandleTypeOK
<1>4. \A c \in Blocks : impl'[c] = IF c = func[h] THEN NoImpl ELSE impl[c]
  BY <1>1 DEF HandleTypeOK
<1>5. \A g \in Handles : g # h /\ func[g] \in Blocks => func[g] # func[h]
  BY DEF HandlesOwnTheirBlocks, Owners
<1>6. HandlesOwnTheirBlocks'
  BY <1>3, <1>4, <1>5 DEF HandlesOwnTheirBlocks, Live, Owners
<1>7. AnswersInv'
  BY <1>3, <1>4, <1>5 DEF AnswersInv
<1> QED
  BY <1>2, <1>6, <1>7

(* A query changes no block, and answers from the block of its handle. *)
LEMMA QueryStep ==
  ASSUME IInv, NEW h \in Handles, Query(h)
  PROVE  IInv'
<1> USE BlocksAssumption DEF IInv
<1>1. /\ func' = func /\ impl' = impl
      /\ \E s \in Status : status' = [status EXCEPT ![h] = s]
  BY DEF Query, Status
<1>2. \/ answer' = answer
      \/ /\ GetImpl(h) # NoImpl
         /\ \E a \in AnswersOf(GetImpl(h)) : answer' = [answer EXCEPT ![h] = a]
  BY DEF Query
<1>3. HandleTypeOK'
  BY <1>1, <1>2 DEF HandleTypeOK
<1>4. HandlesOwnTheirBlocks'
  BY <1>1 DEF HandlesOwnTheirBlocks, Live, Owners
<1>5. AnswersInv'
  <2>1. CASE answer' = answer
    BY <1>1, <2>1 DEF AnswersInv
  <2>2. CASE GetImpl(h) # NoImpl
             /\ \E a \in AnswersOf(GetImpl(h)) : answer' = [answer EXCEPT ![h] = a]
    <3>1. PICK a \in AnswersOf(GetImpl(h)) : answer' = [answer EXCEPT ![h] = a]
      BY <2>2
    <3>2. func[h] \in Blocks /\ GetImpl(h) = impl[func[h]]
      BY <2>2 DEF GetImpl, Query, HandleTypeOK
    <3>3. \A g \in Handles : answer'[g] = IF g = h THEN a ELSE answer[g]
      BY <3>1 DEF HandleTypeOK
    <3> QED
      BY <1>1, <3>2, <3>3 DEF AnswersInv
  <2> QED
    BY <1>2, <2>1, <2>2
<1> QED
  BY <1>3, <1>4, <1>5

(* The invariant holds in every reachable state. *)
LEMMA Inductive == HandleSpec => []IInv
<1>1. IInv /\ [HandleNext]_handleVars => IInv'
  <2>1. ASSUME IInv, UNCHANGED handleVars PROVE IInv'
    BY <2>1 DEF handleVars, IInv, HandleTypeOK, HandlesOwnTheirBlocks, Live,
                Owners, AnswersInv
  <2> QED
    BY <2>1, InitFailsStep, InitSucceedsStep, EndStep, QueryStep DEF HandleNext
<1> QED
  BY <1>1, InitIInv, PTL DEF HandleSpec
-----------------------------------------------------------------------------
(* A handle is NULL, indeterminate or a block, and a block is free or holds
   all five fields of some set and spin. *)
THEOREM HandleTypeCorrect == HandleSpec => []HandleTypeOK
<1>1. IInv => HandleTypeOK
  BY DEF IInv
<1> QED
  BY <1>1, Inductive, PTL

(* No handle has a freed block and no block has two handles. *)
THEOREM OwnershipHolds == HandleSpec => []HandlesOwnTheirBlocks
<1>1. IInv => HandlesOwnTheirBlocks
  BY DEF IInv
<1> QED
  BY <1>1, Inductive, PTL

(* Initialising a handle again is the only way to lose a block. *)
THEOREM OnlyReinitLoses == HandleSpec => LostOnlyByReinit
<1>1. IInv /\ [HandleNext]_handleVars =>
        [\A b \in Live :
           Owners(b) # {} /\ b \in Live' /\ Owners(b)' = {} =>
             \E h \in Owners(b) : InitFails(h) \/ InitSucceeds(h)]_handleVars
  <2> SUFFICES ASSUME IInv, HandleNext, NEW b \in Live,
                      Owners(b) # {}, b \in Live', Owners(b)' = {}
               PROVE  \E h \in Owners(b) : InitFails(h) \/ InitSucceeds(h)
    OBVIOUS
  <2> USE BlocksAssumption DEF IInv
  <2>1. PICK g \in Handles : func[g] = b
    BY DEF Owners
  <2>2. g \in Owners(b)
    BY <2>1 DEF Owners
  <2>3. b \in Blocks /\ func'[g] # b
    BY DEF Live, Owners
  <2>4. PICK h \in Handles : InitFails(h) \/ InitSucceeds(h) \/ End(h) \/ Query(h)
    BY DEF HandleNext
  <2>5. CASE InitFails(h) \/ InitSucceeds(h)
    <3>1. g = h
      BY <2>1, <2>3, <2>5 DEF InitFails, InitSucceeds, HandleTypeOK
    <3> QED
      BY <3>1, <2>2, <2>5
  <2>6. CASE End(h)
    <3>1. g = h
      BY <2>1, <2>3, <2>6 DEF End, HandleTypeOK
    <3>2. impl'[b] = NoImpl
      BY <3>1, <2>1, <2>3, <2>6 DEF End, HandleTypeOK
    <3> QED
      BY <3>2 DEF Live
  <2>7. CASE Query(h)
    BY <2>1, <2>3, <2>7 DEF Query
  <2> QED
    BY <2>4, <2>5, <2>6, <2>7
<1> QED
  BY <1>1, Inductive, PTL DEF HandleSpec, LostOnlyByReinit

(* The rows of both tables are numbered by their places. *)
LEMMA RowsAreNumbered ==
  ASSUME NEW set \in FeatureSets
  PROVE  \A index \in 0..NFeatures(set)-1 : FeatureRows(set)[index + 1] = index
<1> DEFINE ml25 == [k \in 1..66 |-> k - 1]
<1> DEFINE more == <<66, 67, 68>>
<1>1. \A index \in 0..65 : ml25[index + 1] = index
  OBVIOUS
<1>2. CASE set = "ML25"
  BY <1>1, <1>2 DEF FeatureRows, NFeatures
<1>3. CASE set = "ML26"
  <2>1. ml25 \in Seq(Nat) /\ Len(ml25) = 66
    <3>1. ml25 \in [1..66 -> Nat]
      OBVIOUS
    <3> QED
      BY <3>1
  <2>2. more \in Seq(Nat) /\ Len(more) = 3
        /\ more[1] = 66 /\ more[2] = 67 /\ more[3] = 68
    OBVIOUS
  <2> HIDE DEF ml25, more
  <2>3. \A j \in 1..69 :
          (ml25 \o more)[j] = IF j =< 66 THEN ml25[j] ELSE more[j - 66]
    <3>1. \A s, t \in Seq(Nat) : \A j \in 1..Len(s) + Len(t) :
            (s \o t)[j] = IF j =< Len(s) THEN s[j] ELSE t[j - Len(s)]
      BY ConcatProperties
    <3>2. \A j \in 1..Len(ml25) + Len(more) :
            (ml25 \o more)[j] =
              IF j =< Len(ml25) THEN ml25[j] ELSE more[j - Len(ml25)]
      BY <3>1, <2>1, <2>2
    <3>3. Len(ml25) + Len(more) = 69
      BY <2>1, <2>2
    <3>4. \A j \in 1..69 : j \in 1..Len(ml25) + Len(more)
      BY <3>3
    <3>5. ASSUME NEW j \in 1..69
          PROVE  (ml25 \o more)[j] =
                   IF j =< Len(ml25) THEN ml25[j] ELSE more[j - Len(ml25)]
      BY <3>2, <3>4
    <3>6. Len(ml25) = 66
      BY <2>1
    <3> HIDE DEF ml25, more
    <3> QED
      BY <3>5, <3>6, Zenon
  <2>4. \A index \in 0..68 : (ml25 \o more)[index + 1] = index
    <3> SUFFICES ASSUME NEW index \in 0..68
                 PROVE  (ml25 \o more)[index + 1] = index
      OBVIOUS
    <3>1. (ml25 \o more)[index + 1] =
            IF index + 1 =< 66 THEN ml25[index + 1] ELSE more[(index + 1) - 66]
      <4>1. index + 1 \in 1..69
        OBVIOUS
      <4> QED
        BY <4>1, <2>3
    <3>2. CASE index \in 0..65
      <4>1. ml25[index + 1] = index /\ index + 1 =< 66
        BY <3>2, <1>1 DEF ml25
      <4> QED
        BY <3>1, <4>1
    <3>3. CASE index = 66
      BY <3>1, <3>3, <2>2
    <3>4. CASE index = 67
      BY <3>1, <3>4, <2>2
    <3>5. CASE index = 68
      BY <3>1, <3>5, <2>2
    <3>6. index \in 0..65 \/ index = 66 \/ index = 67 \/ index = 68
      OBVIOUS
    <3> QED
      BY <3>2, <3>3, <3>4, <3>5, <3>6
  <2>5. FeatureRows(set) = ml25 \o more
    BY <1>3 DEF FeatureRows, ml25, more
  <2>6. NFeatures(set) = 69
    BY <1>3 DEF NFeatures
  <2>7. \A index \in 0..NFeatures(set)-1 : index \in 0..68
    BY <2>6
  <2> QED
    BY <2>4, <2>5, <2>7
<1> QED
  BY <1>2, <1>3 DEF FeatureSets

(* The metadata of the handle's set says what the handle says. *)
THEOREM MetadataAgrees == HandleSpec => []AnswersMatchMetadata
<1>1. IInv => AnswersMatchMetadata
  <2> SUFFICES ASSUME IInv, NEW h \in Handles, answer[h] # NoAnswer
               PROVE  LET set == GetImpl(h).set
                          told == answer[h].value
                      IN  CASE answer[h].of = "nfeatures" ->
                                 /\ told = FeatureSetInfo(set).nfeatures
                                 /\ \A index \in 0..told-1 :
                                      FeatureInfo(set, index) =
                                        [status |-> "OK", row |-> index]
                                 /\ FeatureInfo(set, told).status =
                                      "E_INVALID_ARGUMENT"
                            [] answer[h].of = "max_deriv_order" ->
                                 told = FeatureSetInfo(set).maxOrder
                            [] answer[h].of = "dimensions" ->
                                 told = Dimensions(GetImpl(h).nspin)
    BY DEF AnswersMatchMetadata
  <2> USE BlocksAssumption DEF IInv
  <2>1. func[h] \in Blocks /\ answer[h] \in AnswersOf(impl[func[h]])
    BY DEF AnswersInv
  <2>2. impl[func[h]] # NoImpl
    BY <2>1 DEF HandlesOwnTheirBlocks, Live
  <2>3. PICK i \in Impls : impl[func[h]] = Contents(i)
    BY <2>1, <2>2 DEF HandleTypeOK
  <2>4. GetImpl(h) = Contents(i)
    BY <2>1, <2>3 DEF GetImpl
  <2>5. PICK set \in FeatureSets : set = i.set
    BY DEF Impls
  <2>6. GetImpl(h).set = set /\ GetImpl(h).nspin = i.nspin
    BY <2>4, <2>5, ContentsOfBlock
  <2>7. answer[h] \in AnswersOf(Contents(i))
    BY <2>1, <2>3
  <2>8. CASE answer[h] = [of |-> "nfeatures", value |-> NFeatures(set)]
    <3>1. NFeatures(set) = FeatureSetInfo(set).nfeatures
          /\ NFeatures(set) = (IF set = "ML25" THEN 66 ELSE 69)
      BY DEF NFeatures, FeatureSetInfo
    <3>2. \A index \in 0..NFeatures(set)-1 :
            FeatureInfo(set, index) = [status |-> "OK", row |-> index]
      BY <3>1, RowsAreNumbered DEF FeatureInfo
    <3>3. FeatureInfo(set, NFeatures(set)).status = "E_INVALID_ARGUMENT"
      BY <3>1 DEF FeatureInfo
    <3> QED
      BY <2>6, <2>8, <3>1, <3>2, <3>3
  <2>9. CASE answer[h] = [of |-> "max_deriv_order", value |-> MaxDerivOrder(set)]
    <3>1. MaxDerivOrder(set) = FeatureSetInfo(set).maxOrder
      BY DEF MaxDerivOrder, FeatureSetInfo
    <3> QED
      BY <2>6, <2>9, <3>1
  <2>10. CASE answer[h] = [of |-> "dimensions", value |-> Dimensions(i.nspin)]
    BY <2>6, <2>10
  <2> QED
    BY <2>5, <2>7, <2>8, <2>9, <2>10 DEF AnswersOf, Contents
<1> QED
  BY <1>1, Inductive, PTL
=============================================================================
