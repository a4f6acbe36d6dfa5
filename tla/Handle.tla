-------------------------------- MODULE Handle --------------------------------
(***************************************************************************)
(* The life of handles: ifxc_init, ifxc_end and the queries of ifxc_api.c, *)
(* and the metadata of ifxc_metadata.c, which answers without a handle.    *)
(* A handle is an ifxc_func_type the caller owns; until its first ifxc_init*)
(* its pointer is indeterminate, and the caller may do nothing else with   *)
(* it. A caller may initialise a handle again at any time.                 *)
(***************************************************************************)
EXTENDS IfxcRequest

CONSTANTS Handles,
          Blocks     \* the blocks of handle size the heap has room for

VARIABLES func,      \* what the pointer of a handle is
          impl,      \* the contents of the live blocks; NoImpl for a free one
          status,    \* what the last call on a handle returned
          answer     \* the last answer given through it, since its ifxc_init

handleVars == <<func, impl, status, answer>>

Null == "NULL"
Indeterminate == "indeterminate"

(* A block's address is neither. *)
ASSUME BlocksAssumption == Null \notin Blocks /\ Indeterminate \notin Blocks

NoAnswer == [of |-> "nothing"]

(* What ifxc_init stores in a block, by a switch of its own. *)
Contents(i) ==
  [set |-> i.set, nspin |-> i.nspin,
   nfeatures |-> NFeatures(i.set), maxOrder |-> MaxDerivOrder(i.set),
   dims |-> Dimensions(i.nspin)]

Live == {b \in Blocks : impl[b] # NoImpl}
Owners(b) == {h \in Handles : func[h] = b}

(* What a query or an evaluation sees through a handle. *)
GetImpl(h) == IF func[h] = Null THEN NoImpl ELSE impl[func[h]]

(* The answers of the three queries of an initialised handle. *)
AnswersOf(block) ==
  {[of |-> "nfeatures", value |-> block.nfeatures],
   [of |-> "max_deriv_order", value |-> block.maxOrder],
   [of |-> "dimensions", value |-> block.dims]}
-----------------------------------------------------------------------------
(* The metadata: the description of a set, and the tables of its features, by
   the index in each row; the table of ML26 begins with the rows of ML25. *)
FeatureSetInfo(set) ==
  IF set = "ML25" THEN [nfeatures |-> 66, maxOrder |-> 3]
  ELSE [nfeatures |-> 69, maxOrder |-> 2]

FeatureRows(set) ==
  LET ml25 == [k \in 1..66 |-> k - 1]
  IN  IF set = "ML25" THEN ml25 ELSE ml25 \o <<66, 67, 68>>

(* Faulty: the bound of ML26 is used for both sets. *)
FeatureInfoOfML26(set, index) ==
  IF set \notin FeatureSets THEN [status |-> "E_UNKNOWN_FEATURE_SET", row |-> -1]
  ELSE IF index >= 69 THEN [status |-> "E_INVALID_ARGUMENT", row |-> -1]
  ELSE [status |-> "OK",
        row |-> IF index < Len(FeatureRows(set)) THEN FeatureRows(set)[index + 1]
                ELSE -1]

FeatureInfo(set, index) ==
  IF set \notin FeatureSets THEN [status |-> "E_UNKNOWN_FEATURE_SET", row |-> -1]
  ELSE IF index >= (IF set = "ML25" THEN 66 ELSE 69)
       THEN [status |-> "E_INVALID_ARGUMENT", row |-> -1]
  ELSE [status |-> "OK", row |-> FeatureRows(set)[index + 1]]
-----------------------------------------------------------------------------
HandleInit ==
  /\ func = [h \in Handles |-> Indeterminate]
  /\ impl = [b \in Blocks |-> NoImpl]
  /\ status = [h \in Handles |-> "none"]
  /\ answer = [h \in Handles |-> NoAnswer]

Forget(h) == answer' = [answer EXCEPT ![h] = NoAnswer]

(* The pointer is cleared before the arguments are looked at: a call that
   fails leaves a handle ifxc_end may be given. *)
InitFails(h) ==
  /\ \E set \in FeatureSets \cup {"unknown"}, nspin \in Spins \cup {"unknown"} :
       \/ /\ set = "unknown"
          /\ status' = [status EXCEPT ![h] = "E_UNKNOWN_FEATURE_SET"]
       \/ /\ set # "unknown"
          /\ nspin = "unknown"
          /\ status' = [status EXCEPT ![h] = "E_INVALID_NSPIN"]
       \/ /\ set # "unknown" /\ nspin # "unknown"
          /\ status' = [status EXCEPT ![h] = "E_ALLOCATION"]
  /\ func' = [func EXCEPT ![h] = Null]
  /\ Forget(h)
  /\ UNCHANGED impl

(* Faulty: the spin is not stored. *)
InitForgetsSpin(h) ==
  /\ \E b \in Blocks \ Live, i \in Impls :
       /\ impl' = [impl EXCEPT ![b] = [Contents(i) EXCEPT !.nspin = "none"]]
       /\ func' = [func EXCEPT ![h] = b]
  /\ status' = [status EXCEPT ![h] = "OK"]
  /\ Forget(h)

InitSucceeds(h) ==
  /\ \E b \in Blocks \ Live, i \in Impls :
       /\ impl' = [impl EXCEPT ![b] = Contents(i)]
       /\ func' = [func EXCEPT ![h] = b]
  /\ status' = [status EXCEPT ![h] = "OK"]
  /\ Forget(h)

(* Faulty: the pointer is kept. *)
EndKeepsPointer(h) ==
  /\ func[h] # Indeterminate
  /\ impl' = IF func[h] = Null THEN impl ELSE [impl EXCEPT ![func[h]] = NoImpl]
  /\ Forget(h)
  /\ UNCHANGED <<func, status>>

(* Faulty: the block is not freed. *)
EndKeepsBlock(h) ==
  /\ func[h] # Indeterminate
  /\ func' = [func EXCEPT ![h] = Null]
  /\ Forget(h)
  /\ UNCHANGED <<impl, status>>

End(h) ==
  /\ func[h] # Indeterminate
  /\ impl' = IF func[h] = Null THEN impl ELSE [impl EXCEPT ![func[h]] = NoImpl]
  /\ func' = [func EXCEPT ![h] = Null]
  /\ Forget(h)
  /\ UNCHANGED status

(* ifxc_nfeatures, ifxc_max_deriv_order and ifxc_func_dimensions; without an
   answer the result pointer was NULL. *)
Query(h) ==
  /\ func[h] # Indeterminate
  /\ \/ /\ GetImpl(h) = NoImpl
        /\ status' = [status EXCEPT ![h] = "E_NOT_INITIALIZED"]
        /\ UNCHANGED answer
     \/ /\ GetImpl(h) # NoImpl
        /\ status' = [status EXCEPT ![h] = "E_INVALID_ARGUMENT"]
        /\ UNCHANGED answer
     \/ /\ GetImpl(h) # NoImpl
        /\ status' = [status EXCEPT ![h] = "OK"]
        /\ \E a \in AnswersOf(GetImpl(h)) : answer' = [answer EXCEPT ![h] = a]
  /\ UNCHANGED <<func, impl>>

HandleNext ==
  \E h \in Handles : InitFails(h) \/ InitSucceeds(h) \/ End(h) \/ Query(h)

HandleSpec == HandleInit /\ [][HandleNext]_handleVars
-----------------------------------------------------------------------------
HandleTypeOK ==
  /\ func \in [Handles -> Blocks \cup {Null, Indeterminate}]
  /\ impl \in [Blocks -> {Contents(i) : i \in Impls} \cup {NoImpl}]
  /\ status \in [Handles -> Status \cup {"none"}]
  /\ answer = [h \in Handles |-> answer[h]]

(* No handle has a pointer to a block that was freed, and no two handles have
   the same block: ending every handle once frees no block twice, in whatever
   order handles are initialised, fail to be, are ended and ended again. *)
HandlesOwnTheirBlocks ==
  \A h \in Handles : func[h] \in Blocks =>
     /\ func[h] \in Live
     /\ Owners(func[h]) = {h}

(* What a caller was told through a handle agrees with the metadata of the
   handle's set, which has switches and tables of its own: a caller that walks
   over the features a handle counts finds each described under its index,
   and there is no further one. Other handles come and go in the meantime. *)
AnswersMatchMetadata ==
  \A h \in Handles : answer[h] # NoAnswer =>
    LET set == GetImpl(h).set
        told == answer[h].value
    IN  CASE answer[h].of = "nfeatures" ->
               /\ told = FeatureSetInfo(set).nfeatures
               /\ \A index \in 0..told-1 :
                    FeatureInfo(set, index) = [status |-> "OK", row |-> index]
               /\ FeatureInfo(set, told).status = "E_INVALID_ARGUMENT"
          [] answer[h].of = "max_deriv_order" ->
               told = FeatureSetInfo(set).maxOrder
          [] answer[h].of = "dimensions" ->
               told = Dimensions(GetImpl(h).nspin)

(* The only way a block is lost is that its handle is initialised again
   without having been ended. *)
LostOnlyByReinit ==
  [][\A b \in Live :
       Owners(b) # {} /\ b \in Live' /\ Owners(b)' = {} =>
         \E h \in Owners(b) : InitFails(h) \/ InitSucceeds(h)]_handleVars
=============================================================================
