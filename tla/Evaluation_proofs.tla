--------------------------- MODULE Evaluation_proofs ---------------------------
(***************************************************************************)
(* Proofs about Evaluation, for every set of callers and requests, every   *)
(* size of the heap, and whichever calls of calloc fail:                   *)
(*   - no block is used or freed after it was freed, a call that returned  *)
(*     left none behind, and no allocation overwrites a pointer that still *)
(*     has a block;                                                        *)
(*   - an ML25 call that fails has written nothing, and the calls keep the *)
(*     contract of EvalContract;                                           *)
(*   - with room for the demands of all callers no call runs out of it.    *)
(***************************************************************************)
EXTENDS Evaluation, SpinComponents_proofs, FiniteSetTheorems, TLAPS

(* A call that passed the argument checks and has not returned. *)
Accepted(c) ==
  /\ request[c] \in Requests
  /\ Validate(request[c]) = "OK"

(* Which pointers a call can hold where it is. Outside the nested evaluation
   there are only the buffers of the call itself; the prefix buffer lives until
   the outer evaluation has taken the result of the nested one. *)
PointersByLocation(c) ==
  /\ pc[c] \in {"idle", "validate", "streaming", "contracted"} =>
       locals[c] = {} /\ ~nested[c]
  /\ pc[c] = "replace" => ~nested[c]
  /\ pc[c] = "resume" => ~nested[c] /\ locals[c] \subseteq Frame(1) \cup {Prefix}
  /\ pc[c] # "resume" /\ ~nested[c] => locals[c] \subseteq Frame(1)

(* Where no pointer is dropped with its block live and no block freed with its
   pointer kept, each live block has its pointer and each pointer its block. *)
BlocksHavePointers ==
  \A c \in Callers, p \in Pointers : <<c, p>> \in heap <=> p \in locals[c]

CallsInv ==
  /\ \A c \in Callers : PointersByLocation(c)
  /\ \A c \in Callers : pc[c] = "validate" => request[c] \in Requests
  /\ \A c \in Callers : pc[c] \notin {"idle", "validate"} => Accepted(c)

MemoryInv == TypeOK /\ BlocksHavePointers /\ CallsInv
-----------------------------------------------------------------------------
(* Every refusal of the argument checks is a status code. *)
LEMMA StatusOfChecks ==
  ASSUME NEW r \in Requests
  PROVE  Validate(r) \in Status
<1>1. ASSUME NEW nspin, NEW list, NEW i
      PROVE  VariableStatus(nspin, list, i) \in Status
  BY DEF VariableStatus, Status
<1>2. ASSUME NEW nspin, NEW list
      PROVE  VariablesStatus(nspin, list) \in Status
  BY <1>1 DEF VariablesStatus, Status
<1>3. ASSUME NEW impl, NEW e, NEW required
      PROVE  ValidateDerivEntry(impl, e, required) \in Status
  BY <1>2 DEF ValidateDerivEntry, Status
<1>4. ASSUME NEW impl, NEW input, NEW e
      PROVE  EntryStatus(impl, input, e) \in Status
  BY <1>3 DEF EntryStatus, Status
<1>5. ASSUME NEW input
      PROVE  ValidateInput(input) \in Status
  BY DEF ValidateInput, Status
<1>6. ValidateEval(r.impl, r.input, r.entries) \in Status
  BY <1>4, <1>5 DEF ValidateEval, Status
<1>7. ValidateContracted(r.impl, r.input, r.arrays) \in Status
  BY <1>5 DEF ValidateContracted, Status
<1>8. BackendStatus(r.impl.set, r.entries) \in Status
  BY DEF BackendStatus, Status
<1>9. "E_UNSUPPORTED_DERIVATIVE" \in Status /\ "OK" \in Status
  BY DEF Status
<1>10. QED
  BY <1>6, <1>7, <1>8, <1>9 DEF Validate

(* Only a request on an initialised handle passes the checks. *)
LEMMA AcceptedImpl ==
  ASSUME NEW r \in Requests, Validate(r) = "OK"
  PROVE  r.impl \in Impls
<1>1. r.impl # NoImpl
  BY DEF Validate, ValidateEval, ValidateContracted
<1>2. QED
  BY <1>1, RequestsAssumption

(* The transposed inputs and the private outputs have names of the two sets
   the pointers are made of. *)
LEMMA NamesOfInputs == \A i \in 1..Len(InputNames) : InputNames[i] \in InputSet
  BY DEF InputSet, InputNames

(* The same for the private output fields. *)
LEMMA NamesOfFields == \A i \in 1..Len(PrivateFields) : PrivateFields[i].name \in FieldNames
  BY DEF FieldNames
-----------------------------------------------------------------------------
(* An allocation adds one pointer to the call that made it, and its block. *)
LEMMA CallocEffect ==
  ASSUME MemoryType, BlocksHavePointers,
         NEW c \in Callers, NEW p \in Pointers, Calloc(c, p)
  PROVE  /\ MemoryType'
         /\ BlocksHavePointers'
         /\ locals'[c] = locals[c] \cup {p}
         /\ \A d \in Callers \ {c} : locals'[d] = locals[d]
<1>1. MemoryType' /\ locals'[c] = locals[c] \cup {p}
  BY DEF MemoryType, Calloc
<1>2. \A d \in Callers \ {c} : locals'[d] = locals[d]
  BY DEF MemoryType, Calloc
<1>3. BlocksHavePointers'
  BY <1>1, <1>2 DEF BlocksHavePointers, Calloc
<1>4. QED
  BY <1>1, <1>2, <1>3

(* What a call frees and drops in one step: others keep theirs. *)
LEMMA FreeEffect ==
  ASSUME MemoryType, BlocksHavePointers,
         NEW c \in Callers, NEW S, Free(c, S), Drop(c, S)
  PROVE  /\ MemoryType'
         /\ BlocksHavePointers'
         /\ locals'[c] = locals[c] \ S
         /\ \A d \in Callers \ {c} : locals'[d] = locals[d]
<1>1. MemoryType' /\ locals'[c] = locals[c] \ S
  BY DEF MemoryType, Free, Drop
<1>2. \A d \in Callers \ {c} : locals'[d] = locals[d]
  BY DEF MemoryType, Free, Drop
<1>3. BlocksHavePointers'
  BY <1>1, <1>2 DEF BlocksHavePointers, MemoryType, Free, Drop
<1>4. QED
  BY <1>1, <1>2, <1>3

(* A step that leaves the memory alone keeps what is said of it. *)
LEMMA MemoryUnchanged ==
  ASSUME MemoryType, BlocksHavePointers, UNCHANGED memory
  PROVE  MemoryType' /\ BlocksHavePointers' /\ locals' = locals
BY DEF MemoryType, BlocksHavePointers, memory
-----------------------------------------------------------------------------
(* An accepted call runs the generated code of one of the feature sets. *)
LEMMA NestedSet ==
  ASSUME ControlType, NEW c \in Callers, Accepted(c)
  PROVE  EvalSet(c) \in FeatureSets
<1>1. request[c].impl \in Impls
  BY AcceptedImpl DEF Accepted
<1>2. QED
  BY <1>1 DEF EvalSet, FeatureSets, Impls

(* A step of one call may change its output and keeps everyone else's. *)
LEMMA OutputOfOne ==
  ASSUME ControlType, OutputType, NEW c \in Callers, NEW out,
         output' = [output EXCEPT ![c] = out],
         request' = request \/ \E r \in Requests : request' = [request EXCEPT ![c] = r],
         request'[c] \in Requests =>
           out \in [OutputIndices(request'[c]) ->
                     [Parts(request'[c]) -> Origins \cup {"zero"}]]
  PROVE  OutputType'
<1>1. output' = [d \in Callers |-> output'[d]]
  BY DEF OutputType
<1>2. ASSUME NEW d \in Callers, request'[d] \in Requests
      PROVE  output'[d] \in [OutputIndices(request'[d]) ->
                              [Parts(request'[d]) -> Origins \cup {"zero"}]]
  <2>1. CASE d = c
    <3>1. output'[c] = out
      BY DEF OutputType
    <3>2. QED
      BY <1>2, <2>1, <3>1
  <2>2. CASE d # c
    <3>1. output'[d] = output[d] /\ request'[d] = request[d]
      BY <2>2 DEF OutputType, ControlType
    <3>2. QED
      BY <1>2, <3>1 DEF OutputType
  <2>3. QED
    BY <2>1, <2>2
<1>3. QED
  BY <1>1, <1>2 DEF OutputType

(* Outputs of one origin have the shape of the outputs of their request. *)
LEMMA UniformType ==
  ASSUME NEW r, NEW origin \in Origins \cup {"zero"}
  PROVE  Uniform(r, origin) \in [OutputIndices(r) ->
                                  [Parts(r) -> Origins \cup {"zero"}]]
BY DEF Uniform

(* A new call starts with no pointer, whatever the previous one did. *)
LEMMA BeginPreserves ==
  ASSUME MemoryInv, NEW c \in Callers, Begin(c)
  PROVE  MemoryInv'
<1>. USE DEF Begin, Goto, SetStatus, frame
<1>1. ControlType /\ OutputType /\ MemoryType /\ BlocksHavePointers /\ CallsInv
  BY DEF MemoryInv, TypeOK
<1>2. MemoryType' /\ BlocksHavePointers' /\ locals' = locals
  BY <1>1, MemoryUnchanged
<1>3. ControlType'
  BY <1>1 DEF ControlType, Locations, Status
<1>4. OutputType'
  <2>1. PICK r \in Requests : /\ request' = [request EXCEPT ![c] = r]
                              /\ output' = [output EXCEPT ![c] = Untouched(r)]
    OBVIOUS
  <2>2. request'[c] = r
    BY <1>1, <2>1 DEF ControlType
  <2>3. Untouched(r) \in [OutputIndices(r) -> [Parts(r) -> Origins \cup {"zero"}]]
    BY UniformType DEF Untouched, Origins
  <2>4. QED
    BY <1>1, <2>1, <2>2, <2>3, OutputOfOne
<1>5. CallsInv'
  BY <1>1, <1>2 DEF ControlType, CallsInv, PointersByLocation, Accepted
<1>6. QED
  BY <1>2, <1>3, <1>4, <1>5 DEF MemoryInv, TypeOK
-----------------------------------------------------------------------------
(* Every step of a running call keeps the invariant, one case per action. *)
LEMMA StepPreserves ==
  ASSUME MemoryInv, NEW c \in Callers, Step(c)
  PROVE  MemoryInv'
<1>. USE DEF Goto, SetStatus, SetCursor, NextEntry, frame, visible
<1>. ControlType /\ OutputType /\ MemoryType /\ BlocksHavePointers /\ CallsInv
  BY DEF MemoryInv, TypeOK
<1>1. CASE CheckArguments(c)
  <2>. USE <1>1 DEF CheckArguments
  <2>1. MemoryType' /\ BlocksHavePointers' /\ locals' = locals
    BY MemoryUnchanged
  <2>2. ControlType'
    BY StatusOfChecks DEF ControlType, Locations, Status, CallsInv
  <2>3. OutputType'
    BY DEF OutputType
  <2>4. CallsInv'
    BY <2>1 DEF ControlType, CallsInv, PointersByLocation, Accepted
  <2>5. QED
    BY <2>1, <2>2, <2>3, <2>4 DEF MemoryInv, TypeOK
<1>2. CASE RunOnStack(c)
  <2>. USE <1>2 DEF RunOnStack
  <2>1. MemoryType' /\ BlocksHavePointers' /\ locals' = locals
    BY MemoryUnchanged
  <2>2. ControlType'
    BY DEF ControlType, Locations, Status
  <2>3. OutputType'
    <3>1. Accepted(c) /\ request[c].impl.set \in Origins
      BY AcceptedImpl DEF CallsInv, Accepted, Impls, Origins
    <3>2. QED
      BY <3>1, UniformType, OutputOfOne DEF Origins
  <2>4. CallsInv'
    BY <2>1 DEF ControlType, CallsInv, PointersByLocation, Accepted
  <2>5. QED
    BY <2>1, <2>2, <2>3, <2>4 DEF MemoryInv, TypeOK
<1>3. CASE CallocInput(c)
  <2>. USE <1>3 DEF CallocInput
  <2>1. /\ MemoryType' /\ BlocksHavePointers'
        /\ locals'[c] \subseteq locals[c] \cup Inputs(Level(c))
        /\ \A d \in Callers \ {c} : locals'[d] = locals[d]
    <3>. DEFINE p == <<Level(c), InputNames[cursor[c]]>>
    <3>1. CASE CallocFails
      BY <3>1, MemoryUnchanged DEF CallocFails
    <3>2. CASE Calloc(c, p)
      <4>1. p \in Inputs(Level(c)) /\ p \in Pointers
        BY NamesOfInputs DEF ControlType, Inputs, Level, Pointers, Frame
      <4>2. QED
        BY <3>2, <4>1, CallocEffect
    <3>3. QED
      BY <3>1, <3>2
  <2>2. ControlType'
    BY DEF ControlType, Locations, Status
  <2>3. OutputType'
    BY DEF OutputType
  <2>4. CallsInv'
    BY <2>1 DEF ControlType, CallsInv, PointersByLocation, Accepted, Frame, Level
  <2>5. QED
    BY <2>1, <2>2, <2>3, <2>4 DEF MemoryInv, TypeOK
<1>4. CASE TransposeInputs(c)
  <2>. USE <1>4 DEF TransposeInputs
  <2>1. /\ MemoryType' /\ BlocksHavePointers'
        /\ locals'[c] \subseteq locals[c]
        /\ \A d \in Callers \ {c} : locals'[d] = locals[d]
    BY FreeEffect, MemoryUnchanged
  <2>2. ControlType'
    <3>1. status' \in [Callers -> Status \cup {"none"}]
      BY DEF ControlType, Status
    <3>2. pc' \in [Callers -> Locations]
      <4>1. \E l \in {"allocate", "cleanup"} : pc' = [pc EXCEPT ![c] = l]
        OBVIOUS
      <4>2. QED
        BY <4>1 DEF ControlType, Locations
    <3>3. QED
      BY <3>1, <3>2 DEF ControlType
  <2>3. OutputType'
    BY DEF OutputType
  <2>4. CallsInv'
    <3>1. PointersByLocation(c)'
      BY <2>1 DEF ControlType, CallsInv, PointersByLocation
    <3>2. ASSUME NEW d \in Callers, d # c
          PROVE  /\ locals'[d] = locals[d] /\ pc'[d] = pc[d]
                 /\ request'[d] = request[d] /\ nested'[d] = nested[d]
      BY <2>1, <3>2 DEF ControlType
    <3>3. /\ pc'[c] \in {"allocate", "cleanup"} /\ pc[c] = "transpose"
          /\ request' = request
      BY DEF ControlType
    <3>4. \A d \in Callers : PointersByLocation(d)'
      BY <3>1, <3>2 DEF CallsInv, PointersByLocation
    <3>5. QED
      BY <3>2, <3>3, <3>4 DEF CallsInv, Accepted
  <2>5. QED
    BY <2>1, <2>2, <2>3, <2>4 DEF MemoryInv, TypeOK
<1>5. CASE CallocOutput(c)
  <2>. USE <1>5 DEF CallocOutput
  <2>1. /\ MemoryType' /\ BlocksHavePointers'
        /\ locals'[c] \subseteq locals[c] \cup Outputs(Level(c))
        /\ \A d \in Callers \ {c} : locals'[d] = locals[d]
    <3>1. PICK i \in PendingFields(c) : Calloc(c, <<Level(c), PrivateFields[i].name>>)
      OBVIOUS
    <3>. DEFINE p == <<Level(c), PrivateFields[i].name>>
    <3>2. p \in Outputs(Level(c)) /\ p \in Pointers
      BY NamesOfFields DEF PendingFields, StoredFields, Outputs, Level, Pointers, Frame
    <3>3. QED
      BY <3>1, <3>2, CallocEffect
  <2>2. ControlType'
    BY DEF ControlType, PendingFields, StoredFields
  <2>3. OutputType'
    BY DEF OutputType
  <2>4. CallsInv'
    BY <2>1 DEF ControlType, CallsInv, PointersByLocation, Accepted, Frame, Level
  <2>5. QED
    BY <2>1, <2>2, <2>3, <2>4 DEF MemoryInv, TypeOK
<1>6. CASE CallocOutputFails(c)
  <2>. USE <1>6 DEF CallocOutputFails
  <2>1. /\ MemoryType' /\ BlocksHavePointers'
        /\ locals'[c] = locals[c] \ Outputs(Level(c))
        /\ \A d \in Callers \ {c} : locals'[d] = locals[d]
    BY FreeEffect
  <2>2. ControlType'
    BY DEF ControlType, Locations, Status
  <2>3. OutputType'
    BY DEF OutputType
  <2>4. CallsInv'
    BY <2>1 DEF ControlType, CallsInv, PointersByLocation, Accepted
  <2>5. QED
    BY <2>1, <2>2, <2>3, <2>4 DEF MemoryInv, TypeOK
<1>7. CASE OutputsAllocated(c)
  <2>. USE <1>7 DEF OutputsAllocated
  <2>1. MemoryType' /\ BlocksHavePointers' /\ locals' = locals
    BY MemoryUnchanged
  <2>2. ControlType'
    <3>1. private[c] \in PrivateContents /\ Level(c) \in 1..2
      BY DEF ControlType, Level
    <3>2. [private[c] EXCEPT ![Level(c)] = "zero"] \in PrivateContents
      BY <3>1 DEF PrivateContents
    <3>3. private' \in [Callers -> PrivateContents]
      BY <3>2 DEF ControlType
    <3>4. QED
      BY <3>3 DEF ControlType, Locations, Status
  <2>3. OutputType'
    BY DEF OutputType
  <2>4. CallsInv'
    BY <2>1 DEF ControlType, CallsInv, PointersByLocation, Accepted
  <2>5. QED
    BY <2>1, <2>2, <2>3, <2>4 DEF MemoryInv, TypeOK
<1>8. CASE RunKernel(c)
  <2>. USE <1>8 DEF RunKernel
  <2>1. MemoryType' /\ BlocksHavePointers' /\ locals' = locals
    BY MemoryUnchanged
  <2>2. ControlType'
    <3>1. private[c] \in PrivateContents /\ Level(c) \in 1..2
      BY DEF ControlType, Level
    <3>2. EvalSet(c) \in FeatureSets
      BY NestedSet DEF CallsInv
    <3>3. [private[c] EXCEPT ![Level(c)] =
              IF request[c].input.npoints = 0 THEN @ ELSE EvalSet(c)]
            \in PrivateContents
      BY <3>1, <3>2 DEF PrivateContents
    <3>4. private' \in [Callers -> PrivateContents]
      BY <3>3 DEF ControlType
    <3>5. QED
      BY <3>4 DEF ControlType, Locations, Status
  <2>3. OutputType'
    BY DEF OutputType
  <2>4. CallsInv'
    BY <2>1 DEF ControlType, CallsInv, PointersByLocation, Accepted
  <2>5. QED
    BY <2>1, <2>2, <2>3, <2>4 DEF MemoryInv, TypeOK
<1>9. CASE CopyEntry(c)
  <2>. USE <1>9 DEF CopyEntry
  <2>1. MemoryType' /\ BlocksHavePointers' /\ locals' = locals
    BY MemoryUnchanged
  <2>2. ControlType'
    <3>1. scratch' \in [Callers -> FeatureSets \cup {"zero"}]
      <4>1. private[c][2] \in FeatureSets \cup {"zero"}
        BY DEF ControlType, PrivateContents
      <4>2. QED
        BY <4>1 DEF ControlType
    <3>2. cursor' \in [Callers -> Nat \ {0}]
      BY DEF ControlType
    <3>3. UNCHANGED <<request, status, pc, nested, entry, private>>
      OBVIOUS
    <3>4. QED
      BY <3>1, <3>2, <3>3 DEF ControlType
  <2>3. OutputType'
    <3>1. CASE nested[c]
      BY <3>1 DEF OutputType
    <3>2. CASE ~nested[c]
      <4>. DEFINE written == [p \in Parts(request[c]) |-> private[c][1]]
                  out == [output[c] EXCEPT ![cursor[c]] = written]
      <4>1. output' = [output EXCEPT ![c] = out] /\ request' = request
        BY <3>2
      <4>2. written \in [Parts(request[c]) -> Origins \cup {"zero"}]
        <5>1. private[c][1] \in Origins \cup {"zero"}
          BY DEF ControlType, PrivateContents, Origins
        <5>2. QED
          BY <5>1
      <4>3. request[c] \in Requests =>
              out \in [OutputIndices(request[c]) ->
                         [Parts(request[c]) -> Origins \cup {"zero"}]]
        BY <4>2 DEF OutputType
      <4>4. QED
        BY <4>1, <4>3, OutputOfOne
    <3>3. QED
      BY <3>1, <3>2
  <2>4. CallsInv'
    BY <2>1 DEF ControlType, CallsInv, PointersByLocation, Accepted
  <2>5. QED
    BY <2>1, <2>2, <2>3, <2>4 DEF MemoryInv, TypeOK
<1>10. CASE NoSourceBuffer(c)
  <2>. USE <1>10 DEF NoSourceBuffer
  <2>1. MemoryType' /\ BlocksHavePointers' /\ locals' = locals
    BY MemoryUnchanged
  <2>2. ControlType'
    BY DEF ControlType, Locations, Status
  <2>3. OutputType'
    BY DEF OutputType
  <2>4. CallsInv'
    BY <2>1 DEF ControlType, CallsInv, PointersByLocation, Accepted
  <2>5. QED
    BY <2>1, <2>2, <2>3, <2>4 DEF MemoryInv, TypeOK
<1>11. CASE EntriesCopied(c)
  <2>. USE <1>11 DEF EntriesCopied
  <2>1. MemoryType' /\ BlocksHavePointers' /\ locals' = locals
    BY MemoryUnchanged
  <2>2. ControlType'
    BY DEF ControlType, Locations, Status
  <2>3. OutputType'
    BY DEF OutputType
  <2>4. CallsInv'
    <3>1. EvalSet(c) = "ML26" => ~nested[c]
      BY DEF EvalSet
    <3>2. PointersByLocation(c)'
      BY <2>1, <3>1 DEF ControlType, CallsInv, PointersByLocation
    <3>3. QED
      BY <2>1, <3>2 DEF ControlType, CallsInv, PointersByLocation, Accepted
  <2>5. QED
    BY <2>1, <2>2, <2>3, <2>4 DEF MemoryInv, TypeOK
<1>12. CASE SkipOrderZero(c)
  <2>. USE <1>12 DEF SkipOrderZero
  <2>1. MemoryType' /\ BlocksHavePointers' /\ locals' = locals
    BY MemoryUnchanged
  <2>2. ControlType'
    BY DEF ControlType, Locations, Status
  <2>3. OutputType'
    BY DEF OutputType
  <2>4. CallsInv'
    BY <2>1 DEF ControlType, CallsInv, PointersByLocation, Accepted
  <2>5. QED
    BY <2>1, <2>2, <2>3, <2>4 DEF MemoryInv, TypeOK
<1>13. CASE BeginPrefix(c)
  <2>. USE <1>13 DEF BeginPrefix
  <2>1. /\ MemoryType' /\ BlocksHavePointers'
        /\ locals'[c] = locals[c] \cup {Prefix}
        /\ \A d \in Callers \ {c} : locals'[d] = locals[d]
    BY CallocEffect DEF Pointers
  <2>2. ControlType'
    BY DEF ControlType, Locations, Status
  <2>3. OutputType'
    BY DEF OutputType
  <2>4. CallsInv'
    BY <2>1 DEF ControlType, CallsInv, PointersByLocation, Accepted
  <2>5. QED
    BY <2>1, <2>2, <2>3, <2>4 DEF MemoryInv, TypeOK
<1>14. CASE BeginPrefixFails(c)
  <2>. USE <1>14 DEF BeginPrefixFails
  <2>1. MemoryType' /\ BlocksHavePointers' /\ locals' = locals
    BY MemoryUnchanged DEF CallocFails
  <2>2. ControlType'
    BY DEF ControlType, Locations, Status
  <2>3. OutputType'
    BY DEF OutputType
  <2>4. CallsInv'
    BY <2>1 DEF ControlType, CallsInv, PointersByLocation, Accepted
  <2>5. QED
    BY <2>1, <2>2, <2>3, <2>4 DEF MemoryInv, TypeOK
<1>15. CASE EndPrefix(c)
  <2>. USE <1>15 DEF EndPrefix
  <2>1. /\ MemoryType' /\ BlocksHavePointers'
        /\ locals'[c] = locals[c] \ {Prefix}
        /\ \A d \in Callers \ {c} : locals'[d] = locals[d]
    BY FreeEffect
  <2>2. ControlType'
    BY DEF ControlType, Locations, Status
  <2>3. OutputType'
    <3>1. CASE status[c] # "OK"
      BY <3>1 DEF OutputType
    <3>2. CASE status[c] = "OK"
      <4>. DEFINE row == [output[c][entry[c]] EXCEPT !["prefix"] = scratch[c]]
                  out == [output[c] EXCEPT ![entry[c]] = row]
      <4>1. output' = [output EXCEPT ![c] = out] /\ request' = request
        BY <3>2
      <4>2. request[c] \in Requests =>
              out \in [OutputIndices(request[c]) ->
                         [Parts(request[c]) -> Origins \cup {"zero"}]]
        <5>1. scratch[c] \in Origins \cup {"zero"}
          BY DEF ControlType, Origins
        <5>2. CASE entry[c] \in OutputIndices(request[c])
          BY <5>1, <5>2 DEF OutputType
        <5>3. CASE entry[c] \notin OutputIndices(request[c])
          BY <5>3 DEF OutputType
        <5>4. QED
          BY <5>2, <5>3
      <4>3. QED
        BY <4>1, <4>2, OutputOfOne
    <3>3. QED
      BY <3>1, <3>2
  <2>4. CallsInv'
    BY <2>1 DEF ControlType, CallsInv, PointersByLocation, Accepted
  <2>5. QED
    BY <2>1, <2>2, <2>3, <2>4 DEF MemoryInv, TypeOK
<1>16. CASE EntriesReplaced(c)
  <2>. USE <1>16 DEF EntriesReplaced
  <2>1. MemoryType' /\ BlocksHavePointers' /\ locals' = locals
    BY MemoryUnchanged
  <2>2. ControlType'
    BY DEF ControlType, Locations, Status
  <2>3. OutputType'
    BY DEF OutputType
  <2>4. CallsInv'
    BY <2>1 DEF ControlType, CallsInv, PointersByLocation, Accepted
  <2>5. QED
    BY <2>1, <2>2, <2>3, <2>4 DEF MemoryInv, TypeOK
<1>17. CASE Cleanup(c)
  <2>. USE <1>17 DEF Cleanup
  <2>1. /\ MemoryType' /\ BlocksHavePointers'
        /\ locals'[c] = locals[c] \ Frame(Level(c))
        /\ \A d \in Callers \ {c} : locals'[d] = locals[d]
    BY FreeEffect
  <2>2. ControlType'
    BY DEF ControlType, Locations, Status
  <2>3. OutputType'
    BY DEF OutputType
  <2>4. CallsInv'
    <3>1. CASE nested[c]
      <4>1. locals'[c] \subseteq Frame(1) \cup {Prefix}
        BY <2>1, <3>1 DEF MemoryType, Pointers, Level
      <4>2. PointersByLocation(c)'
        BY <3>1, <4>1 DEF ControlType, PointersByLocation
      <4>3. QED
        BY <2>1, <3>1, <4>2 DEF ControlType, CallsInv, PointersByLocation, Accepted
    <3>2. CASE ~nested[c]
      <4>1. locals'[c] = {}
        BY <2>1, <3>2 DEF CallsInv, PointersByLocation, Level
      <4>2. PointersByLocation(c)'
        BY <3>2, <4>1 DEF ControlType, PointersByLocation
      <4>3. QED
        BY <2>1, <3>2, <4>2 DEF ControlType, CallsInv, PointersByLocation, Accepted
    <3>3. QED
      BY <3>1, <3>2
  <2>5. QED
    BY <2>1, <2>2, <2>3, <2>4 DEF MemoryInv, TypeOK
<1>18. QED
  BY <1>1, <1>2, <1>3, <1>4, <1>5, <1>6, <1>7, <1>8, <1>9, <1>10, <1>11, <1>12, <1>13, <1>14, <1>15, <1>16, <1>17 DEF Step
-----------------------------------------------------------------------------
(* The inductive invariant: types, the match of heap and pointers, and which
   pointers a call can hold where it is in its code. *)
THEOREM MemoryInvariant == Spec => []MemoryInv
<1>1. Init => MemoryInv
  <2>. SUFFICES ASSUME Init PROVE MemoryInv
    OBVIOUS
  <2>. USE DEF Init
  <2>1. ControlType
    BY DEF ControlType, Locations, PrivateContents
  <2>2. OutputType
    <3>1. NoRequest \notin Requests
      BY RequestsAssumption DEF NoRequest
    <3>2. QED
      BY <3>1 DEF OutputType
  <2>3. MemoryType /\ BlocksHavePointers
    BY DEF MemoryType, BlocksHavePointers
  <2>4. CallsInv
    BY DEF CallsInv, PointersByLocation
  <2>5. QED
    BY <2>1, <2>2, <2>3, <2>4 DEF MemoryInv, TypeOK
<1>2. MemoryInv /\ [Next]_vars => MemoryInv'
  <2>. SUFFICES ASSUME MemoryInv, [Next]_vars PROVE MemoryInv'
    OBVIOUS
  <2>1. CASE Next
    BY <2>1, BeginPreserves, StepPreserves DEF Next
  <2>2. CASE UNCHANGED vars
    <3>. USE <2>2 DEF vars, visible, frame, memory, MemoryInv
    <3>1. TypeOK'
      BY DEF TypeOK, ControlType, OutputType, MemoryType
    <3>2. BlocksHavePointers'
      BY DEF BlocksHavePointers
    <3>3. CallsInv'
      BY DEF CallsInv, PointersByLocation, Accepted
    <3>4. QED
      BY <3>1, <3>2, <3>3
  <2>3. QED
    BY <2>1, <2>2
<1>3. QED
  BY <1>1, <1>2, PTL DEF Spec

(* Type correctness of the evaluation. *)
THEOREM TypeCorrect == Spec => []TypeOK
BY MemoryInvariant, PTL DEF MemoryInv

(* No block is freed twice and none is used after it was freed: what a failing
   transposition or allocation frees is NULL when the cleanup label frees the
   pointers of the whole frame. *)
THEOREM NothingFreedTwice == Spec => []NoFreedBlockUsed
<1>1. MemoryInv => NoFreedBlockUsed
  <2>. SUFFICES ASSUME MemoryInv, NEW c \in Callers, NEW p \in locals[c]
                PROVE  <<c, p>> \in heap
    BY DEF NoFreedBlockUsed
  <2>1. p \in Pointers
    BY DEF MemoryInv, TypeOK, MemoryType
  <2>2. QED
    BY <2>1 DEF MemoryInv, BlocksHavePointers
<1>2. QED
  BY <1>1, MemoryInvariant, PTL

(* A call that returned left no block behind: the pointers it still had when
   it reached the cleanup label were all of the frame the label frees. *)
THEOREM NoLeak == Spec => []NothingHeldWhenIdle
<1>1. MemoryInv => NothingHeldWhenIdle
  <2>. SUFFICES ASSUME MemoryInv, NEW c \in Callers, pc[c] = "idle",
                       NEW b \in heap, b[1] = c
                PROVE  FALSE
    BY DEF NothingHeldWhenIdle
  <2>1. PICK p \in Pointers : b = <<c, p>>
    BY DEF MemoryInv, TypeOK, MemoryType
  <2>2. p \in locals[c]
    BY <2>1 DEF MemoryInv, BlocksHavePointers
  <2>3. QED
    BY <2>2 DEF MemoryInv, CallsInv, PointersByLocation
<1>2. QED
  BY <1>1, MemoryInvariant, PTL
-----------------------------------------------------------------------------
(* No two of the transposed inputs have the same name ... *)
LEMMA InputNamesDiffer ==
  \A i, j \in 1..Len(InputNames) : InputNames[i] = InputNames[j] => i = j
BY DEF InputNames

(* ... or an input, an output and the prefix buffer. *)
LEMMA NamesDiffer ==
  /\ InputSet \cap FieldNames = {}
  /\ "prefix" \notin InputSet \cup FieldNames
<1>1. InputSet = {"rho_tm", "sigma_tm", "tau_tm", "lapl_tm"}
  BY DEF InputSet, InputNames
<1>2. \A i \in 1..35 : PrivateFields[i].name \notin InputSet \cup {"prefix"}
  BY <1>1, FieldNameList, SMTT(60)
<1>3. QED
  BY <1>1, <1>2, NumberOfFields DEF FieldNames

(* The frames of the two levels and the prefix buffer are told apart. *)
LEMMA FramesDiffer ==
  /\ Frame(1) \cap Frame(2) = {}
  /\ Prefix \notin Frame(1) \cup Frame(2)
  /\ \A level \in 1..2 : Inputs(level) \cap Outputs(level) = {}
<1>1. Prefix \notin Frame(1) \cup Frame(2)
  BY NamesDiffer DEF Frame, Inputs, Outputs, Prefix
<1>2. \A level \in 1..2 : Inputs(level) \cap Outputs(level) = {}
  BY NamesDiffer DEF Inputs, Outputs
<1>3. QED
  BY <1>1, <1>2 DEF Frame, Inputs, Outputs
-----------------------------------------------------------------------------
(* Where the output of a call stands: what a combined evaluation has copied
   before the cursor comes from the code of its set. *)
CopiedUpTo(r, k) ==
  [i \in OutputIndices(r) |->
     [p \in Parts(r) |-> IF i < k THEN r.impl.set ELSE "caller"]]

CombinedLocations ==
  {"transpose", "allocate", "kernel", "copy", "replace", "resume", "cleanup"}

(* The fields the evaluation a caller is in has storage for. *)
Stored(c) ==
  StoredFields(request[c].impl.nspin, request[c].input.npoints,
               MaxRequestedOrder(Entries(c)))

(* Which path a call is on, and for which entry it is in a nested evaluation. *)
PathInv(c) ==
  /\ pc[c] \in {"streaming", "contracted"} => ~IsCombined(request[c])
  /\ pc[c] \in CombinedLocations => IsCombined(request[c])
  /\ nested[c] \/ pc[c] \in {"replace", "resume"} =>
       request[c].impl.set = "ML26" /\ request[c].input.npoints # 0
  /\ nested[c] \/ pc[c] = "resume" =>
       entry[c] \in DOMAIN request[c].entries /\ IsDerivative(request[c], entry[c])
  /\ pc[c] \in CombinedLocations /\ request[c].input.npoints = 0 => locals[c] = {}

(* Which fields have their storage, and what is in it once the code ran. *)
BufferInv(c) ==
  /\ pc[c] = "allocate" => \A i \in Stored(c) :
       i < cursor[c] => <<Level(c), PrivateFields[i].name>> \in locals[c]
  /\ pc[c] \in {"kernel", "copy"} => \A i \in Stored(c) :
       <<Level(c), PrivateFields[i].name>> \in locals[c]
  /\ pc[c] = "copy" =>
       IF request[c].input.npoints = 0 THEN cursor[c] = 1
       ELSE private[c][Level(c)] = EvalSet(c)

(* What the caller's output holds and which status the call will return. *)
AnswerInv(c) ==
  /\ \/ pc[c] \in {"validate", "streaming", "contracted"}
     \/ pc[c] \in {"transpose", "allocate", "kernel"} /\ ~nested[c]
     => status[c] = "none" /\ output[c] = Untouched(request[c])
  /\ pc[c] = "copy" /\ ~nested[c] =>
       status[c] = "none" /\ output[c] = CopiedUpTo(request[c], cursor[c])
  /\ nested[c] \/ pc[c] \in {"replace", "resume"} =>
       output[c] = ReplacedUpTo(request[c], entry[c] - 1)
  /\ nested[c] /\ pc[c] = "copy" /\ cursor[c] > 1 => scratch[c] = "ML25"
  /\ (nested[c] /\ pc[c] = "cleanup") \/ pc[c] = "resume" =>
       /\ status[c] \in {"OK", "E_ALLOCATION"}
       /\ status[c] = "OK" => scratch[c] = "ML25"
  /\ pc[c] = "cleanup" /\ ~nested[c] =>
       <<status[c], output[c]>> \in Outcomes(request[c])

AnswersInv == \A c \in Callers : PathInv(c) /\ BufferInv(c) /\ AnswerInv(c)
-----------------------------------------------------------------------------
(* A step of one call leaves the state of every other call alone. *)
Own(c) == <<request[c], status[c], output[c], pc[c], nested[c], cursor[c],
            entry[c], locals[c], private[c], scratch[c]>>

LEMMA StepsAreOwn ==
  ASSUME MemoryInv, NEW c \in Callers, Begin(c) \/ Step(c), NEW d \in Callers \ {c}
  PROVE  Own(d)' = Own(d)
<1>. USE DEF Goto, SetStatus, SetCursor, NextEntry, frame, visible, memory
<1>. ControlType /\ OutputType /\ MemoryType
  BY DEF MemoryInv, TypeOK
<1>1. CASE Begin(c)
  BY <1>1 DEF Begin, Own, ControlType, OutputType, MemoryType
<1>2. CASE CheckArguments(c) \/ RunOnStack(c)
  BY <1>2 DEF CheckArguments, RunOnStack, Own, ControlType, OutputType, MemoryType
<1>3. CASE CallocInput(c) \/ CallocOutput(c)
  BY <1>3 DEF CallocInput, CallocOutput, Calloc, CallocFails, Own, ControlType, OutputType, MemoryType
<1>4. CASE TransposeInputs(c) \/ CallocOutputFails(c)
  BY <1>4 DEF TransposeInputs, CallocOutputFails, Free, Drop, Own, ControlType, OutputType, MemoryType
<1>5. CASE OutputsAllocated(c) \/ RunKernel(c)
  BY <1>5 DEF OutputsAllocated, RunKernel, Own, ControlType, OutputType, MemoryType
<1>6. CASE CopyEntry(c) \/ NoSourceBuffer(c) \/ EntriesCopied(c)
  BY <1>6 DEF CopyEntry, NoSourceBuffer, EntriesCopied, Own, ControlType, OutputType, MemoryType
<1>7. CASE SkipOrderZero(c) \/ BeginPrefix(c) \/ BeginPrefixFails(c)
  BY <1>7 DEF SkipOrderZero, BeginPrefix, BeginPrefixFails, Calloc, CallocFails, Own, ControlType, OutputType, MemoryType
<1>8. CASE EndPrefix(c) \/ EntriesReplaced(c) \/ Cleanup(c)
  BY <1>8 DEF EndPrefix, EntriesReplaced, Cleanup, Free, Drop, Own, ControlType, OutputType, MemoryType
<1>9. QED
  BY <1>1, <1>2, <1>3, <1>4, <1>5, <1>6, <1>7, <1>8 DEF Step
-----------------------------------------------------------------------------
(* The pointers the next allocations are given to are NULL. *)
NextAreNull == \A c \in Callers : NextPointers(c) \cap locals[c] = {}

(* What the next allocations of a call are given to is untouched by others. *)
LEMMA NextPointersAreOwn ==
  ASSUME NEW d \in Callers, Own(d)' = Own(d)
  PROVE  NextPointers(d)' = NextPointers(d) /\ locals'[d] = locals[d]
BY DEF Own, NextPointers, Level, PendingFields, Entries

(* Only an allocation takes a pointer, and it takes the first of those that
   are to come. *)
LEMMA NextPointersAreFree ==
  ASSUME MemoryInv, NextAreNull, NEW c \in Callers, Begin(c) \/ Step(c)
  PROVE  NextPointers(c)' \cap locals'[c] = {}
<1>. USE DEF Goto, SetStatus, SetCursor, NextEntry, frame, visible, memory
<1>. DEFINE Here == NextPointers(c) \cap locals[c] = {}
<1>. ControlType /\ OutputType /\ MemoryType /\ CallsInv /\ Here
  BY DEF MemoryInv, TypeOK, NextAreNull
<1>1. Level(c) \in 1..2 /\ Level(c)' \in 1..2
  BY DEF Level
<1>2. CASE pc'[c] \notin {"transpose", "allocate", "replace"}
  BY <1>2 DEF NextPointers
<1>3. CASE Begin(c) \/ RunOnStack(c) \/ CallocOutputFails(c) \/ OutputsAllocated(c) \/ RunKernel(c)
  <2>1. pc'[c] \notin {"transpose", "allocate", "replace"}
    BY <1>3 DEF Begin, RunOnStack, CallocOutputFails, OutputsAllocated, RunKernel, ControlType
  <2>2. QED
    BY <1>2, <2>1
<1>4. CASE CopyEntry(c) \/ NoSourceBuffer(c) \/ BeginPrefixFails(c) \/ EntriesReplaced(c) \/ Cleanup(c)
  <2>1. pc'[c] \notin {"transpose", "allocate", "replace"}
    BY <1>4 DEF CopyEntry, NoSourceBuffer, BeginPrefixFails, EntriesReplaced, Cleanup, ControlType
  <2>2. QED
    BY <1>2, <2>1
<1>5. CASE pc'[c] = "replace" /\ ~nested'[c] /\ locals'[c] \subseteq Frame(1)
  BY <1>5, FramesDiffer DEF NextPointers
<1>6. MemoryInv'
  BY BeginPreserves, StepPreserves
<1>7. CASE pc'[c] = "replace"
  BY <1>5, <1>6, <1>7 DEF MemoryInv, CallsInv, PointersByLocation
<1>8. CASE CheckArguments(c)
  <2>1. locals'[c] = {}
    BY <1>8 DEF CheckArguments, CallsInv, PointersByLocation
  <2>2. QED
    BY <2>1
<1>9. CASE CallocInput(c)
  <2>. USE <1>9 DEF CallocInput
  <2>. DEFINE l == Level(c)
              p == <<l, InputNames[cursor[c]]>>
  <2>1. /\ pc[c] = "transpose" /\ pc'[c] = "transpose" /\ Level(c)' = l
        /\ cursor'[c] = cursor[c] + 1 /\ cursor[c] \in 1..Len(InputNames)
    BY DEF ControlType, Level, InputNames
  <2>2. locals'[c] \subseteq locals[c] \cup {p}
    BY DEF Calloc, CallocFails, MemoryType
  <2>3. NextPointers(c)' \subseteq NextPointers(c)
    BY <2>1 DEF NextPointers, ControlType, InputNames
  <2>4. p \notin NextPointers(c)'
    <3>1. \A i \in cursor'[c]..Len(InputNames) : p # <<l, InputNames[i]>>
      BY <2>1, InputNamesDiffer DEF ControlType, InputNames
    <3>2. p \notin Outputs(l)
      BY <1>1, <2>1, NamesOfInputs, NamesDiffer DEF Outputs
    <3>3. QED
      BY <2>1, <3>1, <3>2 DEF NextPointers
  <2>5. QED
    BY <2>2, <2>3, <2>4
<1>10. CASE TransposeInputs(c)
  <2>. USE <1>10 DEF TransposeInputs
  <2>1. CASE pc'[c] = "allocate"
    <3>1. /\ pc[c] = "transpose" /\ Level(c)' = Level(c)
          /\ locals'[c] \subseteq locals[c]
      BY DEF Level, Drop, MemoryType
    <3>2. NextPointers(c)' \subseteq Outputs(Level(c))
      BY <2>1, <3>1, NamesOfFields DEF NextPointers, PendingFields, StoredFields, Outputs
    <3>3. Outputs(Level(c)) \subseteq NextPointers(c)
      BY <3>1 DEF NextPointers
    <3>4. QED
      BY <3>1, <3>2, <3>3
  <2>2. CASE pc'[c] # "allocate"
    <3>1. pc'[c] = "cleanup"
      BY <2>2 DEF ControlType
    <3>2. QED
      BY <1>2, <3>1
  <2>3. QED
    BY <2>1, <2>2
<1>11. CASE CallocOutput(c)
  <2>. USE <1>11 DEF CallocOutput
  <2>. DEFINE l == Level(c)
  <2>1. PICK i \in PendingFields(c) : /\ Calloc(c, <<l, PrivateFields[i].name>>)
                                     /\ SetCursor(c, i + 1)
    OBVIOUS
  <2>. DEFINE p == <<l, PrivateFields[i].name>>
  <2>2. /\ pc[c] = "allocate" /\ pc'[c] = "allocate" /\ Level(c)' = l
        /\ i \in 1..Len(PrivateFields) /\ cursor'[c] = i + 1
    BY <2>1 DEF ControlType, Level, PendingFields, StoredFields
  <2>3. locals'[c] \subseteq locals[c] \cup {p}
    BY <2>1 DEF Calloc, MemoryType
  <2>4. \A k \in PendingFields(c)' : k \in PendingFields(c) /\ k > i /\ k \in 1..Len(PrivateFields)
    BY <2>1, <2>2 DEF PendingFields, StoredFields, Entries, ControlType
  <2>5. NextPointers(c)' \subseteq NextPointers(c)
    BY <2>2, <2>4 DEF NextPointers
  <2>6. p \notin NextPointers(c)'
    BY <2>2, <2>4, FieldNamesDiffer DEF NextPointers
  <2>7. QED
    BY <2>3, <2>5, <2>6
<1>12. CASE EntriesCopied(c) \/ SkipOrderZero(c) \/ EndPrefix(c)
  <2>1. pc'[c] \in {"replace", "cleanup"}
    BY <1>12 DEF EntriesCopied, SkipOrderZero, EndPrefix, ControlType
  <2>2. QED
    BY <1>2, <1>7, <2>1
<1>13. CASE BeginPrefix(c)
  <2>. USE <1>13 DEF BeginPrefix
  <2>1. /\ pc'[c] = "transpose" /\ Level(c)' = 2
        /\ locals'[c] = locals[c] \cup {Prefix}
        /\ locals[c] \subseteq Frame(1)
    BY DEF Level, ControlType, MemoryType, Calloc, CallsInv, PointersByLocation
  <2>2. NextPointers(c)' \subseteq Frame(2)
    <3>1. \A i \in 1..Len(InputNames) : <<2, InputNames[i]>> \in Frame(2)
      BY NamesOfInputs DEF Frame, Inputs
    <3>2. cursor'[c] = 1
      BY DEF ControlType
    <3>3. QED
      BY <2>1, <3>1, <3>2 DEF NextPointers, Frame
  <2>3. QED
    BY <2>1, <2>2, FramesDiffer
<1>14. QED
  BY <1>3, <1>4, <1>8, <1>9, <1>10, <1>11, <1>12, <1>13 DEF Step

(* The next pointers stay NULL over every step of every call. *)
LEMMA NextStayNull == Spec => []NextAreNull
<1>1. Init => NextAreNull
  BY DEF Init, NextAreNull
<1>2. MemoryInv /\ NextAreNull /\ [Next]_vars => NextAreNull'
  <2>. SUFFICES ASSUME MemoryInv, NextAreNull, [Next]_vars, NEW d \in Callers
                PROVE  NextPointers(d)' \cap locals'[d] = {}
    BY DEF NextAreNull
  <2>1. CASE UNCHANGED vars
    <3>1. Own(d)' = Own(d)
      BY <2>1 DEF vars, visible, frame, memory, Own
    <3>2. QED
      BY <3>1, NextPointersAreOwn DEF NextAreNull
  <2>2. ASSUME NEW c \in Callers, Begin(c) \/ Step(c)
        PROVE  NextPointers(d)' \cap locals'[d] = {}
    <3>1. CASE d = c
      BY <2>2, <3>1, NextPointersAreFree
    <3>2. CASE d # c
      BY <2>2, <3>2, StepsAreOwn, NextPointersAreOwn DEF NextAreNull
    <3>3. QED
      BY <3>1, <3>2
  <2>3. QED
    BY <2>1, <2>2 DEF Next
<1>3. QED
  BY <1>1, <1>2, MemoryInvariant, PTL DEF Spec

(* No allocation overwrites a pointer that still has a block. *)
THEOREM NothingForgotten == Spec => []NoBlockForgotten
<1>1. MemoryInv /\ NextAreNull => NoBlockForgotten
  <2>. SUFFICES ASSUME MemoryInv, NextAreNull, NEW c \in Callers,
                       NEW p \in NextPointers(c), <<c, p>> \in heap
                PROVE  FALSE
    BY DEF NoBlockForgotten
  <2>1. p \in Pointers
    BY DEF MemoryInv, TypeOK, MemoryType
  <2>2. p \in locals[c]
    BY <2>1 DEF MemoryInv, BlocksHavePointers
  <2>3. QED
    BY <2>2 DEF NextAreNull
<1>2. QED
  BY <1>1, MemoryInvariant, NextStayNull, PTL
-----------------------------------------------------------------------------
(* An entry of an accepted request passed every check: its order is at most 3,
   and its variables are sorted and have components. *)
IsChecked(r, e) ==
  /\ e.order \in 0..3
  /\ e.order > 0 =>
       /\ Len(e.vars) = e.order
       /\ \A i \in 1..e.order : e.vars[i] \in {RHO, SIGMA, TAU}
       /\ \A i \in 2..e.order : e.vars[i-1] =< e.vars[i]

(* The checks of one entry ... *)
LEMMA CheckedEntry ==
  ASSUME NEW r \in Requests, Validate(r) = "OK", r.op = "eval",
         NEW e \in DerivEntry, Len(e.vars) \in {0, e.order},
         ValidateDerivEntry(r.impl, e, TRUE) = "OK"
  PROVE  IsChecked(r, e)
<1>1. r.impl \in Impls
  BY AcceptedImpl
<1>2. MaxDerivOrder(r.impl.set) =< 3
  BY DEF MaxDerivOrder
<1>3. e.order \in 0..3
  BY <1>2 DEF ValidateDerivEntry, DerivEntry, MaxDerivOrder
<1>4. ASSUME e.order > 0
      PROVE  /\ Len(e.vars) = e.order
             /\ VariablesStatus(r.impl.nspin, e.vars) = "OK"
  <2>1. e.vars # << >> /\ VariablesStatus(r.impl.nspin, e.vars) = "OK"
    BY <1>4 DEF ValidateDerivEntry
  <2>2. e.vars \in Seq(Nat)
    BY DEF DerivEntry
  <2>3. QED
    BY <2>1, <2>2
<1>5. e.vars \in Seq(Nat) /\ r.impl.nspin \in Spins
  BY <1>1 DEF DerivEntry, Impls
<1>6. ASSUME e.order > 0
      PROVE  /\ \A i \in 1..e.order : e.vars[i] \in {RHO, SIGMA, TAU}
             /\ \A i \in 2..e.order : e.vars[i-1] =< e.vars[i]
  <2>1. /\ \A i \in 1..Len(e.vars) : e.vars[i] \in {RHO, SIGMA, TAU}
        /\ \A i \in 2..Len(e.vars) : e.vars[i-1] =< e.vars[i]
    BY <1>4, <1>5, <1>6, CheckedVariables
  <2>2. QED
    BY <1>4, <1>6, <2>1
<1>7. QED
  BY <1>3, <1>4, <1>6 DEF IsChecked

(* ... and those of all entries. *)
LEMMA CheckedEntries ==
  ASSUME NEW r \in Requests, Validate(r) = "OK", r.op = "eval"
  PROVE  /\ Len(r.entries) \in Nat \ {0} /\ DOMAIN r.entries = 1..Len(r.entries)
         /\ \A i \in 1..Len(r.entries) : IsChecked(r, r.entries[i])
<1>. DEFINE bad == {i \in DOMAIN r.entries : EntryStatus(r.impl, r.input, r.entries[i]) # "OK"}
            first == CHOOSE i \in bad : \A j \in bad : i =< j
<1>1. /\ r.entries \in Seq(DerivEntry) /\ DOMAIN r.entries = 1..Len(r.entries)
      /\ Len(r.entries) \in Nat
      /\ \A i \in DOMAIN r.entries : r.entries[i] \in DerivEntry
  BY RequestsAssumption
<1>2. ValidateEval(r.impl, r.input, r.entries) = "OK"
  BY DEF Validate
<1>3. r.entries # << >>
  BY <1>2 DEF ValidateEval
<1>4. bad = {}
  <2>1. SUFFICES ASSUME bad # {} PROVE FALSE
    OBVIOUS
  <2>2. EntryStatus(r.impl, r.input, r.entries[first]) = "OK"
    BY <1>2, <2>1 DEF ValidateEval
  <2>3. bad \subseteq 1..Len(r.entries)
    BY <1>1
  <2>. HIDE DEF bad
  <2>4. first \in bad
    BY <1>1, <2>1, <2>3, FirstExists
  <2>5. EntryStatus(r.impl, r.input, r.entries[first]) # "OK"
    BY <2>4 DEF bad
  <2>6. QED
    BY <2>2, <2>5
<1>5. ASSUME NEW i \in DOMAIN r.entries
      PROVE  IsChecked(r, r.entries[i])
  <2>1. EntryStatus(r.impl, r.input, r.entries[i]) = "OK"
    BY <1>4
  <2>2. ValidateDerivEntry(r.impl, r.entries[i], TRUE) = "OK"
    BY <2>1 DEF EntryStatus
  <2>3. Len(r.entries[i].vars) \in {0, r.entries[i].order}
    BY RequestsAssumption
  <2>4. QED
    BY <1>1, <2>2, <2>3, CheckedEntry
<1>6. QED
  BY <1>1, <1>3, <1>5
-----------------------------------------------------------------------------
(* The highest order of checked entries is that of one of them. *)
LEMMA HighestOrder ==
  ASSUME NEW r, NEW list \in Seq(DerivEntry), list # << >>,
         \A i \in 1..Len(list) : IsChecked(r, list[i])
  PROVE  /\ MaxRequestedOrder(list) \in 0..3
         /\ \A i \in 1..Len(list) : list[i].order =< MaxRequestedOrder(list)
<1>. DEFINE orders == {list[i].order : i \in DOMAIN list}
            Bounds(m) == \A i \in DOMAIN list : list[i].order =< m
<1>1. DOMAIN list = 1..Len(list) /\ 1 \in DOMAIN list
  OBVIOUS
<1>2. orders \subseteq {0, 1, 2, 3} /\ orders # {}
  BY <1>1 DEF IsChecked
<1>3. \E m \in orders : \A k \in orders : k =< m
  <2>. HIDE DEF orders
  <2>1. CASE 3 \in orders
    BY <1>2, <2>1
  <2>2. CASE 3 \notin orders /\ 2 \in orders
    BY <1>2, <2>2
  <2>3. CASE 3 \notin orders /\ 2 \notin orders /\ 1 \in orders
    BY <1>2, <2>3
  <2>4. CASE 3 \notin orders /\ 2 \notin orders /\ 1 \notin orders
    <3>1. \A k \in orders : k = 0
      BY <1>2, <2>4
    <3>2. PICK m \in orders : TRUE
      BY <1>2
    <3>3. \A k \in orders : k =< m
      BY <3>1
    <3>4. QED
      BY <3>3
  <2>5. QED
    BY <2>1, <2>2, <2>3, <2>4
<1>4. \E m \in orders : Bounds(m)
  BY <1>3
<1>5. MaxRequestedOrder(list) = CHOOSE m \in orders : Bounds(m)
  BY DEF MaxRequestedOrder
<1>. HIDE DEF orders, Bounds
<1>6. MaxRequestedOrder(list) \in orders /\ Bounds(MaxRequestedOrder(list))
  BY <1>4, <1>5
<1>7. ASSUME NEW m \in orders PROVE m \in 0..3
  BY <1>2
<1>8. QED
  BY <1>1, <1>6, <1>7 DEF Bounds

(* The field an accepted entry is copied from has storage. *)
LEMMA SourceIsStored ==
  ASSUME NEW r, NEW e \in DerivEntry, IsChecked(r, e),
         NEW nspin \in Spins, NEW npoints \in Nat \ {0},
         NEW m \in 0..3, e.order =< m
  PROVE  \E k \in StoredFields(nspin, npoints, m) : SourceField(e) = PrivateFields[k].name
<1>. DEFINE wanted == IF e.order = 0 THEN << >> ELSE e.vars
            match == {i \in DOMAIN PrivateFields : PrivateFields[i].vars = wanted}
            k == CHOOSE i \in match : TRUE
<1>1. 1..35 = DOMAIN PrivateFields
  BY NumberOfFields DEF PrivateFields
<1>2. wanted \in Seq(Nat) /\ Len(wanted) = e.order /\ Len(wanted) \in 0..3
  <2>1. CASE e.order = 0
    BY <2>1
  <2>2. CASE e.order # 0
    <3>1. wanted = e.vars /\ e.vars \in Seq(Nat)
      BY <2>2 DEF DerivEntry
    <3>2. Len(e.vars) = e.order /\ e.order \in 0..3
      BY <2>2 DEF DerivEntry, IsChecked
    <3>. HIDE DEF wanted
    <3>3. QED
      BY <3>1, <3>2
  <2>3. QED
    BY <2>1, <2>2
<1>3. match # {}
  <2>1. /\ \A i \in 1..Len(wanted) : wanted[i] \in {RHO, SIGMA, TAU}
        /\ \A i \in 2..Len(wanted) : wanted[i-1] =< wanted[i]
    BY <1>2 DEF IsChecked
  <2>. HIDE DEF wanted
  <2>2. QED
    BY <1>2, <2>1, EveryListHasAField
<1>4. SourceField(e) = PrivateFields[k].name
  BY <1>3 DEF SourceField
<1>5. k \in 1..35 /\ PrivateFields[k].vars = wanted
  BY <1>1, <1>3
<1>. HIDE DEF k, match
<1>6. PrivateFields[k].polarized > 0
  BY <1>5, FieldComponents
<1>7. PrivateDimension(nspin, PrivateFields[k], m) > 0
  BY <1>2, <1>5, <1>6 DEF PrivateDimension
<1>8. k \in StoredFields(nspin, npoints, m)
  BY <1>5, <1>7, NumberOfFields DEF StoredFields
<1>9. QED
  BY <1>4, <1>8
-----------------------------------------------------------------------------
(* What the argument checks and the assumption on requests say of a request
   that takes the combined path. *)
LEMMA CombinedRequest ==
  ASSUME NEW r \in Requests, Validate(r) = "OK", IsCombined(r)
  PROVE  /\ r.op = "eval" /\ r.impl.set \in FeatureSets /\ r.impl.nspin \in Spins
         /\ r.input.npoints \in Nat /\ r.entries \in Seq(DerivEntry)
         /\ Len(r.entries) \in Nat \ {0}
         /\ DOMAIN r.entries = 1..Len(r.entries)
         /\ OutputIndices(r) = 1..Len(r.entries)
         /\ \A i \in 1..Len(r.entries) : IsChecked(r, r.entries[i])
<1>1. r.op = "eval"
  BY DEF IsCombined
<1>2. r.impl.set \in FeatureSets /\ r.impl.nspin \in Spins
  BY AcceptedImpl DEF Impls
<1>3. r.input.npoints \in Nat /\ r.entries \in Seq(DerivEntry)
  BY RequestsAssumption
<1>4. QED
  BY <1>1, <1>2, <1>3, CheckedEntries DEF OutputIndices

(* The same of the entries of the evaluation a caller is in. *)
LEMMA EntriesHere ==
  ASSUME NEW c \in Callers, Accepted(c), PathInv(c), ControlType,
         pc[c] \in CombinedLocations
  PROVE  /\ Entries(c) \in Seq(DerivEntry) /\ Len(Entries(c)) \in Nat \ {0}
         /\ nested[c] => Len(Entries(c)) = 1
         /\ MaxRequestedOrder(Entries(c)) \in 0..3
         /\ \A i \in 1..Len(Entries(c)) :
              /\ IsChecked(request[c], Entries(c)[i])
              /\ Entries(c)[i].order =< MaxRequestedOrder(Entries(c))
<1>. DEFINE r == request[c]
<1>1. /\ r.entries \in Seq(DerivEntry) /\ Len(r.entries) \in Nat \ {0}
      /\ DOMAIN r.entries = 1..Len(r.entries)
      /\ \A i \in 1..Len(r.entries) : IsChecked(r, r.entries[i])
  BY CombinedRequest DEF Accepted, PathInv
<1>2. /\ Entries(c) \in Seq(DerivEntry) /\ Len(Entries(c)) \in Nat \ {0}
      /\ nested[c] => Len(Entries(c)) = 1
      /\ \A i \in 1..Len(Entries(c)) : IsChecked(r, Entries(c)[i])
  <2>1. CASE nested[c]
    <3>1. entry[c] \in 1..Len(r.entries)
      BY <1>1, <2>1 DEF PathInv
    <3>. DEFINE e == r.entries[entry[c]]
    <3>2. e \in DerivEntry /\ IsChecked(r, e)
      BY <1>1, <3>1
    <3>3. Entries(c) = <<e>>
      BY <2>1 DEF Entries
    <3>. HIDE DEF e
    <3>4. QED
      BY <3>2, <3>3
  <2>2. CASE ~nested[c]
    BY <1>1, <2>2 DEF Entries
  <2>3. QED
    BY <2>1, <2>2
<1>3. Entries(c) # << >>
  BY <1>2
<1>4. QED
  BY <1>2, <1>3, HighestOrder

(* A copy finds its source: the buffers of all orders up to the highest of
   the request are there, and with them that of every entry. *)
LEMMA SourceHere ==
  ASSUME NEW c \in Callers, Accepted(c), PathInv(c), BufferInv(c), ControlType,
         pc[c] = "copy", request[c].input.npoints # 0,
         cursor[c] =< Len(Entries(c))
  PROVE  <<Level(c), SourceField(Entries(c)[cursor[c]])>> \in locals[c]
<1>. DEFINE r == request[c]
            list == Entries(c)
            e == list[cursor[c]]
<1>1. /\ list \in Seq(DerivEntry) /\ MaxRequestedOrder(list) \in 0..3
      /\ \A i \in 1..Len(list) : /\ IsChecked(r, list[i])
                                 /\ list[i].order =< MaxRequestedOrder(list)
  BY EntriesHere DEF CombinedLocations
<1>2. cursor[c] \in 1..Len(list)
  BY <1>1 DEF ControlType
<1>3. e \in DerivEntry /\ IsChecked(r, e) /\ e.order =< MaxRequestedOrder(list)
  BY <1>1, <1>2
<1>4. r.impl.nspin \in Spins /\ r.input.npoints \in Nat \ {0}
  BY CombinedRequest DEF Accepted, PathInv, CombinedLocations
<1>5. \E k \in Stored(c) : SourceField(e) = PrivateFields[k].name
  <2>. HIDE DEF e, list
  <2>1. \E k \in StoredFields(r.impl.nspin, r.input.npoints, MaxRequestedOrder(list)) :
          SourceField(e) = PrivateFields[k].name
    BY <1>1, <1>3, <1>4, SourceIsStored
  <2>2. QED
    BY <2>1 DEF Stored, list
<1>6. \A k \in Stored(c) : <<Level(c), PrivateFields[k].name>> \in locals[c]
  BY DEF BufferInv
<1>7. QED
  BY <1>5, <1>6

(* The outcomes of a request that reached a combined evaluation. *)
LEMMA CombinedOutcomes ==
  ASSUME NEW r \in Requests, Validate(r) = "OK", IsCombined(r)
  PROVE  /\ r.input.npoints = 0 => <<"E_INTERNAL", Untouched(r)>> \in Outcomes(r)
         /\ r.input.npoints # 0 =>
              /\ <<"OK", Complete(r)>> \in Outcomes(r)
              /\ \A out \in AbandonedOutputs(r) : <<"E_ALLOCATION", out>> \in Outcomes(r)
BY DEF Outcomes

(* The stages of an output, from the caller's to the complete one. *)
LEMMA OutputStages ==
  ASSUME NEW r \in Requests, Validate(r) = "OK", IsCombined(r)
  PROVE  /\ CopiedUpTo(r, 1) = Untouched(r)
         /\ \A k \in Nat : k > Len(r.entries) => CopiedUpTo(r, k) = ReplacedUpTo(r, 0)
         /\ \A k \in Nat : k >= Len(r.entries) => ReplacedUpTo(r, k) = Complete(r)
         /\ r.impl.set = "ML25" => ReplacedUpTo(r, 0) = Complete(r)
         /\ \A k \in 1..Len(r.entries) :
              ~IsDerivative(r, k) => ReplacedUpTo(r, k) = ReplacedUpTo(r, k - 1)
         /\ Untouched(r) \in AbandonedOutputs(r)
         /\ \A k \in 1..Len(r.entries) :
              r.impl.set = "ML26" /\ IsDerivative(r, k) =>
                ReplacedUpTo(r, k - 1) \in AbandonedOutputs(r)
<1>1. OutputIndices(r) = 1..Len(r.entries) /\ Len(r.entries) \in Nat \ {0}
  BY CombinedRequest
<1>2. CopiedUpTo(r, 1) = Untouched(r)
  BY <1>1 DEF CopiedUpTo, Untouched, Uniform
<1>3. ASSUME NEW k \in Nat, k > Len(r.entries)
      PROVE  CopiedUpTo(r, k) = ReplacedUpTo(r, 0)
  BY <1>1, <1>3 DEF CopiedUpTo, ReplacedUpTo
<1>4. ASSUME NEW k \in Nat, k >= Len(r.entries)
      PROVE  ReplacedUpTo(r, k) = Complete(r)
  BY <1>1, <1>4 DEF ReplacedUpTo, Complete
<1>5. ASSUME r.impl.set = "ML25"
      PROVE  ReplacedUpTo(r, 0) = Complete(r)
  BY <1>1, <1>5 DEF ReplacedUpTo, Complete
<1>6. ASSUME NEW k \in 1..Len(r.entries), ~IsDerivative(r, k)
      PROVE  ReplacedUpTo(r, k) = ReplacedUpTo(r, k - 1)
  <2>1. \A i \in 1..Len(r.entries) : i =< k /\ IsDerivative(r, i) <=> i =< k - 1 /\ IsDerivative(r, i)
    BY <1>1, <1>6
  <2>2. QED
    BY <1>1, <2>1 DEF ReplacedUpTo
<1>7. Untouched(r) \in AbandonedOutputs(r)
  BY DEF AbandonedOutputs
<1>8. ASSUME NEW k \in 1..Len(r.entries), r.impl.set = "ML26", IsDerivative(r, k)
      PROVE  ReplacedUpTo(r, k - 1) \in AbandonedOutputs(r)
  BY <1>1, <1>8 DEF AbandonedOutputs
<1>9. QED
  BY <1>2, <1>3, <1>4, <1>5, <1>6, <1>7, <1>8
-----------------------------------------------------------------------------
(* A step that stays in the same evaluation keeps what is defined by it. *)
LEMMA SameEvaluation ==
  ASSUME NEW c \in Callers, request'[c] = request[c], nested'[c] = nested[c],
         entry'[c] = entry[c]
  PROVE  /\ Level(c)' = Level(c) /\ EvalSet(c)' = EvalSet(c)
         /\ Entries(c)' = Entries(c) /\ Stored(c)' = Stored(c)
BY DEF Level, EvalSet, Entries, Stored

(* A call that runs out of memory in its first evaluation has written nothing;
   in a nested one, only what was complete. *)
LEMMA OutOfMemory ==
  ASSUME NEW c \in Callers, Accepted(c), PathInv(c), AnswerInv(c), ControlType,
         pc[c] \in {"transpose", "allocate"}, request[c].input.npoints # 0,
         request'[c] = request[c], nested'[c] = nested[c], entry'[c] = entry[c],
         output'[c] = output[c], pc'[c] = "cleanup", status'[c] = "E_ALLOCATION"
  PROVE  PathInv(c)' /\ BufferInv(c)' /\ AnswerInv(c)'
<1>1. PathInv(c)'
  BY DEF PathInv, CombinedLocations
<1>2. BufferInv(c)'
  BY DEF BufferInv
<1>3. CASE nested[c]
  BY <1>1, <1>2, <1>3 DEF AnswerInv
<1>4. CASE ~nested[c]
  <2>1. output[c] = Untouched(request[c]) /\ IsCombined(request[c])
    BY <1>4 DEF AnswerInv, PathInv, CombinedLocations
  <2>2. <<status'[c], output'[c]>> \in Outcomes(request[c])
    BY <2>1, OutputStages, CombinedOutcomes DEF Accepted
  <2>3. QED
    BY <1>1, <1>2, <1>4, <2>2 DEF AnswerInv
<1>5. QED
  BY <1>3, <1>4

(* The steps up to the inputs of a combined evaluation. *)
LEMMA FirstSteps ==
  ASSUME MemoryInv, AnswersInv, NEW c \in Callers,
         Begin(c) \/ CheckArguments(c) \/ RunOnStack(c)
         \/ CallocInput(c) \/ TransposeInputs(c)
  PROVE  PathInv(c)' /\ BufferInv(c)' /\ AnswerInv(c)'
<1>. USE DEF Goto, SetStatus, SetCursor, frame, visible, memory
<1>. /\ ControlType /\ OutputType /\ MemoryType /\ PointersByLocation(c)
     /\ pc[c] = "validate" => request[c] \in Requests
     /\ pc[c] \notin {"idle", "validate"} => Accepted(c)
     /\ PathInv(c) /\ BufferInv(c) /\ AnswerInv(c)
  BY DEF MemoryInv, TypeOK, CallsInv, AnswersInv
<1>. DEFINE r == request[c]
<1>1. CASE Begin(c)
  <2>1. /\ pc'[c] = "validate" /\ nested'[c] = FALSE /\ status'[c] = "none"
        /\ output'[c] = Untouched(request'[c])
    BY <1>1 DEF Begin, ControlType, OutputType, PointersByLocation
  <2>2. QED
    BY <2>1 DEF PathInv, BufferInv, AnswerInv, CombinedLocations
<1>2. CASE CheckArguments(c)
  <2>1. /\ pc[c] = "validate" /\ ~nested[c] /\ ~nested'[c] /\ locals'[c] = {}
        /\ request'[c] = r /\ output'[c] = output[c]
        /\ status[c] = "none" /\ output[c] = Untouched(r)
    BY <1>2 DEF CheckArguments, PointersByLocation, AnswerInv
  <2>2. CASE Validate(r) # "OK"
    <3>1. pc'[c] = "idle"
      BY <1>2, <2>2 DEF CheckArguments, ControlType
    <3>2. QED
      BY <2>1, <3>1 DEF PathInv, BufferInv, AnswerInv, CombinedLocations
  <2>3. CASE Validate(r) = "OK"
    <3>1. status'[c] = status[c]
      BY <1>2, <2>3 DEF CheckArguments
    <3>2. pc'[c] = IF r.op = "contracted" THEN "contracted"
                   ELSE IF IsStreaming(r) THEN "streaming" ELSE "transpose"
      BY <1>2, <2>3 DEF CheckArguments, ControlType
    <3>3. r.op \in {"eval", "contracted"}
      BY <2>1, RequestsAssumption
    <3>4. /\ pc'[c] \in {"contracted", "streaming"} => ~IsCombined(r)
          /\ pc'[c] = "transpose" => IsCombined(r)
          /\ pc'[c] \in {"contracted", "streaming", "transpose"}
      BY <3>2, <3>3 DEF IsCombined, IsStreaming
    <3>5. QED
      BY <2>1, <3>1, <3>4 DEF PathInv, BufferInv, AnswerInv, CombinedLocations
  <2>4. QED
    BY <2>2, <2>3
<1>3. CASE RunOnStack(c)
  <2>1. pc'[c] = "idle" /\ ~nested'[c]
    BY <1>3 DEF RunOnStack, ControlType, PointersByLocation
  <2>2. QED
    BY <2>1 DEF PathInv, BufferInv, AnswerInv, CombinedLocations
<1>4. CASE CallocInput(c)
  <2>1. /\ pc[c] = "transpose" /\ pc'[c] = "transpose" /\ r.input.npoints > 0
        /\ request'[c] = r /\ output'[c] = output[c] /\ status'[c] = status[c]
        /\ nested'[c] = nested[c] /\ entry'[c] = entry[c]
    BY <1>4 DEF CallocInput
  <2>2. r.input.npoints # 0
    BY <2>1, RequestsAssumption DEF Accepted
  <2>3. QED
    BY <2>1, <2>2 DEF PathInv, BufferInv, AnswerInv, CombinedLocations
<1>5. CASE TransposeInputs(c)
  <2>1. /\ pc[c] = "transpose" /\ request'[c] = r /\ output'[c] = output[c]
        /\ nested'[c] = nested[c] /\ entry'[c] = entry[c] /\ cursor'[c] = 1
    BY <1>5 DEF TransposeInputs, ControlType
  <2>2. CASE r.input.npoints = 0 \/ Inputs(Level(c)) \subseteq locals[c]
    <3>1. pc'[c] = "allocate" /\ status'[c] = status[c] /\ locals'[c] = locals[c]
      BY <1>5, <2>2 DEF TransposeInputs, ControlType
    <3>2. PathInv(c)'
      BY <2>1, <3>1 DEF PathInv, CombinedLocations
    <3>3. \A i \in Stored(c)' : i \in Nat \ {0}
      BY DEF Stored, StoredFields
    <3>4. BufferInv(c)'
      BY <2>1, <3>1, <3>3 DEF BufferInv
    <3>5. AnswerInv(c)'
      BY <2>1, <3>1 DEF AnswerInv
    <3>6. QED
      BY <3>2, <3>4, <3>5
  <2>3. CASE ~(r.input.npoints = 0 \/ Inputs(Level(c)) \subseteq locals[c])
    <3>1. pc'[c] = "cleanup" /\ status'[c] = "E_ALLOCATION"
      BY <1>5, <2>3 DEF TransposeInputs, ControlType
    <3>2. QED
      BY <2>1, <2>3, <3>1, OutOfMemory
  <2>4. QED
    BY <2>2, <2>3
<1>6. QED
  BY <1>1, <1>2, <1>3, <1>4, <1>5

(* The steps from the private buffers to the last copied entry. *)
LEMMA BufferSteps ==
  ASSUME MemoryInv, AnswersInv, NEW c \in Callers,
         CallocOutput(c) \/ CallocOutputFails(c) \/ OutputsAllocated(c)
         \/ RunKernel(c) \/ CopyEntry(c) \/ NoSourceBuffer(c) \/ EntriesCopied(c)
  PROVE  PathInv(c)' /\ BufferInv(c)' /\ AnswerInv(c)'
<1>. USE DEF Goto, SetStatus, SetCursor, frame, visible, memory
<1>. /\ ControlType /\ OutputType /\ MemoryType /\ PointersByLocation(c)
     /\ pc[c] \notin {"idle", "validate"} => Accepted(c)
     /\ PathInv(c) /\ BufferInv(c) /\ AnswerInv(c)
  BY DEF MemoryInv, TypeOK, CallsInv, AnswersInv
<1>. DEFINE r == request[c]
            n == Len(r.entries)
<1>0. /\ pc[c] \in {"allocate", "kernel", "copy"} /\ Accepted(c) /\ IsCombined(r)
      /\ r \in Requests /\ Validate(r) = "OK"
      /\ r.input.npoints \in Nat /\ n \in Nat \ {0} /\ DOMAIN r.entries = 1..n
      /\ OutputIndices(r) = 1..n /\ r.impl.set \in FeatureSets
      /\ cursor[c] \in Nat \ {0} /\ Level(c) \in 1..2
  <2>1. pc[c] \in {"allocate", "kernel", "copy"}
    BY DEF CallocOutput, CallocOutputFails, OutputsAllocated, RunKernel, CopyEntry, NoSourceBuffer, EntriesCopied
  <2>2. Accepted(c) /\ IsCombined(r)
    BY <2>1 DEF PathInv, CombinedLocations
  <2>3. QED
    BY <2>1, <2>2, CombinedRequest DEF Accepted, ControlType, Level
<1>1. CASE CallocOutput(c)
  <2>1. PICK i \in PendingFields(c) :
          /\ \A j \in PendingFields(c) : i =< j
          /\ Calloc(c, <<Level(c), PrivateFields[i].name>>)
          /\ SetCursor(c, i + 1)
    BY <1>1 DEF CallocOutput
  <2>2. /\ pc[c] = "allocate" /\ pc'[c] = "allocate"
        /\ request'[c] = r /\ output'[c] = output[c] /\ status'[c] = status[c]
        /\ nested'[c] = nested[c] /\ entry'[c] = entry[c]
        /\ i \in Nat /\ cursor'[c] = i + 1
        /\ locals'[c] = locals[c] \cup {<<Level(c), PrivateFields[i].name>>}
    BY <1>1, <2>1 DEF CallocOutput, Calloc, ControlType, MemoryType, PendingFields, StoredFields
  <2>3. PendingFields(c) = {k \in Stored(c) : k >= cursor[c]} /\ Stored(c) \subseteq Nat
    BY DEF PendingFields, Stored, StoredFields
  <2>4. r.input.npoints # 0
    BY <1>0, <2>1 DEF PendingFields, StoredFields
  <2>5. PathInv(c)'
    BY <2>2, <2>4 DEF PathInv, CombinedLocations
  <2>6. ASSUME NEW k \in Stored(c), k < cursor'[c]
        PROVE  <<Level(c), PrivateFields[k].name>> \in locals'[c]
    <3>1. CASE k < cursor[c]
      BY <2>2, <3>1 DEF BufferInv
    <3>2. CASE k >= cursor[c]
      <4>1. i =< k /\ k =< i
        BY <2>1, <2>2, <2>3, <2>6, <3>2
      <4>2. k = i
        BY <2>2, <2>3, <4>1
      <4>3. QED
        BY <2>2, <4>2
    <3>3. QED
      BY <1>0, <2>3, <3>1, <3>2
  <2>7. BufferInv(c)'
    BY <2>2, <2>6, SameEvaluation DEF BufferInv
  <2>8. AnswerInv(c)'
    BY <2>2 DEF AnswerInv
  <2>9. QED
    BY <2>5, <2>7, <2>8
<1>2. CASE CallocOutputFails(c)
  <2>1. /\ pc[c] = "allocate" /\ pc'[c] = "cleanup" /\ status'[c] = "E_ALLOCATION"
        /\ request'[c] = r /\ output'[c] = output[c]
        /\ nested'[c] = nested[c] /\ entry'[c] = entry[c]
    BY <1>2 DEF CallocOutputFails, ControlType
  <2>2. r.input.npoints # 0
    BY <1>0, <1>2 DEF CallocOutputFails, PendingFields, StoredFields
  <2>3. QED
    BY <1>0, <2>1, <2>2, OutOfMemory
<1>3. CASE OutputsAllocated(c)
  <2>1. /\ pc[c] = "allocate" /\ pc'[c] = "kernel"
        /\ request'[c] = r /\ output'[c] = output[c] /\ status'[c] = status[c]
        /\ nested'[c] = nested[c] /\ entry'[c] = entry[c] /\ locals'[c] = locals[c]
    BY <1>3 DEF OutputsAllocated, ControlType
  <2>2. \A k \in Stored(c) : k < cursor[c]
    BY <1>0, <1>3 DEF OutputsAllocated, PendingFields, Stored, StoredFields
  <2>3. PathInv(c)'
    BY <2>1 DEF PathInv, CombinedLocations
  <2>4. BufferInv(c)'
    BY <2>1, <2>2, SameEvaluation DEF BufferInv
  <2>5. AnswerInv(c)'
    BY <2>1 DEF AnswerInv
  <2>6. QED
    BY <2>3, <2>4, <2>5
<1>4. CASE RunKernel(c)
  <2>1. /\ pc[c] = "kernel" /\ pc'[c] = "copy" /\ cursor'[c] = 1
        /\ request'[c] = r /\ output'[c] = output[c] /\ status'[c] = status[c]
        /\ nested'[c] = nested[c] /\ entry'[c] = entry[c] /\ locals'[c] = locals[c]
    BY <1>4 DEF RunKernel, ControlType
  <2>2. r.input.npoints # 0 => private'[c][Level(c)] = EvalSet(c)
    BY <1>0, <1>4 DEF RunKernel, ControlType, PrivateContents
  <2>3. PathInv(c)'
    BY <2>1 DEF PathInv, CombinedLocations
  <2>4. BufferInv(c)'
    BY <2>1, <2>2, SameEvaluation DEF BufferInv
  <2>5. AnswerInv(c)'
    <3>1. CASE nested[c]
      BY <2>1, <3>1 DEF AnswerInv
    <3>2. CASE ~nested[c]
      <4>1. status[c] = "none" /\ output[c] = Untouched(r)
        BY <2>1, <3>2 DEF AnswerInv
      <4>2. output'[c] = CopiedUpTo(r, cursor'[c])
        BY <1>0, <2>1, <4>1, OutputStages
      <4>3. QED
        BY <2>1, <3>2, <4>1, <4>2 DEF AnswerInv
    <3>3. QED
      BY <3>1, <3>2
  <2>6. QED
    BY <2>3, <2>4, <2>5
<1>5. CASE CopyEntry(c)
  <2>1. /\ pc[c] = "copy" /\ pc'[c] = "copy" /\ cursor'[c] = cursor[c] + 1
        /\ request'[c] = r /\ status'[c] = status[c] /\ private'[c] = private[c]
        /\ nested'[c] = nested[c] /\ entry'[c] = entry[c] /\ locals'[c] = locals[c]
        /\ locals[c] # {} /\ cursor[c] =< Len(Entries(c))
    BY <1>5 DEF CopyEntry, ControlType
  <2>2. r.input.npoints # 0 /\ private[c][Level(c)] = EvalSet(c)
    BY <2>1 DEF PathInv, BufferInv, CombinedLocations
  <2>3. PathInv(c)'
    BY <2>1 DEF PathInv, CombinedLocations
  <2>4. BufferInv(c)'
    BY <2>1, <2>2, SameEvaluation DEF BufferInv
  <2>5. CASE nested[c]
    <3>1. output'[c] = output[c] /\ scratch'[c] = "ML25"
      BY <1>5, <2>2, <2>5 DEF CopyEntry, ControlType, Level, EvalSet
    <3>2. AnswerInv(c)'
      BY <2>1, <2>5, <3>1 DEF AnswerInv
    <3>3. QED
      BY <2>3, <2>4, <3>2
  <2>6. CASE ~nested[c]
    <3>1. /\ output'[c] = [output[c] EXCEPT ![cursor[c]] = [p \in Parts(r) |-> private[c][1]]]
          /\ private[c][1] = r.impl.set /\ cursor[c] \in 1..n
      BY <1>0, <1>5, <2>1, <2>2, <2>6 DEF CopyEntry, OutputType, Level, EvalSet, Entries
    <3>2. status[c] = "none" /\ output[c] = CopiedUpTo(r, cursor[c])
      BY <2>1, <2>6 DEF AnswerInv
    <3>3. output'[c] = CopiedUpTo(r, cursor'[c])
      <4>. DEFINE row(i, k) == [p \in Parts(r) |-> IF i < k THEN r.impl.set ELSE "caller"]
      <4>1. ASSUME NEW i \in 1..n
            PROVE  output'[c][i] = row(i, cursor'[c])
        <5>1. CASE i = cursor[c]
          BY <1>0, <2>1, <3>1, <3>2, <5>1 DEF CopiedUpTo
        <5>2. CASE i # cursor[c]
          <6>1. i < cursor'[c] <=> i < cursor[c]
            BY <1>0, <2>1, <5>2
          <6>2. output'[c][i] = row(i, cursor[c])
            BY <1>0, <3>1, <3>2, <5>2 DEF CopiedUpTo
          <6>3. QED
            BY <6>1, <6>2
        <5>3. QED
          BY <5>1, <5>2
      <4>2. output'[c] = [i \in 1..n |-> output'[c][i]]
        BY <1>0, <3>1, <3>2 DEF CopiedUpTo
      <4>3. QED
        BY <1>0, <4>1, <4>2 DEF CopiedUpTo
    <3>4. AnswerInv(c)'
      BY <2>1, <2>6, <3>2, <3>3 DEF AnswerInv
    <3>5. QED
      BY <2>3, <2>4, <3>4
  <2>7. QED
    BY <2>5, <2>6
<1>6. CASE NoSourceBuffer(c)
  <2>1. /\ pc[c] = "copy" /\ pc'[c] = "cleanup" /\ status'[c] = "E_INTERNAL"
        /\ request'[c] = r /\ output'[c] = output[c] /\ locals'[c] = locals[c]
        /\ nested'[c] = nested[c] /\ entry'[c] = entry[c]
    BY <1>6 DEF NoSourceBuffer, ControlType
  <2>2. r.input.npoints = 0
    BY <1>0, <1>6, <2>1, SourceHere DEF NoSourceBuffer
  <2>3. ~nested[c] /\ cursor[c] = 1
    BY <2>1, <2>2 DEF PathInv, BufferInv
  <2>4. output[c] = Untouched(r)
    BY <1>0, <2>1, <2>3, OutputStages DEF AnswerInv
  <2>5. <<status'[c], output'[c]>> \in Outcomes(r)
    BY <1>0, <2>1, <2>2, <2>4, CombinedOutcomes
  <2>6. PathInv(c)'
    BY <2>1, <2>3 DEF PathInv, CombinedLocations
  <2>7. BufferInv(c)'
    BY <2>1 DEF BufferInv
  <2>8. AnswerInv(c)'
    BY <2>1, <2>3, <2>5 DEF AnswerInv
  <2>9. QED
    BY <2>6, <2>7, <2>8
<1>7. CASE EntriesCopied(c)
  <2>1. /\ pc[c] = "copy" /\ cursor[c] > Len(Entries(c)) /\ status'[c] = "OK"
        /\ request'[c] = r /\ output'[c] = output[c] /\ locals'[c] = locals[c]
        /\ nested'[c] = nested[c] /\ scratch'[c] = scratch[c]
        /\ pc'[c] = IF EvalSet(c) = "ML26" THEN "replace" ELSE "cleanup"
    BY <1>7 DEF EntriesCopied, ControlType
  <2>2. Len(Entries(c)) \in Nat \ {0} /\ (nested[c] => Len(Entries(c)) = 1)
    BY <1>0, EntriesHere DEF CombinedLocations
  <2>3. cursor[c] > 1 /\ r.input.npoints # 0
    BY <1>0, <2>1, <2>2 DEF BufferInv
  <2>4. BufferInv(c)'
    BY <2>1 DEF BufferInv
  <2>5. CASE nested[c]
    <3>1. pc'[c] = "cleanup" /\ entry'[c] = entry[c]
      BY <1>7, <2>1, <2>5 DEF EntriesCopied, EvalSet
    <3>2. PathInv(c)'
      BY <2>1, <2>5, <3>1 DEF PathInv, CombinedLocations
    <3>3. AnswerInv(c)'
      BY <2>1, <2>3, <2>5, <3>1 DEF AnswerInv
    <3>4. QED
      BY <2>4, <3>2, <3>3
  <2>6. CASE ~nested[c]
    <3>1. entry'[c] = 1 /\ EvalSet(c) = r.impl.set /\ cursor[c] > n
      BY <1>7, <2>1, <2>6 DEF EntriesCopied, EvalSet, Entries, ControlType
    <3>2. output[c] = ReplacedUpTo(r, 0)
      BY <1>0, <2>1, <2>6, <3>1, OutputStages DEF AnswerInv
    <3>3. CASE r.impl.set = "ML26"
      <4>1. pc'[c] = "replace"
        BY <2>1, <3>1, <3>3
      <4>2. PathInv(c)'
        BY <1>0, <2>1, <2>3, <2>6, <3>3, <4>1 DEF PathInv, CombinedLocations
      <4>3. AnswerInv(c)'
        BY <2>1, <2>6, <3>1, <3>2, <4>1 DEF AnswerInv
      <4>4. QED
        BY <2>4, <4>2, <4>3
    <3>4. CASE r.impl.set = "ML25"
      <4>1. pc'[c] = "cleanup"
        BY <2>1, <3>1, <3>4
      <4>2. PathInv(c)'
        BY <2>1, <2>6, <4>1 DEF PathInv, CombinedLocations
      <4>3. <<status'[c], output'[c]>> \in Outcomes(r)
        BY <1>0, <2>1, <2>3, <3>2, <3>4, OutputStages, CombinedOutcomes
      <4>4. AnswerInv(c)'
        BY <2>1, <2>6, <4>1, <4>3 DEF AnswerInv
      <4>5. QED
        BY <2>4, <4>2, <4>4
    <3>5. QED
      BY <1>0, <3>3, <3>4 DEF FeatureSets
  <2>7. QED
    BY <2>5, <2>6
<1>8. QED
  BY <1>1, <1>2, <1>3, <1>4, <1>5, <1>6, <1>7

(* The steps of the nested evaluations, and the way out. *)
LEMMA LastSteps ==
  ASSUME MemoryInv, AnswersInv, NEW c \in Callers,
         SkipOrderZero(c) \/ BeginPrefix(c) \/ BeginPrefixFails(c)
         \/ EndPrefix(c) \/ EntriesReplaced(c) \/ Cleanup(c)
  PROVE  PathInv(c)' /\ BufferInv(c)' /\ AnswerInv(c)'
<1>. USE DEF Goto, SetStatus, SetCursor, NextEntry, frame, visible, memory
<1>. /\ ControlType /\ OutputType /\ MemoryType /\ PointersByLocation(c)
     /\ pc[c] \notin {"idle", "validate"} => Accepted(c)
     /\ PathInv(c) /\ BufferInv(c) /\ AnswerInv(c)
  BY DEF MemoryInv, TypeOK, CallsInv, AnswersInv
<1>. DEFINE r == request[c]
            n == Len(r.entries)
            k == entry[c]
<1>0. /\ pc[c] \in {"replace", "resume", "cleanup"} /\ Accepted(c) /\ IsCombined(r)
      /\ r \in Requests /\ Validate(r) = "OK"
      /\ n \in Nat \ {0} /\ DOMAIN r.entries = 1..n /\ OutputIndices(r) = 1..n
      /\ k \in Nat \ {0}
  <2>1. pc[c] \in {"replace", "resume", "cleanup"}
    BY DEF SkipOrderZero, BeginPrefix, BeginPrefixFails, EndPrefix, EntriesReplaced, Cleanup
  <2>2. Accepted(c) /\ IsCombined(r)
    BY <2>1 DEF PathInv, CombinedLocations
  <2>3. QED
    BY <2>1, <2>2, CombinedRequest DEF Accepted, ControlType
<1>1. ASSUME pc[c] = "replace"
      PROVE  /\ ~nested[c] /\ r.impl.set = "ML26" /\ r.input.npoints # 0
             /\ output[c] = ReplacedUpTo(r, k - 1)
  BY <1>1 DEF PointersByLocation, PathInv, AnswerInv
<1>2. CASE SkipOrderZero(c)
  <2>1. /\ pc[c] = "replace" /\ pc'[c] = "replace" /\ entry'[c] = k + 1
        /\ k \in 1..n /\ ~IsDerivative(r, k)
        /\ request'[c] = r /\ output'[c] = output[c] /\ nested'[c] = nested[c]
    BY <1>0, <1>2 DEF SkipOrderZero, ControlType
  <2>2. output'[c] = ReplacedUpTo(r, entry'[c] - 1)
    <3>1. ReplacedUpTo(r, k) = ReplacedUpTo(r, k - 1)
      BY <1>0, <2>1, OutputStages
    <3>2. entry'[c] - 1 = k
      BY <1>0, <2>1
    <3>3. QED
      BY <1>1, <2>1, <3>1, <3>2
  <2>3. PathInv(c)'
    BY <1>0, <1>1, <2>1 DEF PathInv, CombinedLocations
  <2>4. BufferInv(c)'
    BY <2>1 DEF BufferInv
  <2>5. AnswerInv(c)'
    BY <1>1, <2>1, <2>2 DEF AnswerInv
  <2>6. QED
    BY <2>3, <2>4, <2>5
<1>3. CASE BeginPrefix(c)
  <2>1. /\ pc[c] = "replace" /\ pc'[c] = "transpose" /\ entry'[c] = k
        /\ k \in 1..n /\ IsDerivative(r, k)
        /\ request'[c] = r /\ output'[c] = output[c] /\ nested'[c] = TRUE
    BY <1>0, <1>3 DEF BeginPrefix, ControlType
  <2>2. PathInv(c)'
    BY <1>0, <1>1, <2>1 DEF PathInv, CombinedLocations
  <2>3. BufferInv(c)'
    BY <2>1 DEF BufferInv
  <2>4. AnswerInv(c)'
    BY <1>1, <2>1 DEF AnswerInv
  <2>5. QED
    BY <2>2, <2>3, <2>4
<1>4. CASE BeginPrefixFails(c)
  <2>1. /\ pc[c] = "replace" /\ pc'[c] = "cleanup" /\ status'[c] = "E_ALLOCATION"
        /\ k \in 1..n /\ IsDerivative(r, k)
        /\ request'[c] = r /\ output'[c] = output[c] /\ ~nested'[c]
    BY <1>0, <1>1, <1>4 DEF BeginPrefixFails, ControlType
  <2>2. <<status'[c], output'[c]>> \in Outcomes(r)
    BY <1>0, <1>1, <2>1, OutputStages, CombinedOutcomes
  <2>3. PathInv(c)'
    BY <1>0, <1>1, <2>1 DEF PathInv, CombinedLocations
  <2>4. BufferInv(c)'
    BY <2>1 DEF BufferInv
  <2>5. AnswerInv(c)'
    BY <2>1, <2>2 DEF AnswerInv
  <2>6. QED
    BY <2>3, <2>4, <2>5
<1>5. CASE EndPrefix(c)
  <2>1. /\ pc[c] = "resume" /\ ~nested[c] /\ ~nested'[c] /\ request'[c] = r
        /\ r.impl.set = "ML26" /\ r.input.npoints # 0
        /\ k \in 1..n /\ IsDerivative(r, k) /\ output[c] = ReplacedUpTo(r, k - 1)
        /\ status'[c] = status[c] /\ status[c] \in {"OK", "E_ALLOCATION"}
        /\ status[c] = "OK" => scratch[c] = "ML25"
    BY <1>0, <1>5 DEF EndPrefix, PointersByLocation, PathInv, AnswerInv
  <2>2. CASE status[c] = "OK"
    <3>1. /\ pc'[c] = "replace" /\ entry'[c] = k + 1
          /\ output'[c] = [output[c] EXCEPT ![k]["prefix"] = "ML25"]
      BY <1>5, <2>1, <2>2 DEF EndPrefix, ControlType, OutputType
    <3>2. output'[c] = ReplacedUpTo(r, k)
      <4>. DEFINE row(i, m) ==
             [p \in Parts(r) |->
                IF p = "prefix" /\ i =< m /\ IsDerivative(r, i) THEN "ML25" ELSE "ML26"]
      <4>1. \A m \in Int : ReplacedUpTo(r, m) = [i \in 1..n |-> row(i, m)]
        BY <1>0, <2>1 DEF ReplacedUpTo
      <4>2. output[c] = [i \in 1..n |-> row(i, k - 1)]
        BY <1>0, <2>1, <4>1
      <4>3. ASSUME NEW i \in 1..n
            PROVE  output'[c][i] = row(i, k)
        <5>1. CASE i = k
          <6>1. output'[c][i] = [row(k, k - 1) EXCEPT !["prefix"] = "ML25"]
            BY <2>1, <3>1, <4>2, <5>1
          <6>2. k \in Nat /\ k =< k /\ IsDerivative(r, k)
            BY <1>0, <2>1
          <6>3. row(k, k) = [p \in Parts(r) |-> IF p = "prefix" THEN "ML25" ELSE "ML26"]
            BY <6>2
          <6>4. [row(k, k - 1) EXCEPT !["prefix"] = "ML25"]
                = [p \in Parts(r) |-> IF p = "prefix" THEN "ML25" ELSE "ML26"]
            <7>1. \A p \in Parts(r) : p # "prefix" => row(k, k - 1)[p] = "ML26"
              OBVIOUS
            <7>. HIDE DEF row
            <7>2. DOMAIN row(k, k - 1) = Parts(r)
              BY DEF row
            <7>3. QED
              BY <7>1, <7>2
          <6>5. QED
            BY <5>1, <6>1, <6>3, <6>4
        <5>2. CASE i # k
          <6>1. i =< k <=> i =< k - 1
            BY <1>0, <5>2
          <6>2. output'[c][i] = row(i, k - 1)
            BY <3>1, <4>2, <5>2
          <6>3. QED
            BY <6>1, <6>2
        <5>3. QED
          BY <5>1, <5>2
      <4>4. output'[c] = [i \in 1..n |-> output'[c][i]]
        BY <3>1, <4>2
      <4>5. output'[c] = [i \in 1..n |-> row(i, k)]
        BY <4>3, <4>4
      <4>6. QED
        BY <1>0, <4>1, <4>5
    <3>3. PathInv(c)'
      BY <1>0, <2>1, <3>1 DEF PathInv, CombinedLocations
    <3>4. BufferInv(c)'
      BY <3>1 DEF BufferInv
    <3>5. entry'[c] - 1 = k
      BY <1>0, <3>1
    <3>6. AnswerInv(c)'
      BY <2>1, <3>1, <3>2, <3>5 DEF AnswerInv
    <3>7. QED
      BY <3>3, <3>4, <3>6
  <2>3. CASE status[c] = "E_ALLOCATION"
    <3>1. pc'[c] = "cleanup" /\ output'[c] = output[c]
      BY <1>5, <2>3 DEF EndPrefix, ControlType
    <3>2. <<status'[c], output'[c]>> \in Outcomes(r)
      BY <1>0, <2>1, <2>3, <3>1, OutputStages, CombinedOutcomes
    <3>3. PathInv(c)'
      BY <1>0, <2>1, <3>1 DEF PathInv, CombinedLocations
    <3>4. BufferInv(c)'
      BY <3>1 DEF BufferInv
    <3>5. AnswerInv(c)'
      BY <2>1, <3>1, <3>2 DEF AnswerInv
    <3>6. QED
      BY <3>3, <3>4, <3>5
  <2>4. QED
    BY <2>1, <2>2, <2>3
<1>6. CASE EntriesReplaced(c)
  <2>1. /\ pc[c] = "replace" /\ pc'[c] = "cleanup" /\ status'[c] = "OK" /\ k > n
        /\ request'[c] = r /\ output'[c] = output[c] /\ ~nested'[c]
    BY <1>1, <1>6 DEF EntriesReplaced, ControlType
  <2>2. output'[c] = Complete(r)
    <3>1. k - 1 \in Nat /\ k - 1 >= n
      BY <1>0, <2>1
    <3>2. QED
      BY <1>0, <1>1, <2>1, <3>1, OutputStages
  <2>3. <<status'[c], output'[c]>> \in Outcomes(r)
    BY <1>0, <1>1, <2>1, <2>2, CombinedOutcomes
  <2>4. PathInv(c)'
    BY <1>0, <1>1, <2>1 DEF PathInv, CombinedLocations
  <2>5. BufferInv(c)'
    BY <2>1 DEF BufferInv
  <2>6. AnswerInv(c)'
    BY <2>1, <2>3 DEF AnswerInv
  <2>7. QED
    BY <2>4, <2>5, <2>6
<1>7. CASE Cleanup(c)
  <2>1. /\ pc[c] = "cleanup" /\ ~nested'[c] /\ request'[c] = r /\ output'[c] = output[c]
        /\ status'[c] = status[c] /\ entry'[c] = entry[c] /\ scratch'[c] = scratch[c]
        /\ pc'[c] = IF nested[c] THEN "resume" ELSE "idle"
    BY <1>7 DEF Cleanup, ControlType
  <2>2. BufferInv(c)'
    BY <2>1 DEF BufferInv
  <2>3. CASE nested[c]
    <3>1. PathInv(c)'
      BY <1>0, <2>1, <2>3 DEF PathInv, CombinedLocations
    <3>2. AnswerInv(c)'
      BY <2>1, <2>3 DEF AnswerInv
    <3>3. QED
      BY <2>2, <3>1, <3>2
  <2>4. CASE ~nested[c]
    BY <2>1, <2>2, <2>4 DEF PathInv, AnswerInv, CombinedLocations
  <2>5. QED
    BY <2>3, <2>4
<1>8. QED
  BY <1>2, <1>3, <1>4, <1>5, <1>6, <1>7
-----------------------------------------------------------------------------
(* Every step of a call keeps its part of the invariant ... *)
LEMMA AnswersStep ==
  ASSUME MemoryInv, AnswersInv, NEW c \in Callers, Begin(c) \/ Step(c)
  PROVE  PathInv(c)' /\ BufferInv(c)' /\ AnswerInv(c)'
BY FirstSteps, BufferSteps, LastSteps DEF Step

(* ... and that of a call is nobody else's. *)
LEMMA AnswersAreOwn ==
  ASSUME NEW d \in Callers, Own(d)' = Own(d), PathInv(d), BufferInv(d), AnswerInv(d)
  PROVE  PathInv(d)' /\ BufferInv(d)' /\ AnswerInv(d)'
<1>1. /\ request'[d] = request[d] /\ status'[d] = status[d] /\ output'[d] = output[d]
      /\ pc'[d] = pc[d] /\ nested'[d] = nested[d] /\ cursor'[d] = cursor[d]
      /\ entry'[d] = entry[d] /\ locals'[d] = locals[d]
      /\ private'[d] = private[d] /\ scratch'[d] = scratch[d]
  BY DEF Own
<1>2. PathInv(d)'
  BY <1>1 DEF PathInv
<1>3. BufferInv(d)'
  BY <1>1, SameEvaluation DEF BufferInv
<1>4. AnswerInv(d)'
  BY <1>1 DEF AnswerInv
<1>5. QED
  BY <1>2, <1>3, <1>4

(* Where a call is tells what its buffers and the caller's output hold, and a
   combined evaluation reaches its cleanup with one of its outcomes. *)
THEOREM AnswersInvariant == Spec => []AnswersInv
<1>1. Init => AnswersInv
  BY DEF Init, AnswersInv, PathInv, BufferInv, AnswerInv, CombinedLocations
<1>2. MemoryInv /\ AnswersInv /\ [Next]_vars => AnswersInv'
  <2>. SUFFICES ASSUME MemoryInv, AnswersInv, [Next]_vars, NEW d \in Callers
                PROVE  PathInv(d)' /\ BufferInv(d)' /\ AnswerInv(d)'
    BY DEF AnswersInv
  <2>. PathInv(d) /\ BufferInv(d) /\ AnswerInv(d)
    BY DEF AnswersInv
  <2>1. CASE UNCHANGED vars
    <3>1. Own(d)' = Own(d)
      BY <2>1 DEF vars, visible, frame, memory, Own
    <3>2. QED
      BY <3>1, AnswersAreOwn
  <2>2. ASSUME NEW c \in Callers, Begin(c) \/ Step(c)
        PROVE  PathInv(d)' /\ BufferInv(d)' /\ AnswerInv(d)'
    <3>1. CASE d = c
      BY <2>2, <3>1, AnswersStep
    <3>2. CASE d # c
      BY <2>2, <3>2, StepsAreOwn, AnswersAreOwn
    <3>3. QED
      BY <3>1, <3>2
  <2>3. QED
    BY <2>1, <2>2 DEF Next
<1>3. QED
  BY <1>1, <1>2, MemoryInvariant, PTL DEF Spec
-----------------------------------------------------------------------------
(* An ML25 call that wrote an output is at its copies, with every buffer it
   needs, or at the cleanup of a success. *)
LEMMA SureOnceWritten ==
  ASSUME MemoryInv, AnswersInv, NEW c \in Callers, pc[c] # "idle",
         request[c].impl.set = "ML25", output[c] # Untouched(request[c])
  PROVE  \/ /\ pc[c] = "copy" /\ status[c] = "none"
            /\ Accepted(c) /\ request[c].input.npoints # 0
         \/ pc[c] = "cleanup" /\ status[c] = "OK"
<1>. DEFINE r == request[c]
<1>1. /\ ControlType /\ PathInv(c) /\ BufferInv(c) /\ AnswerInv(c)
      /\ pc[c] \notin {"idle", "validate"} => Accepted(c)
  BY DEF MemoryInv, TypeOK, CallsInv, AnswersInv
<1>2. ~nested[c] /\ pc[c] \notin {"replace", "resume"}
  BY <1>1 DEF PathInv
<1>3. pc[c] \in {"copy", "cleanup"}
  BY <1>1, <1>2 DEF AnswerInv, ControlType, Locations
<1>4. Accepted(c) /\ IsCombined(r) /\ r \in Requests /\ Validate(r) = "OK"
  BY <1>1, <1>3 DEF PathInv, CombinedLocations, Accepted
<1>5. CASE pc[c] = "copy"
  <2>1. status[c] = "none" /\ output[c] = CopiedUpTo(r, cursor[c])
    BY <1>1, <1>2, <1>5 DEF AnswerInv
  <2>2. cursor[c] # 1
    BY <1>4, <2>1, OutputStages
  <2>3. QED
    BY <1>1, <1>4, <1>5, <2>1, <2>2 DEF BufferInv
<1>6. CASE pc[c] = "cleanup"
  <2>1. <<status[c], output[c]>> \in Outcomes(r)
    BY <1>1, <1>2, <1>6 DEF AnswerInv
  <2>2. AbandonedOutputs(r) = {Untouched(r)}
    BY DEF AbandonedOutputs
  <2>3. status[c] = "OK"
    BY <1>4, <2>1, <2>2 DEF Outcomes
  <2>4. QED
    BY <1>6, <2>3
<1>7. QED
  BY <1>3, <1>5, <1>6

(* An ML25 call commits by its first write: from then on nothing fails. *)
THEOREM CommitsByFirstWrite == Spec => ML25WritesOnlyWhenSure
<1>1. MemoryInv /\ AnswersInv /\ [Next]_vars =>
        [\A c \in Callers :
           /\ pc[c] # "idle"
           /\ request[c].impl.set = "ML25"
           /\ output[c] # Untouched(request[c])
           => status'[c] \in {"none", "OK"}]_vars
  <2>. SUFFICES ASSUME MemoryInv, AnswersInv, [Next]_vars, NEW c \in Callers,
                       pc[c] # "idle", request[c].impl.set = "ML25",
                       output[c] # Untouched(request[c])
                PROVE  status'[c] \in {"none", "OK"}
    OBVIOUS
  <2>1. /\ pc[c] \in {"copy", "cleanup"} /\ status[c] \in {"none", "OK"}
        /\ pc[c] = "copy" => Accepted(c) /\ request[c].input.npoints # 0
    BY SureOnceWritten
  <2>2. ControlType /\ PathInv(c) /\ BufferInv(c)
    BY DEF MemoryInv, TypeOK, AnswersInv
  <2>3. CASE UNCHANGED vars
    BY <2>1, <2>3 DEF vars, visible
  <2>4. ASSUME NEW d \in Callers, Begin(d) \/ Step(d)
        PROVE  status'[c] \in {"none", "OK"}
    <3>1. CASE d # c
      BY <2>1, <2>4, <3>1, StepsAreOwn DEF Own
    <3>2. CASE d = c
      <4>1. CopyEntry(c) \/ NoSourceBuffer(c) \/ EntriesCopied(c) \/ Cleanup(c)
        BY <2>1, <2>4, <3>2
        DEF Begin, Step, CheckArguments, RunOnStack, CallocInput, TransposeInputs,
            CallocOutput, CallocOutputFails, OutputsAllocated, RunKernel, SkipOrderZero,
            BeginPrefix, BeginPrefixFails, EndPrefix, EntriesReplaced
      <4>2. ~NoSourceBuffer(c)
        BY <2>1, <2>2, SourceHere DEF NoSourceBuffer
      <4>3. QED
        BY <2>1, <2>2, <4>1, <4>2
        DEF CopyEntry, EntriesCopied, Cleanup, SetStatus, visible, ControlType
    <3>3. QED
      BY <3>1, <3>2
  <2>5. QED
    BY <2>3, <2>4 DEF Next
<1>2. QED
  BY <1>1, MemoryInvariant, AnswersInvariant, PTL DEF Spec, ML25WritesOnlyWhenSure
-----------------------------------------------------------------------------
(* What a caller is shown of a call: nothing while the call runs. *)
LEMMA ShownOfOthers ==
  ASSUME NEW d \in Callers, Own(d)' = Own(d)
  PROVE  /\ (pc'[d] = "idle") = (pc[d] = "idle")
         /\ status'[d] = status[d] /\ output'[d] = output[d]
BY DEF Own

(* A call begins where the one before it has returned. *)
LEMMA BeginIsCall ==
  ASSUME MemoryInv, NEW c \in Callers, Begin(c)
  PROVE  Contract!Call(c)
<1>. DEFINE shown == [d \in Callers |-> IF pc[d] = "idle" THEN status[d] ELSE "pending"]
            values == [d \in Callers |-> IF pc[d] = "idle" THEN output[d] ELSE << >>]
<1>1. ControlType
  BY DEF MemoryInv, TypeOK
<1>2. pc[c] = "idle" /\ pc'[c] = "validate"
  BY <1>1 DEF Begin, Goto, ControlType
<1>3. \A d \in Callers \ {c} : Own(d)' = Own(d)
  BY StepsAreOwn
<1>4. shown[c] # "pending"
  BY <1>1, <1>2 DEF ControlType, Status
<1>5. shown' = [shown EXCEPT ![c] = "pending"]
  <2>1. shown'[c] = "pending"
    BY <1>2
  <2>2. \A d \in Callers \ {c} : shown'[d] = shown[d]
    BY <1>3, ShownOfOthers
  <2>3. QED
    BY <2>1, <2>2
<1>6. values' = [values EXCEPT ![c] = << >>]
  <2>1. values'[c] = << >>
    BY <1>2
  <2>2. \A d \in Callers \ {c} : values'[d] = values[d]
    BY <1>3, ShownOfOthers
  <2>3. QED
    BY <2>1, <2>2
<1>7. \E r \in Requests : request' = [request EXCEPT ![c] = r]
  BY DEF Begin
<1>8. QED
  BY <1>4, <1>5, <1>6, <1>7 DEF Contract!Call

(* A step that ends a call ends it with one of the outcomes of its request. *)
LEMMA StepsReturnOutcomes ==
  ASSUME MemoryInv, AnswersInv, NEW c \in Callers, Step(c), pc'[c] = "idle"
  PROVE  /\ pc[c] # "idle" /\ request' = request
         /\ <<status'[c], output'[c]>> \in Outcomes(request[c])
<1>. USE DEF Goto, SetStatus, frame, visible, memory
<1>. DEFINE r == request[c]
<1>1. /\ ControlType /\ OutputType /\ PathInv(c) /\ AnswerInv(c)
      /\ pc[c] = "validate" => r \in Requests
      /\ pc[c] \notin {"idle", "validate"} => Accepted(c)
  BY DEF MemoryInv, TypeOK, CallsInv, AnswersInv
<1>2. CheckArguments(c) \/ RunOnStack(c) \/ Cleanup(c)
  BY <1>1 DEF ControlType, Step, CallocInput, TransposeInputs,
       CallocOutput, CallocOutputFails, OutputsAllocated, RunKernel, CopyEntry,
       NoSourceBuffer, EntriesCopied, SkipOrderZero, BeginPrefix, BeginPrefixFails,
       EndPrefix, EntriesReplaced
<1>3. CASE CheckArguments(c)
  <2>1. pc[c] = "validate" /\ Validate(r) # "OK" /\ status'[c] = Validate(r)
        /\ output'[c] = output[c] /\ request' = request
    BY <1>1, <1>3 DEF CheckArguments, ControlType
  <2>2. output[c] = Untouched(r)
    BY <1>1, <2>1 DEF AnswerInv
  <2>3. QED
    BY <2>1, <2>2 DEF Outcomes
<1>4. CASE RunOnStack(c)
  <2>1. pc[c] \in {"streaming", "contracted"} /\ status'[c] = "OK" /\ request' = request
        /\ output'[c] = Uniform(r, r.impl.set)
    BY <1>1, <1>4 DEF RunOnStack, ControlType, OutputType
  <2>2. ~IsCombined(r) /\ Validate(r) = "OK"
    BY <1>1, <2>1 DEF PathInv, Accepted
  <2>3. QED
    BY <2>1, <2>2 DEF Outcomes, Complete
<1>5. CASE Cleanup(c)
  <2>1. pc[c] = "cleanup" /\ ~nested[c] /\ request' = request
        /\ status'[c] = status[c] /\ output'[c] = output[c]
    BY <1>1, <1>5 DEF Cleanup, ControlType
  <2>2. QED
    BY <1>1, <2>1 DEF AnswerInv
<1>6. QED
  BY <1>2, <1>3, <1>4, <1>5

(* Such a step is the return of the contract, and every other step of a call
   is hidden in the pending call. *)
LEMMA StepIsReturnOrHidden ==
  ASSUME MemoryInv, AnswersInv, NEW c \in Callers, Step(c)
  PROVE  Contract!Return(c) \/ UNCHANGED Contract!vars
<1>. DEFINE shown == [d \in Callers |-> IF pc[d] = "idle" THEN status[d] ELSE "pending"]
            values == [d \in Callers |-> IF pc[d] = "idle" THEN output[d] ELSE << >>]
<1>1. \A d \in Callers \ {c} : Own(d)' = Own(d)
  BY StepsAreOwn
<1>2. pc[c] # "idle" /\ request' = request
  BY DEF Step, CheckArguments, RunOnStack, CallocInput, TransposeInputs,
     CallocOutput, CallocOutputFails, OutputsAllocated, RunKernel, CopyEntry,
     NoSourceBuffer, EntriesCopied, SkipOrderZero, BeginPrefix, BeginPrefixFails,
     EndPrefix, EntriesReplaced, Cleanup, visible
<1>3. CASE pc'[c] = "idle"
  <2>1. <<status'[c], output'[c]>> \in Outcomes(request[c])
    BY <1>3, StepsReturnOutcomes
  <2>2. shown[c] = "pending"
    BY <1>2
  <2>3. shown' = [shown EXCEPT ![c] = status'[c]]
    BY <1>1, <1>3, ShownOfOthers
  <2>4. values' = [values EXCEPT ![c] = output'[c]]
    BY <1>1, <1>3, ShownOfOthers
  <2>5. \E outcome \in Outcomes(request[c]) :
          /\ shown' = [shown EXCEPT ![c] = outcome[1]]
          /\ values' = [values EXCEPT ![c] = outcome[2]]
    BY <2>1, <2>3, <2>4
  <2>6. QED
    BY <1>2, <2>2, <2>5 DEF Contract!Return
<1>4. CASE pc'[c] # "idle"
  <2>1. shown' = shown /\ values' = values
    BY <1>1, <1>2, <1>4, ShownOfOthers
  <2>2. QED
    BY <1>2, <2>1 DEF Contract!vars
<1>5. QED
  BY <1>3, <1>4

(* What callers see of their calls is a behaviour of the contract: every call
   that returns does so with one of the outcomes of its request, whatever the
   other calls and the heap do. *)
THEOREM CallsKeepTheContract == Spec => KeepsContract
<1>1. Init => Contract!Init
  BY DEF Init, Contract!Init
<1>2. MemoryInv /\ AnswersInv /\ [Next]_vars => [Contract!Next]_(Contract!vars)
  <2>. SUFFICES ASSUME MemoryInv, AnswersInv, [Next]_vars
                PROVE  Contract!Next \/ UNCHANGED Contract!vars
    OBVIOUS
  <2>1. CASE UNCHANGED vars
    BY <2>1 DEF vars, visible, Contract!vars
  <2>2. ASSUME NEW c \in Callers, Begin(c)
        PROVE  Contract!Next
    BY <2>2, BeginIsCall DEF Contract!Next
  <2>3. ASSUME NEW c \in Callers, Step(c)
        PROVE  Contract!Next \/ UNCHANGED Contract!vars
    BY <2>3, StepIsReturnOrHidden DEF Contract!Next
  <2>4. QED
    BY <2>1, <2>2, <2>3 DEF Next
<1>3. QED
  BY <1>1, <1>2, MemoryInvariant, AnswersInvariant, PTL
  DEF Spec, KeepsContract, Contract!Spec
-----------------------------------------------------------------------------
(* The buffers of a combined evaluation at a level: its inputs, and the fields
   up to the highest order of the request. *)
Buffers(level, r) ==
  Inputs(level) \cup
  {<<level, PrivateFields[i].name>> :
     i \in StoredFields(r.impl.nspin, r.input.npoints, MaxRequestedOrder(r.entries))}

(* Every pointer a combined evaluation of a request ever gives a block to. *)
Needed(r) ==
  Buffers(1, r) \cup
  (IF r.impl.set = "ML26" /\ MaxRequestedOrder(r.entries) > 0
   THEN {Prefix} \cup Buffers(2, r) ELSE {})

(* The call has asked for nothing but what its request needs and was refused
   nothing. *)
RoomInv(c) ==
  /\ status[c] # "E_ALLOCATION"
  /\ locals[c] # {} => /\ Accepted(c) /\ IsCombined(request[c])
                       /\ request[c].input.npoints > 0
                       /\ locals[c] \subseteq Needed(request[c])
  /\ pc[c] = "transpose" => \A i \in 1..Len(InputNames) :
       i < cursor[c] /\ request[c].input.npoints > 0
       => <<Level(c), InputNames[i]>> \in locals[c]

(* The hypothesis of EnoughRoomSuffices: nothing but the room is short, and
   there is room for what all callers need at the same time. *)
EnoughRoom ==
  ~MayFail /\ \A r \in Requests : Cardinality(Callers) * Demand(r) =< HeapLimit

(* The argument checks never answer that memory ran out. *)
LEMMA ChecksNeedNoMemory ==
  ASSUME NEW r \in Requests
  PROVE  Validate(r) # "E_ALLOCATION"
<1>1. ASSUME NEW nspin, NEW list, NEW i
      PROVE  VariableStatus(nspin, list, i) # "E_ALLOCATION"
  BY DEF VariableStatus
<1>2. ASSUME NEW nspin, NEW list
      PROVE  VariablesStatus(nspin, list) # "E_ALLOCATION"
  BY <1>1 DEF VariablesStatus
<1>3. ASSUME NEW impl, NEW e, NEW required
      PROVE  ValidateDerivEntry(impl, e, required) # "E_ALLOCATION"
  BY <1>2 DEF ValidateDerivEntry
<1>4. ASSUME NEW impl, NEW input, NEW e
      PROVE  EntryStatus(impl, input, e) # "E_ALLOCATION"
  BY <1>3 DEF EntryStatus
<1>5. ASSUME NEW input
      PROVE  ValidateInput(input) # "E_ALLOCATION"
  BY DEF ValidateInput
<1>6. ValidateEval(r.impl, r.input, r.entries) # "E_ALLOCATION"
  BY <1>4, <1>5 DEF ValidateEval
<1>7. ValidateContracted(r.impl, r.input, r.arrays) # "E_ALLOCATION"
  BY <1>5 DEF ValidateContracted
<1>8. BackendStatus(r.impl.set, r.entries) # "E_ALLOCATION"
  BY DEF BackendStatus
<1>9. QED
  BY <1>6, <1>7, <1>8 DEF Validate

(* The buffers of a level are at most the four inputs and the stored fields. *)
LEMMA BuffersCounted ==
  ASSUME NEW level, NEW r
  PROVE  LET fields == StoredFields(r.impl.nspin, r.input.npoints,
                                    MaxRequestedOrder(r.entries))
         IN  /\ IsFiniteSet(Buffers(level, r)) /\ IsFiniteSet(fields)
             /\ Cardinality(Buffers(level, r)) =< Len(InputNames) + Cardinality(fields)
<1>. DEFINE fields == StoredFields(r.impl.nspin, r.input.npoints,
                                   MaxRequestedOrder(r.entries))
            outs == {<<level, PrivateFields[i].name>> : i \in fields}
            f == [i \in 1..4 |-> <<level, InputNames[i]>>]
            g == [i \in fields |-> <<level, PrivateFields[i].name>>]
<1>1. IsFiniteSet(1..4) /\ Cardinality(1..4) = 4 /\ Len(InputNames) = 4
  <2>1. 1 \in Int /\ 4 \in Int
    OBVIOUS
  <2>2. IsFiniteSet(1..4) /\ Cardinality(1..4) = IF 1 > 4 THEN 0 ELSE 4 - 1 + 1
    BY <2>1, FS_Interval
  <2>3. QED
    BY <2>2 DEF InputNames
<1>2. f \in Surjection(1..4, Inputs(level))
  BY <1>1 DEF Surjection, Inputs, InputSet, InputNames
<1>3. IsFiniteSet(Inputs(level)) /\ Cardinality(Inputs(level)) =< 4
  <2>. HIDE DEF f
  <2>. QED
    BY <1>1, <1>2, FS_Surjection
<1>4. IsFiniteSet(fields)
  <2>1. fields \subseteq 1..35
    BY NumberOfFields DEF StoredFields
  <2>2. IsFiniteSet(1..35)
    <3>1. 1 \in Int /\ 35 \in Int
      OBVIOUS
    <3>2. QED
      BY <3>1, FS_Interval
  <2>. HIDE DEF fields
  <2>3. QED
    BY <2>1, <2>2, FS_Subset
<1>5. g \in Surjection(fields, outs)
  <2>. HIDE DEF fields
  <2>. QED
    BY DEF Surjection
<1>6. IsFiniteSet(outs) /\ Cardinality(outs) =< Cardinality(fields)
  <2>. HIDE DEF g, fields, outs
  <2>. QED
    BY <1>4, <1>5, FS_Surjection
<1>7. Buffers(level, r) = Inputs(level) \cup outs
  BY DEF Buffers
<1>. HIDE DEF fields, outs
<1>8. /\ IsFiniteSet(Inputs(level) \cup outs)
      /\ Cardinality(Inputs(level) \cup outs) =
           Cardinality(Inputs(level)) + Cardinality(outs) - Cardinality(Inputs(level) \cap outs)
  BY <1>3, <1>6, FS_Union
<1>9. /\ Cardinality(Inputs(level)) \in Nat /\ Cardinality(outs) \in Nat
      /\ Cardinality(Inputs(level) \cap outs) \in Nat
      /\ Cardinality(fields) \in Nat
  BY <1>3, <1>4, <1>6, FS_Intersection, FS_CardinalityType
<1>10. /\ IsFiniteSet(Buffers(level, r)) /\ IsFiniteSet(fields)
       /\ Cardinality(Buffers(level, r)) =< Len(InputNames) + Cardinality(fields)
  BY <1>1, <1>3, <1>4, <1>6, <1>7, <1>8, <1>9
<1>11. QED
  BY <1>10 DEF fields

(* What a request needs is no more than its demand. *)
LEMMA NeedIsDemand ==
  ASSUME NEW r \in Requests, Validate(r) = "OK", IsCombined(r), r.input.npoints > 0
  PROVE  /\ IsFiniteSet(Needed(r)) /\ Cardinality(Needed(r)) =< Demand(r)
         /\ Demand(r) \in Nat \ {0}
<1>. DEFINE fields == StoredFields(r.impl.nspin, r.input.npoints,
                                   MaxRequestedOrder(r.entries))
            combined == Len(InputNames) + Cardinality(fields)
<1>1. Len(InputNames) = 4 /\ IsFiniteSet(fields) /\ Cardinality(fields) \in Nat
  BY BuffersCounted, FS_CardinalityType DEF InputNames
<1>2. /\ IsFiniteSet(Buffers(1, r)) /\ Cardinality(Buffers(1, r)) =< combined
      /\ IsFiniteSet(Buffers(2, r)) /\ Cardinality(Buffers(2, r)) =< combined
  BY BuffersCounted
<1>3. Cardinality(Buffers(1, r)) \in Nat /\ Cardinality(Buffers(2, r)) \in Nat
  BY <1>2, FS_CardinalityType
<1>4. r.input.npoints # 0
  BY RequestsAssumption
<1>5. Demand(r) = IF r.impl.set = "ML26" /\ MaxRequestedOrder(r.entries) > 0
                  THEN 2 * combined + 1 ELSE combined
  BY <1>4 DEF Demand
<1>6. combined \in Nat \ {0}
  BY <1>1
<1>. HIDE DEF combined
<1>7. CASE r.impl.set = "ML26" /\ MaxRequestedOrder(r.entries) > 0
  <2>1. Needed(r) = (Buffers(1, r) \cup Buffers(2, r)) \cup {Prefix}
    BY <1>7 DEF Needed
  <2>2. /\ IsFiniteSet(Buffers(1, r) \cup Buffers(2, r))
        /\ Cardinality(Buffers(1, r) \cup Buffers(2, r)) =
             Cardinality(Buffers(1, r)) + Cardinality(Buffers(2, r))
               - Cardinality(Buffers(1, r) \cap Buffers(2, r))
        /\ Cardinality(Buffers(1, r) \cap Buffers(2, r)) \in Nat
    BY <1>2, FS_Union, FS_Intersection, FS_CardinalityType
  <2>. DEFINE both == Buffers(1, r) \cup Buffers(2, r)
  <2>3. IsFiniteSet(Needed(r)) /\ Cardinality(Needed(r)) =< Cardinality(both) + 1
    <3>1. IsFiniteSet(both) /\ Needed(r) = both \cup {Prefix} /\ Cardinality(both) \in Nat
      BY <2>1, <2>2, FS_CardinalityType
    <3>. HIDE DEF both
    <3>2. /\ IsFiniteSet(both \cup {Prefix})
          /\ Cardinality(both \cup {Prefix}) =
               IF Prefix \in both THEN Cardinality(both) ELSE Cardinality(both) + 1
      BY <3>1, FS_AddElement
    <3>3. QED
      BY <3>1, <3>2
  <2>4. QED
    BY <1>2, <1>3, <1>5, <1>6, <1>7, <2>2, <2>3, FS_CardinalityType
<1>8. CASE ~(r.impl.set = "ML26" /\ MaxRequestedOrder(r.entries) > 0)
  BY <1>2, <1>5, <1>6, <1>8 DEF Needed
<1>9. QED
  BY <1>7, <1>8

(* A quotient is a bound for every factor. *)
LEMMA Share ==
  ASSUME NEW n \in Nat \ {0}, NEW l \in Nat
  PROVE  /\ l \div n \in Nat /\ n * (l \div n) =< l
         /\ \A d \in Nat : n * d =< l => d =< l \div n
<1>1. l \div n \in Nat /\ l = n * (l \div n) + (l % n) /\ l % n \in 0..n-1
  OBVIOUS
<1>2. ASSUME NEW d \in Nat, n * d =< l, d > l \div n
      PROVE  FALSE
  <2>1. d >= (l \div n) + 1
    BY <1>1, <1>2
  <2>2. n * d >= n * ((l \div n) + 1)
    BY <1>1, <2>1
  <2>3. n * ((l \div n) + 1) = n * (l \div n) + n
    BY <1>1
  <2>4. QED
    BY <1>1, <1>2, <2>2, <2>3
<1>3. QED
  BY <1>1, <1>2

(* Blocks of callers who each have no more than their share of the room. *)
LEMMA BlocksCounted ==
  ASSUME NEW share \in Nat, NEW B \in SUBSET (Callers \X Pointers),
         NEW Of \in [Callers -> SUBSET Pointers],
         \A b \in B : b[2] \in Of[b[1]],
         \A c \in Callers : IsFiniteSet(Of[c]) /\ Cardinality(Of[c]) =< share
  PROVE  IsFiniteSet(B) /\ Cardinality(B) =< Cardinality(Callers) * share
<1>. DEFINE number == [c \in Callers |-> CHOOSE g : g \in Injection(Of[c], 1..share)]
            f == [b \in B |-> <<b[1], number[b[1]][b[2]]>>]
<1>1. ASSUME NEW c \in Callers
      PROVE  number[c] \in Injection(Of[c], 1..share)
  <2>. DEFINE n == Cardinality(Of[c])
  <2>1. n \in Nat /\ ExistsBijection(1..n, Of[c]) /\ n =< share
    BY FS_CardinalityType
  <2>2. IsFiniteSet(1..n) /\ Cardinality(1..n) = n
    BY <2>1, FS_Interval
  <2>3. ExistsBijection(Of[c], 1..n)
    BY <2>1, <2>2, FS_SameCardinalityBij
  <2>. HIDE DEF n
  <2>4. PICK g : g \in Bijection(Of[c], 1..n)
    BY <2>3 DEF ExistsBijection
  <2>5. g \in Injection(Of[c], 1..share)
    BY <2>1, <2>4 DEF Bijection, Injection, IsInjective
  <2>6. QED
    BY <2>5
<1>. HIDE DEF number
<1>2. f \in Injection(B, Callers \X (1..share))
  <2>1. ASSUME NEW b \in B
        PROVE  /\ b = <<b[1], b[2]>> /\ b[1] \in Callers /\ b[2] \in Of[b[1]]
               /\ number[b[1]][b[2]] \in 1..share
    BY <1>1 DEF Injection, IsInjective
  <2>2. ASSUME NEW a \in B, NEW b \in B, f[a] = f[b]
        PROVE  a = b
    <3>1. a[1] = b[1] /\ number[a[1]][a[2]] = number[b[1]][b[2]]
      BY <2>2
    <3>2. a[2] = b[2]
      <4>. DEFINE g == number[a[1]]
                  S == Of[a[1]]
      <4>1. g \in Injection(S, 1..share) /\ a[2] \in S /\ b[2] \in S /\ g[a[2]] = g[b[2]]
        BY <1>1, <2>1, <3>1
      <4>. HIDE DEF g, S
      <4>2. QED
        BY <4>1 DEF Injection, IsInjective
    <3>3. QED
      BY <2>1, <3>1, <3>2
  <2>3. f \in [B -> Callers \X (1..share)]
    BY <2>1
  <2>. HIDE DEF f
  <2>4. QED
    BY <2>2, <2>3 DEF Injection, IsInjective
<1>3. /\ IsFiniteSet(Callers \X (1..share))
      /\ Cardinality(Callers \X (1..share)) = Cardinality(Callers) * share
  <2>1. 1 \in Int /\ share \in Int
    OBVIOUS
  <2>2. /\ IsFiniteSet(1..share)
        /\ Cardinality(1..share) = IF 1 > share THEN 0 ELSE share - 1 + 1
    BY <2>1, FS_Interval
  <2>3. Cardinality(1..share) = share
    BY <2>2
  <2>4. QED
    BY <2>2, <2>3, FS_Product, EvaluationAssumption
<1>. HIDE DEF f
<1>4. QED
  BY <1>2, <1>3, FS_Injection

(* The room suffices for the next allocation: the blocks on the heap are all
   needed by running calls, and the pointer has none yet. *)
LEMMA RoomForNext ==
  ASSUME MemoryInv, \A d \in Callers : RoomInv(d), EnoughRoom,
         NEW c \in Callers, NEW p \in Pointers, p \notin locals[c],
         Accepted(c), IsCombined(request[c]), request[c].input.npoints > 0,
         p \in Needed(request[c])
  PROVE  HasRoom
<1>. /\ locals \in [Callers -> SUBSET Pointers] /\ heap \subseteq Callers \X Pointers
     /\ BlocksHavePointers
  BY DEF MemoryInv, TypeOK, MemoryType
<1>. DEFINE Of == [d \in Callers |-> IF d = c THEN locals[d] \cup {p} ELSE locals[d]]
            n == Cardinality(Callers)
            share == HeapLimit \div n
            B == heap \cup {<<c, p>>}
<1>1. n \in Nat \ {0}
  <2>1. n \in Nat /\ n # 0
    BY FS_CardinalityType, FS_EmptySet, EvaluationAssumption
  <2>2. QED
    BY <2>1
<1>2. /\ share \in Nat /\ n * share =< HeapLimit
      /\ \A d \in Nat : n * d =< HeapLimit => d =< share
  <2>. HIDE DEF n
  <2>. QED
    BY <1>1, Share, EvaluationAssumption
<1>3. ASSUME NEW r \in Requests, Validate(r) = "OK", IsCombined(r), r.input.npoints > 0,
             NEW S, S \subseteq Needed(r)
      PROVE  IsFiniteSet(S) /\ Cardinality(S) =< share
  <2>1. /\ IsFiniteSet(Needed(r)) /\ Cardinality(Needed(r)) =< Demand(r)
        /\ Demand(r) \in Nat \ {0}
    BY <1>3, NeedIsDemand
  <2>2. Demand(r) =< share
    <3>. HIDE DEF share
    <3>1. n * Demand(r) =< HeapLimit
      BY DEF EnoughRoom
    <3>. HIDE DEF n
    <3>2. QED
      BY <1>2, <2>1, <3>1
  <2>3. IsFiniteSet(S) /\ Cardinality(S) =< Cardinality(Needed(r))
    BY <1>3, <2>1, FS_Subset
  <2>. HIDE DEF share
  <2>4. QED
    BY <1>2, <2>1, <2>2, <2>3, FS_CardinalityType
<1>. HIDE DEF share, n
<1>4. ASSUME NEW d \in Callers
      PROVE  IsFiniteSet(Of[d]) /\ Cardinality(Of[d]) =< share
  <2>1. CASE d = c
    <3>1. Of[d] \subseteq Needed(request[c])
      BY <2>1 DEF RoomInv
    <3>2. QED
      BY <1>3, <3>1 DEF Accepted
  <2>2. CASE d # c /\ locals[d] = {}
    <3>1. Of[d] = {}
      BY <2>2 DEF Of
    <3>2. IsFiniteSet({}) /\ Cardinality({}) = 0
      BY FS_EmptySet
    <3>3. IsFiniteSet(Of[d]) /\ Cardinality(Of[d]) = 0
      <4>. HIDE DEF Of
      <4>. QED
        BY <3>1, <3>2, Zenon
    <3>4. 0 =< share
      BY <1>2
    <3>5. QED
      BY <3>3, <3>4, Zenon
  <2>3. CASE d # c /\ locals[d] # {}
    <3>1. /\ Accepted(d) /\ IsCombined(request[d]) /\ request[d].input.npoints > 0
          /\ Of[d] \subseteq Needed(request[d])
      BY <2>3 DEF RoomInv
    <3>2. QED
      BY <1>3, <3>1 DEF Accepted
  <2>4. QED
    BY <2>1, <2>2, <2>3
<1>5. B \in SUBSET (Callers \X Pointers)
  OBVIOUS
<1>6. \A b \in B : b[2] \in Of[b[1]]
  <2>1. ASSUME NEW b \in heap PROVE b[2] \in Of[b[1]]
    <3>1. PICK d \in Callers, q \in Pointers : b = <<d, q>>
      OBVIOUS
    <3>2. q \in locals[d]
      BY <3>1 DEF BlocksHavePointers
    <3>3. QED
      BY <3>1, <3>2
  <2>2. p \in Of[c]
    OBVIOUS
  <2>. HIDE DEF Of
  <2>3. QED
    BY <2>1, <2>2
<1>7. Of \in [Callers -> SUBSET Pointers]
  OBVIOUS
<1>. HIDE DEF Of
<1>8. IsFiniteSet(B) /\ Cardinality(B) =< n * share
  <2>. HIDE DEF B
  <2>. QED
    BY <1>2, <1>4, <1>5, <1>6, <1>7, BlocksCounted DEF n
<1>9. <<c, p>> \notin heap
  BY DEF BlocksHavePointers
<1>10. Cardinality(B) = Cardinality(heap) + 1 /\ Cardinality(heap) \in Nat
  <2>1. IsFiniteSet(heap)
    BY <1>8, FS_Subset
  <2>2. QED
    BY <1>9, <2>1, FS_AddElement, FS_CardinalityType
<1>11. n * share \in Nat
  BY <1>1, <1>2
<1>12. QED
  BY <1>2, <1>8, <1>10, <1>11, EvaluationAssumption DEF HasRoom

(* What an evaluation allocates is needed by its request: a nested evaluation
   is for an entry, and has no more fields than the outer one. *)
LEMMA AllocationsAreNeeded ==
  ASSUME NEW c \in Callers, Accepted(c), PathInv(c), ControlType,
         pc[c] \in CombinedLocations, request[c].input.npoints > 0
  PROVE  /\ \A i \in 1..Len(InputNames) :
              <<Level(c), InputNames[i]>> \in Needed(request[c]) \cap Pointers
         /\ \A i \in PendingFields(c) :
              <<Level(c), PrivateFields[i].name>> \in Needed(request[c]) \cap Pointers
         /\ pc[c] = "replace" /\ entry[c] =< Len(request[c].entries)
            /\ IsDerivative(request[c], entry[c]) => Prefix \in Needed(request[c])
<1>. DEFINE r == request[c]
            list == r.entries
            order == MaxRequestedOrder(list)
<1>1. IsCombined(r) /\ r \in Requests /\ Validate(r) = "OK"
  BY DEF PathInv, Accepted
<1>2. /\ list \in Seq(DerivEntry) /\ Len(list) \in Nat \ {0}
      /\ DOMAIN list = 1..Len(list)
      /\ \A i \in 1..Len(list) : IsChecked(r, list[i])
  BY <1>1, CombinedRequest
<1>3. /\ order \in 0..3
      /\ \A i \in 1..Len(list) : list[i].order =< order
  <2>. HIDE DEF list
  <2>1. list # << >>
    BY <1>2
  <2>2. QED
    BY <1>2, <2>1, HighestOrder
<1>4. ASSUME NEW i \in 1..Len(list), r.impl.set = "ML26", IsDerivative(r, i)
      PROVE  Needed(r) = Buffers(1, r) \cup ({Prefix} \cup Buffers(2, r))
  <2>1. list[i].order > 0 /\ list[i].order \in 0..3
    BY <1>2, <1>4 DEF IsDerivative, IsChecked
  <2>. HIDE DEF list
  <2>2. order > 0
    BY <1>3, <2>1
  <2>3. QED
    BY <1>4, <2>2 DEF Needed, list
<1>5. Buffers(Level(c), r) \subseteq Needed(r)
  <2>1. CASE ~nested[c]
    BY <2>1 DEF Needed, Level
  <2>2. CASE nested[c]
    <3>1. r.impl.set = "ML26" /\ entry[c] \in 1..Len(list) /\ IsDerivative(r, entry[c])
      BY <1>2, <2>2 DEF PathInv
    <3>. HIDE DEF list, r
    <3>2. QED
      BY <1>4, <2>2, <3>1 DEF Level, r, list
  <2>3. QED
    BY <2>1, <2>2 DEF ControlType
<1>6. /\ MaxRequestedOrder(Entries(c)) \in 0..3
      /\ MaxRequestedOrder(Entries(c)) =< order
  <2>1. CASE ~nested[c]
    BY <1>3, <2>1 DEF Entries
  <2>2. CASE nested[c]
    <3>1. entry[c] \in 1..Len(list) /\ Entries(c) = <<list[entry[c]]>>
      BY <1>2, <2>2 DEF PathInv, Entries
    <3>. DEFINE e == list[entry[c]]
    <3>2. e \in DerivEntry /\ IsChecked(r, e) /\ e.order =< order
      BY <1>2, <1>3, <3>1
    <3>. HIDE DEF e
    <3>3. MaxRequestedOrder(<<e>>) = e.order
      BY DEF MaxRequestedOrder
    <3>4. QED
      BY <3>1, <3>2, <3>3 DEF IsChecked, e
  <2>3. QED
    BY <2>1, <2>2 DEF ControlType
<1>7. \A i \in PendingFields(c) :
        i \in StoredFields(r.impl.nspin, r.input.npoints, order)
  <2>1. ASSUME NEW i \in PendingFields(c)
        PROVE  i \in StoredFields(r.impl.nspin, r.input.npoints, order)
    <3>1. /\ i \in 1..35 /\ r.input.npoints > 0
          /\ PrivateDimension(r.impl.nspin, PrivateFields[i], MaxRequestedOrder(Entries(c))) > 0
      BY NumberOfFields DEF PendingFields, StoredFields
    <3>2. Len(PrivateFields[i].vars) \in Nat
      BY <3>1, FieldVariableCount
    <3>. HIDE DEF order
    <3>3. Len(PrivateFields[i].vars) =< order
      BY <1>3, <1>6, <3>1, <3>2 DEF PrivateDimension
    <3>4. PrivateDimension(r.impl.nspin, PrivateFields[i], order) > 0
      BY <1>3, <1>6, <3>1, <3>2, <3>3 DEF PrivateDimension
    <3>5. QED
      BY <3>1, <3>4, NumberOfFields DEF StoredFields
  <2>2. QED
    BY <2>1
<1>8. Level(c) \in 1..2
  BY DEF Level
<1>9. \A i \in 1..Len(InputNames) : <<Level(c), InputNames[i]>> \in Needed(r) \cap Pointers
  BY <1>5, <1>8, NamesOfInputs DEF Buffers, Inputs, Pointers, Frame
<1>10. \A i \in PendingFields(c) :
         <<Level(c), PrivateFields[i].name>> \in Needed(r) \cap Pointers
  <2>1. \A i \in PendingFields(c) : <<Level(c), PrivateFields[i].name>> \in Buffers(Level(c), r)
    BY <1>7 DEF Buffers
  <2>2. \A i \in PendingFields(c) : PrivateFields[i].name \in FieldNames
    BY NamesOfFields DEF PendingFields, StoredFields
  <2>3. QED
    BY <1>5, <1>8, <2>1, <2>2 DEF Outputs, Pointers, Frame
<1>11. ASSUME pc[c] = "replace", entry[c] =< Len(list), IsDerivative(r, entry[c])
       PROVE  Prefix \in Needed(r)
  <2>1. entry[c] \in 1..Len(list) /\ r.impl.set = "ML26"
    BY <1>2, <1>11 DEF PathInv, ControlType
  <2>2. QED
    BY <1>4, <1>11, <2>1
<1>12. QED
  BY <1>9, <1>10, <1>11

(* An allocation of a running evaluation finds room. *)
LEMMA AllocationsFindRoom ==
  ASSUME MemoryInv, AnswersInv, NextAreNull, EnoughRoom,
         \A d \in Callers : RoomInv(d),
         NEW c \in Callers, NEW p, p \in NextPointers(c),
         p \in Needed(request[c]) \cap Pointers,
         pc[c] \in CombinedLocations, request[c].input.npoints > 0
  PROVE  HasRoom /\ ~CallocFails
<1>1. Accepted(c) /\ IsCombined(request[c])
  BY DEF MemoryInv, CallsInv, AnswersInv, PathInv, CombinedLocations
<1>2. p \notin locals[c]
  BY DEF NextAreNull
<1>3. HasRoom
  BY <1>1, <1>2, RoomForNext
<1>4. QED
  BY <1>3 DEF CallocFails, EnoughRoom

(* Every step of a call keeps its part of the invariant. *)
LEMMA RoomStep ==
  ASSUME MemoryInv, AnswersInv, NextAreNull, EnoughRoom,
         \A d \in Callers : RoomInv(d),
         NEW c \in Callers, Begin(c) \/ Step(c)
  PROVE  RoomInv(c)'
<1>. USE DEF Goto, SetStatus, SetCursor, NextEntry, frame, visible, memory
<1>. /\ ControlType /\ MemoryType /\ PointersByLocation(c) /\ RoomInv(c)
     /\ PathInv(c)
     /\ pc[c] = "validate" => request[c] \in Requests
     /\ pc[c] \notin {"idle", "validate"} => Accepted(c)
  BY DEF MemoryInv, TypeOK, CallsInv, AnswersInv
<1>. DEFINE r == request[c]
<1>1. CASE Begin(c)
  <2>1. status'[c] = "none" /\ locals'[c] = {} /\ pc'[c] = "validate"
    BY <1>1 DEF Begin, ControlType, PointersByLocation
  <2>2. QED
    BY <2>1 DEF RoomInv
<1>2. CASE CheckArguments(c)
  <2>1. /\ locals'[c] = {} /\ cursor'[c] = 1
        /\ status'[c] # "E_ALLOCATION"
    BY <1>2, ChecksNeedNoMemory DEF CheckArguments, ControlType, PointersByLocation, RoomInv
  <2>2. \A i \in 1..Len(InputNames) : ~(i < 1)
    BY DEF InputNames
  <2>3. QED
    BY <2>1, <2>2 DEF RoomInv
<1>3. CASE RunOnStack(c)
  <2>1. status'[c] = "OK" /\ locals'[c] = {} /\ pc'[c] = "idle"
    BY <1>3 DEF RunOnStack, ControlType, PointersByLocation
  <2>2. QED
    BY <2>1 DEF RoomInv
<1>4. CASE CallocInput(c)
  <2>. DEFINE p == <<Level(c), InputNames[cursor[c]]>>
  <2>1. /\ pc[c] = "transpose" /\ r.input.npoints > 0
        /\ cursor[c] \in 1..Len(InputNames) /\ Accepted(c) /\ IsCombined(r)
    BY <1>4 DEF CallocInput, ControlType, InputNames, PathInv, CombinedLocations
  <2>2. p \in NextPointers(c)
    BY <2>1 DEF NextPointers, InputNames
  <2>3. p \in Needed(r) \cap Pointers
    BY <2>1, AllocationsAreNeeded DEF CombinedLocations
  <2>4. HasRoom /\ ~CallocFails
    BY <2>1, <2>2, <2>3, AllocationsFindRoom DEF CombinedLocations
  <2>5. /\ locals'[c] = locals[c] \cup {p} /\ cursor'[c] = cursor[c] + 1
        /\ UNCHANGED <<status, request, pc, nested>> /\ Level(c)' = Level(c)
    BY <1>4, <2>4 DEF CallocInput, Calloc, MemoryType, ControlType, Level
  <2>6. locals'[c] \subseteq Needed(r)
    BY <2>3, <2>5 DEF RoomInv
  <2>7. \A i \in 1..Len(InputNames) :
          i < cursor'[c] => <<Level(c)', InputNames[i]>> \in locals'[c]
    <3>1. ASSUME NEW i \in 1..Len(InputNames), i < cursor'[c]
          PROVE  <<Level(c)', InputNames[i]>> \in locals'[c]
      <4>1. i < cursor[c] \/ i = cursor[c]
        BY <2>1, <2>5, <3>1 DEF InputNames
      <4>2. QED
        BY <2>1, <2>5, <4>1 DEF RoomInv
    <3>2. QED
      BY <3>1
  <2>8. QED
    BY <2>1, <2>5, <2>6, <2>7 DEF RoomInv, Accepted
<1>5. CASE TransposeInputs(c)
  <2>1. r.input.npoints = 0 \/ Inputs(Level(c)) \subseteq locals[c]
    <3>1. SUFFICES ASSUME r.input.npoints # 0, r.input.npoints \in Nat
                   PROVE  Inputs(Level(c)) \subseteq locals[c]
      BY <1>5, RequestsAssumption DEF TransposeInputs, Accepted
    <3>2. cursor[c] > Len(InputNames) /\ pc[c] = "transpose"
      BY <1>5, <3>1 DEF TransposeInputs
    <3>3. \A i \in 1..Len(InputNames) : <<Level(c), InputNames[i]>> \in locals[c]
      BY <3>1, <3>2 DEF RoomInv, ControlType, InputNames
    <3>4. QED
      BY <3>3 DEF Inputs, InputSet, InputNames
  <2>2. UNCHANGED <<status, memory, request>> /\ pc'[c] = "allocate"
    BY <1>5, <2>1 DEF TransposeInputs, ControlType
  <2>3. QED
    BY <2>2 DEF RoomInv, Accepted
<1>6. CASE CallocOutput(c)
  <2>1. PICK i \in PendingFields(c) : Calloc(c, <<Level(c), PrivateFields[i].name>>)
    BY <1>6 DEF CallocOutput
  <2>2. pc[c] = "allocate" /\ r.input.npoints > 0 /\ Accepted(c) /\ IsCombined(r)
    BY <1>6 DEF CallocOutput, PendingFields, StoredFields, PathInv, CombinedLocations
  <2>3. <<Level(c), PrivateFields[i].name>> \in Needed(r)
    BY <2>2, AllocationsAreNeeded DEF CombinedLocations
  <2>4. /\ locals'[c] = locals[c] \cup {<<Level(c), PrivateFields[i].name>>}
        /\ UNCHANGED <<status, request, pc>>
    BY <1>6, <2>1 DEF CallocOutput, Calloc, MemoryType
  <2>5. QED
    BY <2>2, <2>3, <2>4 DEF RoomInv, Accepted
<1>7. CASE CallocOutputFails(c)
  <2>1. PICK i \in PendingFields(c) : TRUE
    BY <1>7 DEF CallocOutputFails
  <2>2. pc[c] = "allocate" /\ r.input.npoints > 0
    BY <1>7, <2>1 DEF CallocOutputFails, PendingFields, StoredFields
  <2>3. <<Level(c), PrivateFields[i].name>> \in Needed(r) \cap Pointers
    BY <2>2, AllocationsAreNeeded DEF CombinedLocations
  <2>4. <<Level(c), PrivateFields[i].name>> \in NextPointers(c)
    BY <2>1, <2>2 DEF NextPointers
  <2>5. HasRoom
    BY <2>2, <2>3, <2>4, AllocationsFindRoom DEF CombinedLocations
  <2>6. QED
    BY <1>7, <2>5 DEF CallocOutputFails, EnoughRoom
<1>8. CASE OutputsAllocated(c) \/ RunKernel(c) \/ CopyEntry(c)
  <2>1. /\ pc'[c] # "transpose" /\ status' = status /\ locals' = locals
        /\ request' = request
    BY <1>8 DEF OutputsAllocated, RunKernel, CopyEntry, ControlType
  <2>2. QED
    BY <2>1 DEF RoomInv, Accepted
<1>9. CASE NoSourceBuffer(c) \/ EntriesCopied(c) \/ SkipOrderZero(c) \/ EntriesReplaced(c)
  <2>1. /\ pc'[c] # "transpose" /\ status'[c] # "E_ALLOCATION" /\ locals' = locals
        /\ request' = request
    BY <1>9 DEF NoSourceBuffer, EntriesCopied, SkipOrderZero, EntriesReplaced, ControlType,
       RoomInv
  <2>2. QED
    BY <2>1 DEF RoomInv, Accepted
<1>10. CASE BeginPrefix(c) \/ BeginPrefixFails(c)
  <2>1. /\ pc[c] = "replace" /\ entry[c] =< Len(r.entries) /\ IsDerivative(r, entry[c])
        /\ Accepted(c) /\ IsCombined(r) /\ r.input.npoints # 0 /\ r.input.npoints \in Nat
    BY <1>10, RequestsAssumption DEF BeginPrefix, BeginPrefixFails, PathInv, Accepted,
       CombinedLocations
  <2>2. r.input.npoints > 0
    BY <2>1
  <2>3. Prefix \in Needed(r) /\ Prefix \in Pointers /\ Prefix \in NextPointers(c)
    BY <2>1, <2>2, AllocationsAreNeeded DEF CombinedLocations, Pointers, NextPointers
  <2>4. ~CallocFails
    BY <2>1, <2>2, <2>3, AllocationsFindRoom DEF CombinedLocations
  <2>5. BeginPrefix(c)
    BY <1>10, <2>4 DEF BeginPrefixFails
  <2>6. /\ locals'[c] = locals[c] \cup {Prefix} /\ cursor'[c] = 1
        /\ UNCHANGED <<status, request>>
    BY <2>5 DEF BeginPrefix, Calloc, MemoryType, ControlType
  <2>7. \A i \in 1..Len(InputNames) : ~(i < 1)
    BY DEF InputNames
  <2>8. QED
    BY <2>1, <2>2, <2>3, <2>6, <2>7 DEF RoomInv, Accepted
<1>11. CASE EndPrefix(c) \/ Cleanup(c)
  <2>1. /\ pc'[c] # "transpose" /\ status' = status /\ request' = request
        /\ locals'[c] \subseteq locals[c]
    BY <1>11 DEF EndPrefix, Cleanup, Drop, MemoryType, ControlType
  <2>2. QED
    BY <2>1 DEF RoomInv, Accepted
<1>12. QED
  BY <1>1, <1>2, <1>3, <1>4, <1>5, <1>6, <1>7, <1>8, <1>9, <1>10, <1>11 DEF Step

(* With room for the demands of all callers together, the room is never what
   ends a call: whatever the order in which the calls take and free their
   blocks, an allocation finds the heap short of the sum of the demands. *)
THEOREM RoomSuffices == Spec => []EnoughRoomSuffices
<1>1. Init => \A c \in Callers : RoomInv(c)
  BY DEF Init, RoomInv
<1>2. /\ EnoughRoom /\ MemoryInv /\ AnswersInv /\ NextAreNull
      /\ (\A c \in Callers : RoomInv(c)) /\ [Next]_vars
      => (\A c \in Callers : RoomInv(c))'
  <2>. SUFFICES ASSUME EnoughRoom, MemoryInv, AnswersInv, NextAreNull,
                       \A c \in Callers : RoomInv(c), [Next]_vars, NEW d \in Callers
                PROVE  RoomInv(d)'
    OBVIOUS
  <2>1. ASSUME Own(d)' = Own(d)
        PROVE  RoomInv(d)'
    <3>1. /\ request'[d] = request[d] /\ status'[d] = status[d] /\ pc'[d] = pc[d]
          /\ nested'[d] = nested[d] /\ cursor'[d] = cursor[d] /\ locals'[d] = locals[d]
      BY <2>1 DEF Own
    <3>2. QED
      BY <3>1 DEF RoomInv, Accepted, Level
  <2>2. CASE UNCHANGED vars
    <3>1. Own(d)' = Own(d)
      BY <2>2 DEF vars, visible, frame, memory, Own
    <3>2. QED
      BY <2>1, <3>1
  <2>3. ASSUME NEW c \in Callers, Begin(c) \/ Step(c)
        PROVE  RoomInv(d)'
    <3>1. CASE d = c
      BY <2>3, <3>1, RoomStep
    <3>2. CASE d # c
      BY <2>1, <2>3, <3>2, StepsAreOwn
    <3>3. QED
      BY <3>1, <3>2
  <2>4. QED
    BY <2>2, <2>3 DEF Next
<1>3. (EnoughRoom => \A c \in Callers : RoomInv(c)) => EnoughRoomSuffices
  BY DEF EnoughRoomSuffices, EnoughRoom, RoomInv
<1>4. CASE EnoughRoom
  BY <1>1, <1>2, <1>3, <1>4, MemoryInvariant, AnswersInvariant, NextStayNull, PTL DEF Spec
<1>5. CASE ~EnoughRoom
  BY <1>3, <1>5, PTL
<1>6. QED
  BY <1>4, <1>5
=============================================================================
