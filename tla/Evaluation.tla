------------------------------ MODULE Evaluation ------------------------------
(***************************************************************************)
(* The evaluation of requests, step by step: ifxc_eval, the combined       *)
(* evaluations of both backends and the nested ML25 evaluations that give  *)
(* ML26 its derivatives. Callers run at the same time, each with handles   *)
(* nobody writes; all they share is the heap.                              *)
(*                                                                         *)
(*   request, status, output   what the caller passed and is given back    *)
(*   pc, nested, cursor, entry   where a caller is: nested says that it is *)
(*               in the ML25 evaluation called for the output number entry *)
(*   locals[c]   the non-NULL pointers of the call, <<level, name>>: level *)
(*               1 the call's own, level 2 those of the nested evaluation  *)
(*   heap        the live blocks, <<caller, the pointer it was given to>>  *)
(*   private[c], scratch[c]   what the private output buffers of each      *)
(*               level and the prefix buffer hold                          *)
(***************************************************************************)
EXTENDS EvalOutcomes, FiniteSets

CONSTANTS Callers, Requests,
          HeapLimit,   \* the blocks the heap has room for
          MayFail      \* whether calloc may fail although there is room

ASSUME EvaluationAssumption ==
  /\ IsFiniteSet(Callers)
  /\ HeapLimit \in Nat
  /\ MayFail \in BOOLEAN

ASSUME RequestsAssumption ==
  \A r \in Requests :
    /\ r.op \in {"eval", "contracted"}
    /\ r.impl \in Impls \cup {NoImpl}
    /\ r.input.npoints \in Nat
    /\ r.entries \in Seq(DerivEntry)
    /\ \A i \in DOMAIN r.entries :
         Len(r.entries[i].vars) \in {0, r.entries[i].order}

VARIABLES request, status, output,
          pc, nested, cursor, entry, locals, heap, private, scratch

visible == <<request, status, output>>

frame == <<nested, cursor, entry>>
memory == <<locals, heap>>
vars == <<visible, pc, frame, memory, private, scratch>>

InputNames == <<"rho_tm", "sigma_tm", "tau_tm", "lapl_tm">>
InputSet == {InputNames[i] : i \in DOMAIN InputNames}
Prefix == <<1, "prefix">>

Inputs(level) == {level} \X InputSet
Outputs(level) == {level} \X FieldNames
Frame(level) == Inputs(level) \cup Outputs(level)
Pointers == Frame(1) \cup Frame(2) \cup {Prefix}

Locations == {"idle", "validate", "streaming", "contracted", "transpose",
              "allocate", "kernel", "copy", "replace", "resume", "cleanup"}

(* The evaluation a caller is in: the call itself or the nested one. *)
Level(c) == IF nested[c] THEN 2 ELSE 1
EvalSet(c) == IF nested[c] THEN "ML25" ELSE request[c].impl.set
Entries(c) ==
  IF nested[c] THEN <<request[c].entries[entry[c]]>> ELSE request[c].entries

(* Faulty: the fields above the requested order are not left out. *)
PendingFieldsOfAllOrders(c) ==
  {i \in StoredFields(request[c].impl.nspin, request[c].input.npoints, 4) :
     i >= cursor[c]}

(* The private output fields the evaluation has not yet asked storage for. *)
PendingFields(c) ==
  {i \in StoredFields(request[c].impl.nspin, request[c].input.npoints,
                      MaxRequestedOrder(Entries(c))) : i >= cursor[c]}
-----------------------------------------------------------------------------
Goto(c, location) == pc' = [pc EXCEPT ![c] = location]
SetCursor(c, k) == cursor' = [cursor EXCEPT ![c] = k]
SetStatus(c, s) == status' = [status EXCEPT ![c] = s]

HasRoom == Cardinality(heap) < HeapLimit

Calloc(c, pointer) ==
  /\ HasRoom
  /\ heap' = heap \cup {<<c, pointer>>}
  /\ locals' = [locals EXCEPT ![c] = @ \cup {pointer}]

CallocFails == (MayFail \/ ~HasRoom) /\ UNCHANGED memory

(* free() of some pointers, of which NULL ones are nothing to it: the blocks are
   gone, the pointers stay as they are. *)
Free(c, pointers) ==
  heap' = heap \ ({c} \X (pointers \cap locals[c]))

(* Pointers are set to NULL, or go out of scope. *)
Drop(c, pointers) == locals' = [locals EXCEPT ![c] = @ \ pointers]
-----------------------------------------------------------------------------
Init ==
  /\ request = [c \in Callers |-> NoRequest]
  /\ status = [c \in Callers |-> "none"]
  /\ output = [c \in Callers |-> << >>]
  /\ pc = [c \in Callers |-> "idle"]
  /\ nested = [c \in Callers |-> FALSE]
  /\ cursor = [c \in Callers |-> 1]
  /\ entry = [c \in Callers |-> 1]
  /\ locals = [c \in Callers |-> {}]
  /\ heap = {}
  /\ private = [c \in Callers |-> [level \in 1..2 |-> "zero"]]
  /\ scratch = [c \in Callers |-> "zero"]

(* A caller that has no call running makes one. *)
Begin(c) ==
  /\ pc[c] = "idle"
  /\ \E r \in Requests :
        /\ request' = [request EXCEPT ![c] = r]
        /\ output' = [output EXCEPT ![c] = Untouched(r)]
  /\ SetStatus(c, "none")
  /\ Goto(c, "validate")
  /\ UNCHANGED <<frame, memory, private, scratch>>

(* The argument checks, and the choice of the path in the backend. *)
CheckArguments(c) ==
  /\ pc[c] = "validate"
  /\ LET r == request[c] IN
       IF Validate(r) # "OK" THEN SetStatus(c, Validate(r)) /\ Goto(c, "idle")
       ELSE /\ UNCHANGED status
            /\ Goto(c, IF r.op = "contracted" THEN "contracted"
                       ELSE IF IsStreaming(r) THEN "streaming" ELSE "transpose")
  /\ SetCursor(c, 1)
  /\ UNCHANGED <<request, output, nested, entry, memory, private, scratch>>

(* The integral of the features and the contraction work point by point on
   the stack and write straight into the caller's arrays. *)
RunOnStack(c) ==
  /\ pc[c] \in {"streaming", "contracted"}
  /\ output' = [output EXCEPT ![c] = Uniform(request[c], request[c].impl.set)]
  /\ SetStatus(c, "OK")
  /\ Goto(c, "idle")
  /\ UNCHANGED <<request, frame, memory, private, scratch>>
-----------------------------------------------------------------------------
(* The four buffers of the transposed inputs are all asked for ... *)
CallocInput(c) ==
  /\ pc[c] = "transpose"
  /\ request[c].input.npoints > 0
  /\ cursor[c] =< Len(InputNames)
  /\ Calloc(c, <<Level(c), InputNames[cursor[c]]>>) \/ CallocFails
  /\ SetCursor(c, cursor[c] + 1)
  /\ UNCHANGED <<visible, pc, nested, entry, private, scratch>>

(* ... before any of them is looked at. *)
TransposeInputs(c) ==
  /\ pc[c] = "transpose"
  /\ request[c].input.npoints > 0 => cursor[c] > Len(InputNames)
  /\ IF request[c].input.npoints = 0 \/ Inputs(Level(c)) \subseteq locals[c]
     THEN /\ Goto(c, "allocate")
          /\ UNCHANGED <<status, memory>>
     ELSE /\ Free(c, Inputs(Level(c)))
          /\ Drop(c, Inputs(Level(c)))
          /\ SetStatus(c, "E_ALLOCATION")
          /\ Goto(c, "cleanup")
  /\ SetCursor(c, 1)
  /\ UNCHANGED <<request, output, nested, entry, private, scratch>>

CallocOutput(c) ==
  /\ pc[c] = "allocate"
  /\ \E i \in PendingFields(c) :
        /\ \A j \in PendingFields(c) : i =< j
        /\ Calloc(c, <<Level(c), PrivateFields[i].name>>)
        /\ SetCursor(c, i + 1)
  /\ UNCHANGED <<visible, pc, nested, entry, private, scratch>>

(* Faulty: the struct is not cleared after its buffers are freed. *)
CallocOutputFailsUncleared(c) ==
  /\ pc[c] = "allocate"
  /\ PendingFields(c) # {}
  /\ MayFail \/ ~HasRoom
  /\ Free(c, Outputs(Level(c)))
  /\ SetStatus(c, "E_ALLOCATION")
  /\ Goto(c, "cleanup")
  /\ UNCHANGED <<request, output, frame, locals, private, scratch>>

(* The buffers before the one that failed are freed, and the struct of the
   pointers is cleared, for the caller goes on to its cleanup label. *)
CallocOutputFails(c) ==
  /\ pc[c] = "allocate"
  /\ PendingFields(c) # {}
  /\ MayFail \/ ~HasRoom
  /\ Free(c, Outputs(Level(c)))
  /\ Drop(c, Outputs(Level(c)))
  /\ SetStatus(c, "E_ALLOCATION")
  /\ Goto(c, "cleanup")
  /\ UNCHANGED <<request, output, frame, private, scratch>>

(* Faulty: the buffers are not cleared. *)
OutputsAllocatedUncleared(c) ==
  /\ pc[c] = "allocate"
  /\ PendingFields(c) = {}
  /\ private' = [private EXCEPT ![c][Level(c)] = "garbage"]
  /\ Goto(c, "kernel")
  /\ UNCHANGED <<visible, frame, memory, scratch>>

OutputsAllocated(c) ==
  /\ pc[c] = "allocate"
  /\ PendingFields(c) = {}
  /\ private' = [private EXCEPT ![c][Level(c)] = "zero"]
  /\ Goto(c, "kernel")
  /\ UNCHANGED <<visible, frame, memory, scratch>>

(* The generated code adds its values for every point to the buffers. *)
RunKernel(c) ==
  /\ pc[c] = "kernel"
  /\ private' = [private EXCEPT ![c][Level(c)] =
                   IF request[c].input.npoints = 0 THEN @ ELSE EvalSet(c)]
  /\ SetCursor(c, 1)
  /\ Goto(c, "copy")
  /\ UNCHANGED <<visible, nested, entry, memory, scratch>>

(* One entry is copied from its private buffer to its output, which for a
   nested evaluation is the prefix buffer of the outer one. *)
CopyEntry(c) ==
  /\ pc[c] = "copy"
  /\ cursor[c] =< Len(Entries(c))
  /\ <<Level(c), SourceField(Entries(c)[cursor[c]])>> \in locals[c]
  /\ IF nested[c]
     THEN /\ scratch' = [scratch EXCEPT ![c] = private[c][2]]
          /\ UNCHANGED output
     ELSE /\ output' = [output EXCEPT ![c][cursor[c]] =
                          [p \in Parts(request[c]) |-> private[c][1]]]
          /\ UNCHANGED scratch
  /\ SetCursor(c, cursor[c] + 1)
  /\ UNCHANGED <<request, status, pc, nested, entry, memory, private>>

NoSourceBuffer(c) ==
  /\ pc[c] = "copy"
  /\ cursor[c] =< Len(Entries(c))
  /\ <<Level(c), SourceField(Entries(c)[cursor[c]])>> \notin locals[c]
  /\ SetStatus(c, "E_INTERNAL")
  /\ Goto(c, "cleanup")
  /\ UNCHANGED <<request, output, frame, memory, private, scratch>>

EntriesCopied(c) ==
  /\ pc[c] = "copy"
  /\ cursor[c] > Len(Entries(c))
  /\ SetStatus(c, "OK")
  /\ entry' = IF nested[c] THEN entry ELSE [entry EXCEPT ![c] = 1]
  /\ Goto(c, IF EvalSet(c) = "ML26" THEN "replace" ELSE "cleanup")
  /\ UNCHANGED <<request, output, nested, cursor, memory, private, scratch>>
-----------------------------------------------------------------------------
NextEntry(c) == entry' = [entry EXCEPT ![c] = @ + 1]

(* Faulty: the loop does not go on. *)
SkipOrderZeroForever(c) ==
  /\ pc[c] = "replace"
  /\ entry[c] =< Len(request[c].entries)
  /\ ~IsDerivative(request[c], entry[c])
  /\ UNCHANGED vars

SkipOrderZero(c) ==
  /\ pc[c] = "replace"
  /\ entry[c] =< Len(request[c].entries)
  /\ ~IsDerivative(request[c], entry[c])
  /\ NextEntry(c)
  /\ UNCHANGED <<visible, pc, nested, cursor, memory, private, scratch>>

(* The ML25 code evaluates a derivative once more, into a prefix buffer. *)
BeginPrefix(c) ==
  /\ pc[c] = "replace"
  /\ entry[c] =< Len(request[c].entries)
  /\ IsDerivative(request[c], entry[c])
  /\ Calloc(c, Prefix)
  /\ scratch' = [scratch EXCEPT ![c] = "zero"]
  /\ nested' = [nested EXCEPT ![c] = TRUE]
  /\ SetCursor(c, 1)
  /\ Goto(c, "transpose")
  /\ UNCHANGED <<visible, entry, private>>

BeginPrefixFails(c) ==
  /\ pc[c] = "replace"
  /\ entry[c] =< Len(request[c].entries)
  /\ IsDerivative(request[c], entry[c])
  /\ CallocFails
  /\ SetStatus(c, "E_ALLOCATION")
  /\ Goto(c, "cleanup")
  /\ UNCHANGED <<request, output, frame, private, scratch>>

(* Faulty: an error returns before the prefix buffer is freed. *)
EndPrefixReturnsEarly(c) ==
  /\ pc[c] = "resume"
  /\ IF status[c] = "OK"
     THEN /\ output' = [output EXCEPT ![c][entry[c]]["prefix"] = scratch[c]]
          /\ NextEntry(c)
          /\ Goto(c, "replace")
          /\ Free(c, {Prefix})
     ELSE /\ Goto(c, "cleanup")
          /\ UNCHANGED <<output, entry, heap>>
  /\ Drop(c, {Prefix})
  /\ UNCHANGED <<request, status, nested, cursor, private, scratch>>

(* Faulty: the status of the nested evaluation is not looked at. *)
EndPrefixUnchecked(c) ==
  /\ pc[c] = "resume"
  /\ output' = [output EXCEPT ![c][entry[c]]["prefix"] = scratch[c]]
  /\ NextEntry(c)
  /\ Goto(c, "replace")
  /\ Free(c, {Prefix})
  /\ Drop(c, {Prefix})
  /\ UNCHANGED <<request, status, nested, cursor, private, scratch>>

(* After the nested evaluation: its values replace the features of ML25 in
   the output, or its error becomes the error of the call. The pointer to the
   prefix buffer is local to the turn of the loop. *)
EndPrefix(c) ==
  /\ pc[c] = "resume"
  /\ IF status[c] = "OK"
     THEN /\ output' = [output EXCEPT ![c][entry[c]]["prefix"] = scratch[c]]
          /\ NextEntry(c)
          /\ Goto(c, "replace")
     ELSE /\ Goto(c, "cleanup")
          /\ UNCHANGED <<output, entry>>
  /\ Free(c, {Prefix})
  /\ Drop(c, {Prefix})
  /\ UNCHANGED <<request, status, nested, cursor, private, scratch>>

EntriesReplaced(c) ==
  /\ pc[c] = "replace"
  /\ entry[c] > Len(request[c].entries)
  /\ SetStatus(c, "OK")
  /\ Goto(c, "cleanup")
  /\ UNCHANGED <<request, output, frame, memory, private, scratch>>

(* Faulty: a nested evaluation keeps its inputs. *)
CleanupKeepsInputs(c) ==
  /\ pc[c] = "cleanup"
  /\ Free(c, IF nested[c] THEN Outputs(2) ELSE Frame(1))
  /\ Drop(c, Frame(Level(c)))
  /\ Goto(c, IF nested[c] THEN "resume" ELSE "idle")
  /\ nested' = [nested EXCEPT ![c] = FALSE]
  /\ UNCHANGED <<visible, cursor, entry, private, scratch>>

(* The label every way out of a combined evaluation passes through; the
   pointers are local to the function it returns from. *)
Cleanup(c) ==
  /\ pc[c] = "cleanup"
  /\ Free(c, Frame(Level(c)))
  /\ Drop(c, Frame(Level(c)))
  /\ Goto(c, IF nested[c] THEN "resume" ELSE "idle")
  /\ nested' = [nested EXCEPT ![c] = FALSE]
  /\ UNCHANGED <<visible, cursor, entry, private, scratch>>
-----------------------------------------------------------------------------
(* What a call does once it is made. *)
Step(c) ==
  \/ CheckArguments(c) \/ RunOnStack(c)
  \/ CallocInput(c) \/ TransposeInputs(c)
  \/ CallocOutput(c) \/ CallocOutputFails(c) \/ OutputsAllocated(c)
  \/ RunKernel(c)
  \/ CopyEntry(c) \/ NoSourceBuffer(c) \/ EntriesCopied(c)
  \/ SkipOrderZero(c) \/ BeginPrefix(c) \/ BeginPrefixFails(c)
  \/ EndPrefix(c) \/ EntriesReplaced(c)
  \/ Cleanup(c)

Next == \E c \in Callers : Begin(c) \/ Step(c)

(* A running call is a thread the scheduler lets run. *)
Spec == Init /\ [][Next]_vars /\ \A c \in Callers : WF_vars(Step(c))
-----------------------------------------------------------------------------
(* What the private buffers of the two levels hold. *)
PrivateContents == [1..2 -> FeatureSets \cup {"zero"}]

ControlType ==
  /\ request \in [Callers -> Requests \cup {NoRequest}]
  /\ status \in [Callers -> Status \cup {"none"}]
  /\ pc \in [Callers -> Locations]
  /\ nested \in [Callers -> BOOLEAN]
  /\ cursor \in [Callers -> Nat \ {0}]
  /\ entry \in [Callers -> Nat \ {0}]
  /\ private \in [Callers -> PrivateContents]
  /\ scratch \in [Callers -> FeatureSets \cup {"zero"}]

OutputType ==
  /\ output = [c \in Callers |-> output[c]]
  /\ \A c \in Callers : request[c] \in Requests =>
       output[c] \in [OutputIndices(request[c]) ->
                        [Parts(request[c]) -> Origins \cup {"zero"}]]

MemoryType ==
  /\ locals \in [Callers -> SUBSET Pointers]
  /\ heap \subseteq Callers \X Pointers

(* The requests of the callers, their control state, the origin of what is in
   their outputs, and the blocks on the heap. *)
TypeOK == ControlType /\ OutputType /\ MemoryType

(* The pointers the code at this place of a call frees, or reads and writes
   through; the prefix buffer is the output of a nested evaluation. *)
UsedPointers(c) ==
  CASE pc[c] = "transpose" -> Inputs(Level(c))
    [] pc[c] = "allocate" -> Outputs(Level(c))
    [] pc[c] \in {"kernel", "copy", "cleanup"} ->
         Frame(Level(c)) \cup (IF nested[c] THEN {Prefix} ELSE {})
    [] pc[c] = "resume" -> {Prefix}
    [] OTHER -> {}

(* No block is freed twice, or used after it was freed: where a call frees or
   uses a pointer that is not NULL, its block is live. A failing transposition
   or allocation frees what it has, and the cleanup label frees the same
   pointers again. *)
NoFreedBlockUsed ==
  \A c \in Callers : \A p \in UsedPointers(c) \cap locals[c] : <<c, p>> \in heap

(* A call that returned, with whatever status, left no block behind. *)
NothingHeldWhenIdle ==
  \A c \in Callers : pc[c] = "idle" => \A b \in heap : b[1] # c

(* The pointers the next allocations of a call will be given to. *)
NextPointers(c) ==
  CASE pc[c] = "transpose" ->
         {<<Level(c), InputNames[i]>> : i \in cursor[c]..Len(InputNames)}
         \cup Outputs(Level(c))
    [] pc[c] = "allocate" ->
         {<<Level(c), PrivateFields[i].name>> : i \in PendingFields(c)}
    [] pc[c] = "replace" -> {Prefix} \cup Frame(2)
    [] OTHER -> {}

(* No allocation overwrites a pointer that still has a block: across the
   entries of a request and the calls of a caller, an evaluation finds nothing
   left of the blocks that were given to the pointers of its frame before. *)
NoBlockForgotten ==
  \A c \in Callers : \A p \in NextPointers(c) : <<c, p>> \notin heap

(* The blocks a request needs at its peak. The nested evaluations of ML26 run
   one after the other, on top of the buffers of the outer evaluation. *)
Demand(r) ==
  LET order == MaxRequestedOrder(r.entries)
      combined == Len(InputNames)
                  + Cardinality(StoredFields(r.impl.nspin, r.input.npoints, order))
  IN  IF Validate(r) # "OK" \/ ~IsCombined(r) \/ r.input.npoints = 0 THEN 0
      ELSE IF r.impl.set = "ML26" /\ order > 0 THEN 2 * combined + 1
      ELSE combined

(* When calloc fails only for want of room, and the room covers what the
   running calls demand together, no call runs out of memory. *)
EnoughRoomSuffices ==
  ~MayFail /\ (\A r \in Requests : Cardinality(Callers) * Demand(r) =< HeapLimit)
  => \A c \in Callers : status[c] # "E_ALLOCATION"

(* An ML25 call commits by its first write: once an output of the caller is
   written nothing can fail any more, so a call that fails has written
   nothing. *)
ML25WritesOnlyWhenSure ==
  [][\A c \in Callers :
       /\ pc[c] # "idle"
       /\ request[c].impl.set = "ML25"
       /\ output[c] # Untouched(request[c])
       => status'[c] \in {"none", "OK"}]_vars

(* "This is equivalent to evaluating local first derivatives for rho, sigma,
   and tau with ifxc_eval()" (the header on the contraction): whoever gets the
   one also gets the other, unless memory runs out. *)
FirstDerivatives(r) ==
  /\ r.op = "eval"
  /\ \A i \in DOMAIN r.entries :
       r.entries[i].target = "LOCAL" /\ r.entries[i].order = 1

ContractionEquivalentToEval ==
  \A c, d \in Callers :
    /\ pc[c] = "idle" /\ status[c] = "OK" /\ request[c].op = "contracted"
    /\ pc[d] = "idle" /\ status[d] # "none" /\ FirstDerivatives(request[d])
    /\ request[c].impl = request[d].impl /\ request[c].input = request[d].input
    => status[d] \in {"OK", "E_ALLOCATION"}

(* Every call returns. *)
EveryCallReturns == \A c \in Callers : pc[c] # "idle" ~> pc[c] = "idle"

(* The calls keep the contract of EvalContract: what the caller sees of a
   returned call is one of the outcomes of its request. *)
Contract == INSTANCE EvalContract WITH
  status <- [c \in Callers |-> IF pc[c] = "idle" THEN status[c] ELSE "pending"],
  output <- [c \in Callers |-> IF pc[c] = "idle" THEN output[c] ELSE << >>]

KeepsContract == Contract!Spec
=============================================================================
