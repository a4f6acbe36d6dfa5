---------------------------- MODULE EvalOutcomes ----------------------------
(***************************************************************************)
(* What a request may be answered with. A request r is a call of ifxc_eval *)
(* (r.op = "eval") with r.impl, r.input and r.entries, or a call of        *)
(* ifxc_eval_first_derivatives_contracted (r.op = "contracted"), where     *)
(* r.arrays says whether the coefficients and the outputs are non-NULL.    *)
(***************************************************************************)
EXTENDS PrivateOutputs

NoRequest == [op |-> "none"]

(* The parts an output array is looked at in: the rows of the 66 features of
   ML25 and, for ML26, those of its further features; a contraction has no
   rows of features. *)
Parts(r) ==
  IF r.op = "contracted" THEN {"contraction"}
  ELSE IF r.impl.set = "ML26" THEN {"prefix", "tail"}
  ELSE {"prefix"}

OutputIndices(r) == IF r.op = "contracted" THEN 1..3 ELSE DOMAIN r.entries

(* Where the values of a part come from: still the caller's, or computed by
   the generated code of a feature set. *)
Origins == FeatureSets \cup {"caller"}

Uniform(r, origin) == [i \in OutputIndices(r) |-> [p \in Parts(r) |-> origin]]
Untouched(r) == Uniform(r, "caller")

(* The argument checks and what the backend refuses. *)
Validate(r) ==
  LET checks == IF r.op = "contracted"
                THEN ValidateContracted(r.impl, r.input, r.arrays)
                ELSE ValidateEval(r.impl, r.input, r.entries)
  IN  IF checks # "OK" THEN checks
      ELSE IF r.op = "contracted"
           THEN IF HasCombinedOrder(r.impl.set, 1) THEN "OK"
                ELSE "E_UNSUPPORTED_DERIVATIVE"
      ELSE BackendStatus(r.impl.set, r.entries)

IsStreaming(r) == r.op = "eval" /\ Streams(r.entries)

IsCombined(r) == r.op = "eval" /\ ~IsStreaming(r)

IsDerivative(r, i) == r.entries[i].order > 0

(* The outputs with the derivatives of the first n entries in their final
   form: the values of the generated code of the feature set, with the ML25
   features of an ML26 derivative taken from the ML25 code. *)
ReplacedUpTo(r, n) ==
  [i \in OutputIndices(r) |->
     [p \in Parts(r) |->
        IF /\ r.impl.set = "ML26" /\ p = "prefix"
           /\ i =< n /\ IsDerivative(r, i)
        THEN "ML25" ELSE r.impl.set]]

Complete(r) ==
  IF IsCombined(r) THEN ReplacedUpTo(r, Len(r.entries)) ELSE Uniform(r, r.impl.set)

(* The outputs of a call that ran out of memory: as the caller left them, or,
   for ML26, with the derivatives before the n-th entry in their final form. *)
AbandonedOutputs(r) ==
  {Untouched(r)} \cup
  {ReplacedUpTo(r, n - 1) :
     n \in {i \in OutputIndices(r) : r.impl.set = "ML26" /\ IsDerivative(r, i)}}

Outcomes(r) ==
  LET refused == Validate(r)
  IN  IF refused # "OK" THEN {<<refused, Untouched(r)>>}
      ELSE IF ~IsCombined(r) THEN {<<"OK", Complete(r)>>}
      ELSE IF r.input.npoints = 0 THEN {<<"E_INTERNAL", Untouched(r)>>}
      ELSE {<<"OK", Complete(r)>>} \cup
           {<<"E_ALLOCATION", out>> : out \in AbandonedOutputs(r)}
=============================================================================
