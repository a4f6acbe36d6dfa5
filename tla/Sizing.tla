-------------------------------- MODULE Sizing --------------------------------
(***************************************************************************)
(* The protocol of the output arrays: a caller asks ifxc_output_size for   *)
(* the size of an entry's output, allocates it, and evaluates the entry.   *)
(* The size, the checks of the evaluation, the dimensions of the private   *)
(* buffers and the loops that fill the output are four pieces of code that *)
(* have to agree.                                                          *)
(***************************************************************************)
EXTENDS PrivateOutputs

CONSTANTS Inputs, Entries,
          SizeBits    \* the width of size_t

(* Any entry and any grid, where the variables of an entry are an array of its
   order, or none for a NULL. *)
ASSUME SizingAssumption ==
  /\ SizeBits \in Nat \ {0}
  /\ \A x \in Inputs : x.npoints \in Nat
  /\ \A e \in Entries : e \in DerivEntry /\ Len(e.vars) \in {0, e.order}

VARIABLES impl, input, entry,
          sized,    \* the answer of ifxc_output_size: [status, cells]
          used      \* what the evaluation does with its buffers

vars == <<impl, input, entry, sized, used>>

Unsized == [status |-> "none", cells |-> 0]
Unused == [status |-> "none", writes |-> 0, source |-> "none",
           reads |-> 0, length |-> 0]
-----------------------------------------------------------------------------
Init ==
  /\ impl \in Impls \cup {NoImpl}
  /\ input \in Inputs
  /\ entry \in Entries
  /\ sized = Unsized
  /\ used = Unused

(* What ifxc_output_size answers; the product wraps around at the width of
   size_t. *)
Told ==
  LET answer == OutputSizeStatus(impl, input, entry)
  IN  [status |-> answer,
       cells |-> IF answer = "OK"
                 THEN OutputSize(impl, input, entry) % (2^SizeBits)
                 ELSE 0]

AskSize ==
  /\ sized = Unsized
  /\ sized' = Told
  /\ UNCHANGED <<impl, input, entry, used>>

(* The doubles the loops of the evaluation write into the output. *)
Writes ==
  IF entry.order = 0 /\ entry.target = "INTEGRAL" THEN NFeatures(impl.set)
  ELSE input.npoints * NFeatures(impl.set) * EntryComponents(impl.nspin, entry)

(* The doubles they read from the private buffer, and those it has. *)
Reads == input.npoints * NFeatures(impl.set) * EntryComponents(impl.nspin, entry)

BufferLength(name) ==
  LET field == CHOOSE f \in {PrivateFields[i] : i \in DOMAIN PrivateFields} :
                 f.name = name
  IN  input.npoints * (PrivateDimension(impl.nspin, field, entry.order)
                       * NFeatures(impl.set))

(* What the evaluation of the entry comes to, with an output allocated. *)
Outcome ==
  LET allocated == [entry EXCEPT !.out = TRUE]
      checks == ValidateEval(impl, input, <<allocated>>)
      answer == IF checks # "OK" THEN checks
                ELSE BackendStatus(impl.set, <<allocated>>)
      source == SourceField(entry)
  IN  IF answer # "OK" THEN [Unused EXCEPT !.status = answer]
      ELSE IF entry.order = 0 /\ entry.target = "INTEGRAL"
           THEN [Unused EXCEPT !.status = "OK", !.writes = Writes]
      ELSE IF source = "none" \/ input.npoints = 0
           THEN [Unused EXCEPT !.status = "E_INTERNAL"]
      ELSE [status |-> "OK", writes |-> Writes, source |-> source,
            reads |-> Reads, length |-> BufferLength(source)]

(* The caller evaluates the entry with the output of the size it was told. *)
Evaluate ==
  /\ sized # Unsized
  /\ used = Unused
  /\ used' = Outcome
  /\ UNCHANGED <<impl, input, entry, sized>>

Next == AskSize \/ Evaluate

Spec == Init /\ [][Next]_vars
-----------------------------------------------------------------------------
Answers == Status \cup {"none"}

(* An entry that was given a size is evaluated, and an entry that was refused
   one is refused by the evaluation with the same status: the two entry points
   check by different code. What only the evaluation needs are the weights
   and, outside the streaming path, at least one point. *)
SizedIffEvaluated ==
  used.status # "none" =>
    \/ used.status = sized.status
    \/ /\ sized.status = "OK"
       /\ \/ used.status = "E_MISSING_INPUT" /\ ~input.weights
          \/ used.status = "E_INTERNAL" /\ input.npoints = 0

(* The evaluation writes the size it told, to the last double, unless that
   size does not fit size_t: an output allocated by it is neither overrun nor
   left partly unwritten. *)
WritesTheToldSize ==
  used.status = "OK" /\ used.writes < 2^SizeBits => used.writes = sized.cells

(* The copy reads the private buffer of the entry, which exists, to its end:
   the table of private dimensions and the binomials of the component count
   agree for every derivative. *)
ReadsItsBuffer ==
  used.source # "none" => used.length = used.reads /\ used.reads > 0

(* The components of a derivative: one component of each of its variables,
   those of a repeated variable in order. *)
Multisets(nspin, by) ==
  {s \in [1..Len(by) -> 0..2] :
     /\ \A i \in 1..Len(by) : s[i] < Dimensions(nspin)[by[i]]
     /\ \A i \in 2..Len(by) : by[i] = by[i-1] => s[i-1] =< s[i]}

(* "Repeated variables use compact symmetric component enumeration; mixed
   variable groups use products of those compact groups" (ifxc.h): the size
   has room for exactly that many components, although it is computed with
   binomials, one division at a time. *)
SizeCountsComponents ==
  sized.status = "OK" /\ entry.order > 0
  /\ NFeatures(impl.set) * Cardinality(Multisets(impl.nspin, entry.vars))
     * input.npoints < 2^SizeBits =>
    sized.cells = NFeatures(impl.set) * input.npoints
                  * Cardinality(Multisets(impl.nspin, entry.vars))
=============================================================================
