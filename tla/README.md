# A verification development of libifxc

libifxc computes the ML25 and ML26 integral features of a density functional and
their derivatives. A caller initialises a handle for a feature set and a spin
mode, asks how large an output is, and evaluates a list of derivative entries
over a grid of points, or contracts first derivatives with coefficients. The C
library (`src/src`, `src/include`) is small and sequential inside a call; what is
hard in it is memory (up to 49 blocks per call, each of which may fail to be
allocated, and a nested evaluation inside the ML26 one), index arithmetic over
four layouts, and several pieces of code that must agree without sharing
anything. The modules here model that; floating-point values are represented by
where they come from.

## Inventory

| component | state | operations | interacts with |
|---|---|---|---|
| handles (`ifxc_api.c`) | the pointer of an `ifxc_func_type`, the block it points to | `ifxc_init`, `ifxc_end`, the three queries | heap; every evaluation reads the block |
| request checks and sizes (`ifxc_eval.c`, `ifxc_derivatives.c`, `ifxc_metadata.c`) | none | `ifxc_output_size`, the checks of `ifxc_eval` and of the contraction, component count, dimensions | handle, backends |
| combined evaluation (`ifxc_ml25_backend.c`, `ifxc_ml26_backend.c`) | private dimensions, four transposed inputs, private output buffers, prefix buffer, status | transpose, allocate, kernel, copy, replace the ML25 features, clean up | heap, kernels, the caller's outputs; ML26 calls the ML25 evaluation |
| streaming integral and contraction (`ifxc_ml25_combined.c`, `ifxc_ml26_combined.c`) | arrays on the stack | a loop over points | kernels, the caller's outputs |
| work functions (`ifxc_work_mgga*.c`, `mgga_xc_ml25_inc.c`) | none | screening and clamping of a point, a table by order and spin | kernels, private buffers |
| feature metadata (`ifxc_metadata.c`, `features/*.def`) | constant tables | information on sets and features | - |
| code generator (`scripts/maple2c*`) | lists of derivatives and of batches, a worklist, the pending output block, temporary files, a pool of threads | enumeration of derivatives and spin components, batching, definitions for Maple, runs of Maple, output code, the generated file | Maple; determines the layout of the private buffers |
| manifest checks (`scripts/check_*`) | none | compare names in text files | generator output |
| Maple sources, generated kernels | none | arithmetic | - |
| build and tests | none | - | - |

The library has no locks and no mutable global state: calls on the same or on
different handles run concurrently and share only the heap.

What makes the components correct, and what is hard about it:

* *handles*: a block belongs to one handle, is freed once, and is lost only if a
  caller initialises a live handle again. Hard: order of calls, failed calls.
* *checks and sizes*: the size that is reported is the size that is written;
  an entry with a size is evaluated; sizes count components. Hard: two sets of
  checks, boundaries, the width of `size_t`.
* *combined evaluation*: whichever allocation fails, every block is freed once
  and no pointer dangles; an answer `IFXC_OK` means complete outputs; after
  `IFXC_E_ALLOCATION` it is known which outputs hold what; every call returns;
  every number lands in its documented place. Hard: partial failure, nesting,
  contention for memory, strides of 66 and 69, features-first against
  components-first rows.
* *streaming and contraction*: the same numbers as the combined path. Hard: the
  same steps written a second and third time.
* *generator*: every spin component is enumerated once and in the order of the
  documentation; Maple is given every definition a batch needs in an order it
  can use; every derivative is added to its place by every caller of the
  generated code; a run that fails leaves the old file as it was. Hard: hand-written
  tables, the same choice made in several loops, threads that fail at any time.

`PROJECT.json` lists the hazards by line.

## Modules

| module | models | state and actions |
|---|---|---|
| `IfxcRequest` | constants of `ifxc.h`, the argument checks, component count and sizes | none: one operator per C function, early returns in their order |
| `PrivateOutputs` | the 35 private output fields, their dimensions, which exist for an order, which field serves an entry, the table of work functions and the limits of the backends | none |
| `EvalOutcomes` | for a request, the set of (status, outputs) it may be answered with | none |
| `EvalContract` | abstract specification of a call: `Call`, `Return` with one of the outcomes | what a caller sees |
| `Evaluation` | `ifxc_eval` and the contraction, step by step | one action per allocation, loop turn over entries, failure path and cleanup; `pc[c]` is the place in the C function, `nested[c]` says that it is the ML25 evaluation inside the ML26 one, `cursor[c]` the loop counter of the running function, `entry[c]` that of `ifxc_ml26_replace_ml25_derivative_prefix`; `locals[c]` the non-NULL pointers, `heap` the live blocks |
| `DataLayout` | the loops that move numbers, for one entry | one action per turn of a loop; `point`, `feature`, `comp` are the C counters |
| `Sizing` | ask for a size, then evaluate | two actions; the size is taken modulo `2^SizeBits` |
| `Handle` | the life of handles, the queries and the metadata they must agree with | one action per call; `answer[h]` is the last answer a caller got through `h` |
| `PointLoops` | the work function over the points of a grid, the streaming integral, the contraction | one action per point; `point` is the C counter, `zk` and `first` the private buffers; a cell is the sequence of the terms added up in it |
| `SpinComponents` | the lists of the generator: names of derivatives, spin components, outputs, batches, the body of a function | none |
| `BatchDefinitions` | the worklist that collects the definitions a batch needs, and writing them (`maple_define_feature_batch_derivatives`) | one action per turn of a loop; `pending` is the stack, `seen` the keys of the Python set, `definitions` what is written |
| `OutputBlocks` | how the lines Maple printed become the code of the orders (`maple_run`) | one action per line; `totalOrder`, `pendingTest`, `pendingLines` are the Python variables |
| `GeneratedKernel` | a generated function and its three callers | one action per statement and one at the end of a point; `cells` the buffers the function adds to, `stored` what its caller keeps |
| `GeneratedFile` | what the generator is run for, and the complete file | none |
| `Generation` | abstract specification of a run: the file is replaced as a whole or not at all | `Succeed`, `Fail` |
| `GeneratorRun` | the run: header checks, batches by the main thread or a pool, temporary files, Maple, assembly, the final write | one action per call of the main thread or of a worker; `stage[t]` is the place of thread `t` in `maple_run`, 0 the main thread |
| `MC...` | small instances | - |
| `Evaluation_proofs`, `DataLayout_proofs`, `Sizing_proofs`, `Handle_proofs`, `PointLoops_proofs`, `GeneratorRun_proofs` | theorems of the module they are named after | - |
| `GeneratedCode_proofs` | theorems of `BatchDefinitions`, `OutputBlocks` and `GeneratedKernel` | - |
| `SpinComponents_proofs` | lemmas on the fields of the private output and on the lists of the generator, for `Evaluation_proofs`, `Sizing_proofs` and `GeneratedCode_proofs` | - |

`Evaluation` instantiates `EvalContract`, with the outcomes of `EvalOutcomes`, under
a mapping that hides a pending call (`KeepsContract`). `Sizing` ties the checks of `IfxcRequest` to the buffers of
`PrivateOutputs`. `Evaluation` takes the streaming integral and the contraction for
one step, since neither allocates nor fails after the checks; `PointLoops` looks into
that step and compares it with the work function the combined evaluation runs.
`GeneratedKernel` ties the generator to the library: the function bodies come from
`SpinComponents`, the buffers and their dimensions from `PrivateOutputs`. The batches
of `BatchDefinitions` and `OutputBlocks` in their runs are those of `SpinComponents`.
`GeneratorRun` instantiates `Generation` with its own `run`, `output` and `exit`.
Operators marked *Faulty* in a module are variants of the
definition that follows them with a mistake the code could have: they are used by
no specification, only to confirm that a property notices the mistake.

Representation:

* An output array is looked at in two parts, the rows of the 66 ML25 features
  (`"prefix"`) and those of the further ML26 features (`"tail"`), and each holds
  an origin: the caller, or the generated code of a set. `DataLayout` looks into
  the arrays, one cell at a time, for one entry.
* A block is named by the caller and the pointer it was given to, so that a block
  whose pointer is overwritten would be invisible in the set of blocks;
  `NoBlockForgotten` excludes it. `Free` takes blocks from the heap and leaves the
  pointers as they are; `Drop` is the assignment of NULL, or the end of the scope of a
  pointer. Each place in the code has the one, the other or both, as it is written,
  so a pointer can dangle (`NoFreedBlockUsed`) and a block can be lost
  (`NothingHeldWhenIdle`) where one of them is forgotten.
* `calloc` fails when the heap is full, and with `MayFail` at any time.
* The four `calloc` calls of the inputs are steps of their own and are examined
  together, as in the code. Pointers that are local to a function or a turn of a loop
  are NULL from its declaration, as the initialisers say (`prefix` has none, and is
  given its block before anything else).
* The loops that read `rho`, `sigma` and `tau` are the same; `DataLayout` has one
  input of `dim` components. The density factor of order 0 reads the caller's
  `rho` with the same indices.
* In `PointLoops` inputs and thresholds are small integers, those of sigma even (the
  average of two is taken); a value of the generated code is the call it comes from,
  so "the same value" means the same function, feature and arguments. Rounding and
  NaN are outside. Arrays are indexed by point; strides are the matter of `DataLayout`.
* The scale factor of the copy is 1.0 at both of its callers and left out.
* A derivative is a vector of nine exponents, one per variable and spin; the code
  Maple makes of a batch is the pair of its variant and its place in the list.
* What Maple answers is free: it may be missing, fail, print no assignment, or
  print code with any temporaries between the outputs it was asked for.

## Runs

| run | instance | shows |
|---|---|---|
| `eval_one` | 1 caller, 44 requests (both sets, both targets, orders 0 to 3, up to three entries, all kinds of refusal, empty grids), every `calloc` may fail | memory safety (`NoFreedBlockUsed`, `NothingHeldWhenIdle`, `NoBlockForgotten`), when outputs are written (`ML25WritesOnlyWhenSure`), refinement of `EvalContract` |
| `eval_contention` | 2 callers, 3 requests, room for 25 blocks while both can demand 34; allocations fail only for want of room | `EveryCallReturns` and the refinement under contention |
| `eval_room` | 2 callers, room for 34 blocks | `EnoughRoomSuffices` |
| `eval_equivalence` | 2 callers, a contraction and the local derivatives it is said to be equivalent to, grids of 0 and 1 points | a violation, see below |
| `layout` | `N25 = 2`, `N26 = 3`, up to 3 points and 3 components, 1 or 2 input components | `InBounds`, `LayoutCorrect`, `ReplacedBySame` |
| `sizing` | every list of up to three variables with codes 0 to 4, three targets, five handles, eight grids; `SizeBits = 10` | the five pieces of code that know what an entry is agree: `SizedIffEvaluated`, `WritesTheToldSize`, `ReadsItsBuffer`, `SizeCountsComponents` |
| `handle` | 2 handles, 2 blocks | `HandlesOwnTheirBlocks`, `LostOnlyByReinit`, `AnswersMatchMetadata` |
| `points` | every polarized grid of one point with densities 0, 1, 3, mixed sigma from -8 to 8 and thresholds 2; pairs of a screened, a threshold and a far point; unpolarized grids of 0 to 2 points; 2 features | `ArgumentsPhysical`, `StreamingIsSum`, `ContractionIsSum` |
| `batch_definitions` | every batch of five features to order 2 and of two features to order 3, both spins | `WellDefined` (each definition once, in usable order, as its name says: the three choices of a variable agree), `ExactlyNeeded`, `Terminates` |
| `generated_kernel` | functions of orders 0 to 3 for 1, 2 and 5 features, both spins, 2 points, three kinds of caller | `WithinBuffers`, `CombinedFilled`, `ContractedFilled`, `StreamedFilled` |
| `output_blocks` | every batch of five features to order 1 and of two to order 2, and the same without batches; one temporary at any place | `OrdersAgree` (the assertion of `utils.py:630`), `AddedOnce`, `AssignmentsKept` |
| `generator_run` | six headers of a feature set, two functionals with a pool of two threads, two and three batches | `FilesAreOwn`, `NothingRunsOn`, `FilesLeft`, `Exits`, refinement of `Generation` |

Bounds and why they are enough. Requests are restarted for ever in `Evaluation`,
so sequences of calls are not bounded; a third entry adds no new order of orders
to the longest request. Blocks are counted, not sized; 44 requests cover the
failure of each of the calls of `calloc` at both levels. In `layout` the sizes are
pairwise different in some shape, so exchanging any two strides is seen; two
features of ML25 and one more suffice to tell the rows apart. `SizeBits = 10` lets
some sizes of `sizing` wrap around and most not; the code has no check for those that
do, and the properties except them.

Points are independent of one another except in the sums, where two points, screened or
not, show order and omission.

Five features are the least that fill a batch of four outputs and leave one over,
one feature makes groups of a single output; beyond order 3 neither set is generated.
Two threads and three batches make a thread take a second batch, results come in any
order, and a failure meet running and queued batches; two variants make the second
one fail after the first.

Deadlock is not checked in `layout`, `sizing`, `points` and the four runs of the
generator: what they model comes to an end.

Fairness. `EveryCallReturns` assumes weak fairness of each caller's `Step`: a call
is a thread that the scheduler runs, and no step of a call waits for anything.
Nothing is assumed of when callers make calls, nor of when allocations succeed.
`Terminates` assumes that the one thread of the generator goes on. `Exits` assumes
weak fairness of the main thread and of each thread of the pool, and with it of
`MapleEnds`: that Maple comes to an end, which `subprocess.run` waits for without a
timeout, is an assumption on the environment.

### Disagreement found

`eval_equivalence`: `ifxc.h:282` says the contraction "is equivalent to evaluating
local first derivatives for rho, sigma, and tau with ifxc_eval()". For a grid
without points the contraction answers `IFXC_OK`; `ifxc_eval` allocates no private
buffer, takes the NULL for an unknown derivative and answers `IFXC_E_INTERNAL`
(`ifxc_ml25_backend.c:674`, `ifxc_ml26_backend.c:174`).

## Proofs

`Evaluation_proofs`, from `RequestsAssumption` (requests name an operation and an
initialised or an uninitialised handle; a list of variables is NULL or, as the header
asks, as long as the order of its entry) and `EvaluationAssumption` (the callers are
finitely many), for any callers, requests and heap:

* `TypeCorrect`: `Spec => []TypeOK`;
* `NothingFreedTwice`: `Spec => []NoFreedBlockUsed`;
* `NoLeak`: `Spec => []NothingHeldWhenIdle`.

None is inductive alone. `MemoryInv` adds to the types that every live block has its
pointer and every pointer its block (`BlocksHavePointers`), which the frees and the
assignments of NULL keep only together, and what `PointersByLocation` says: which
pointers a call can hold where it is.
Outside the nested evaluation only those of its own frame; the prefix buffer from
`BeginPrefix` to `EndPrefix`; none before the first allocation. With it the frees at
the cleanup label are seen to be enough. The types of the outputs need that every
call past the checks has an initialised handle (`AcceptedImpl`).

On top of `MemoryInv`, in the same module:

* `NothingForgotten`: `Spec => []NoBlockForgotten`; an allocation takes the first of the
  pointers that are to come, no two of them are the same (`NamesDiffer`,
  `FramesDiffer`), and the others stay NULL (`NextStayNull`).
* `AnswersInvariant`: `Spec => []AnswersInv`, the invariant of the next two. `PathInv`
  says for each place of a call on which path it is, `BufferInv` which private buffers
  exist and whose values are in them, `AnswerInv` what the output of the caller holds:
  untouched, copied up to the cursor, replaced up to the entry, or one of the outcomes.
  That a copy finds its source (`SourceHere`) goes back to the argument checks: an
  accepted entry has at most three variables, sorted, of three kinds
  (`CheckedEntries`), each such list is that of a field (`EveryListHasAField` of
  `SpinComponents_proofs`), and the fields of all orders up to the highest requested
  one have storage (`SourceIsStored`).
* `CommitsByFirstWrite`: `Spec => ML25WritesOnlyWhenSure`.
* `CallsKeepTheContract`: `Spec => KeepsContract`. `Begin` is the contract's `Call`; a
  step after which a call is idle is its `Return`; every other step is hidden.
* `RoomSuffices`: `Spec => []EnoughRoomSuffices`. `RoomInv` says that a call was refused no memory and holds only
  pointers its request needs, and these are no more than the demand (`NeedIsDemand`), so
  no more than the caller's share of the room; the pointer of the next allocation is
  one of them. With it the blocks still fit: numbering each caller's pointers maps the
  blocks one to one into pairs of a caller and a number up to the share
  (`BlocksCounted`).

`DataLayout_proofs`, from `LayoutAssumption` (positive sizes, `N25 =< N26`, one
component at order 0):

* `AccessesInBounds`: `Spec => []InBounds`. `LoopInv` says where the counters are in
  each phase; `CellIndex`, from monotonicity of products, bounds both layouts.

and, on top of `LoopInv`:

* `ContentInvariant`: `Spec => []ContentInv`, what the arrays hold at each turn. The
  columns behind the loop are transposed (`InputInv`); the cells of the turns that are
  over (`Before`) hold what the code of the running set computes (`OutInv`,
  `PrefixInv`); behind the turn of the replacement the ML25 rows are those of ML25
  (`ReplaceInv`); the running sum has the points so far (`SumInv`). A turn changes one
  cell and no two turns have the same one (`CellsDiffer`), and `BufferValue`, a division
  and a remainder, inverts the layout of the generated code (`Decoded`); both follow
  from `Division`.
* `LayoutIsCorrect`: `Spec => []LayoutCorrect`, and `ReplacesTheSame`:
  `Spec => ReplacedBySame`.

`Sizing_proofs`, from `SizingAssumption` (an entry's variables are NULL or as many as
its order, and a width of `size_t`), for any entries, grids and widths:

* `SizedAreEvaluated`, `ToldSizeIsWritten`, `BufferIsReadToItsEnd`,
  `SizeIsTheDocumented`: the four properties of the run. The invariant `SizingInv` only
  says that an answer is the one of the entry, grid and handle; the substance is in the
  operators it is made of. An accepted list is some `rho`, then some `sigma`, then some
  `tau` (`IsSplit`). The components of each group are the sorted choices with
  repetition (`OrderedCount`), and `Binomial`, unfolded for the arguments that occur,
  is their number (`BinomialIsGroupSize`); so `ComponentCount` is the product over the
  groups, and so are the table of dimensions of the private fields (`FieldShapes`) and
  the documented components (`SplitMultisets`).

`PointLoops_proofs`, from `PointAssumption` (what a point of the grid is, thresholds
that are not negative, at least one feature; sigma and its threshold even, so that the
average of two is a number of the model), for any grid, thresholds and number of features:

* `PointInvariant`: `Spec => []PointInv`, what the three loops have computed after each
  point: the cells behind the counter are those of the points passed, those before it
  are untouched, and a running sum has the terms of the points so far (`SumGrows`).
* `ArgumentsArePhysical`, `StreamingSums`, `ContractionSums`: the three properties of
  the run. Both codes that prepare a point, the work function and the contraction,
  screen the same points and hand over the same arguments (`SameArguments`), the
  latter within the limits the thresholds draw (`PreparedArePhysical`).

`Handle_proofs`, from `BlocksAssumption`, for any handles and blocks:

* `HandleTypeCorrect`, `OwnershipHolds`, `OnlyReinitLoses`, `MetadataAgrees`. The
  invariant adds to types and ownership that an answer is one the block it came from
  gives; that handles do not share blocks keeps it when another handle ends.

`GeneratedCode_proofs`, of `BatchDefinitions`, from `BatchAssumption` (no derivative is
above the highest order), for every batch:

* `BatchTypeCorrect`, `DefinitionsAreSound`, `ExactlyTheNeeded`. While the worklist
  runs, the lowered derivative of everything seen is zero, seen, or still on the stack
  (`SeenInv`), an output is seen or on the stack (`OutputsInv`), and all that is on it
  is part of an output (`PendingInv`); while definitions are written, all orders below
  the present one are defined (`DefinitionsInv`). The variable of a derivative is chosen
  by two loops and a call of `next()`, an operator each; `ChoicesAgree` shows that they
  choose the same one.

The lists of the generator are flattened lists of lists. `SpinComponents_proofs` shows,
by induction over the stages of the fold `FlattenSeq` is (`FlattenSteps`), that
flattening keeps elements and their order (`Flattened`). With it, for any number of
features: the outputs of an order have every component and feature of every name once
(`FeatureOutputsListed`), a group is cut into batches without loss
(`BatchesListed`), and a function body has an output for every place, each place once,
those of one buffer in the order of the places (`BodyLists`). Two sets of finite tables,
the names and the spin components, are unfolded row by row.

`GeneratedCode_proofs`, of `OutputBlocks`, from `BlocksAssumption` (a call is for a batch
that exists, orders up to 3), for any number of features and temporaries:

* `BlocksKept`: `BlocksSpec => []BlocksInvariant`. `PlanIsOK` says that what `maple_run`
  is called with are different outputs, order after order, of which the last of each
  order is the one the loop looks for; the two loops that list the derivatives, by
  feature and by derivative, end with the same one (`LastsAgree`). Then every output read
  is in exactly one block of its order and under its test, behind its assignment, or
  pending and assigned (`Holding`), and the orders after that of the loop are empty, so
  that what is appended to an order is appended to the whole (`Kept`).
* `NoAssertionFails`, `OutputsAddedOnce`, `LinesStayInOrder`: the three properties of the
  run.

`GeneratedCode_proofs`, of `GeneratedKernel`, from `JobAssumption` (orders up to 3, the
contraction runs order 1 and the streaming integral order 0), for any number of
features and points:

* `KernelKept`: `KernelSpec => []KernelInvariant`. A place of a buffer is done when the
  statement for it has run (`Done`); a done cell holds its value and the others are
  empty, in the row of the point (`CombinedCells`), as a sum of the features so far
  (`ContractedCells`), or as the value of the feature (`StreamedCells`). That a sum has
  its terms in the order of the features rests on the order of the statements
  (`BodyFacts`).
* `StaysWithinBuffers`, `FillsItsBuffers`, `ContractsFeatures`, `StreamsEveryPoint`: the
  four properties of the run. The value a cell is promised is the vector of exponents
  with so many greater ones, counted without the tables of the generator; that these
  are the rows of the tables is `ComponentIs`, which goes through numbers in a mixed base
  (`DigitsOf`, `NumberMonotone`).

`GeneratorRun_proofs`, from `RunAssumption`, for any runs, batches and number of
processors:

* `GeneratorTypeCorrect`, `NoFileIsShared`, `ExitIsQuiet`, `FilesAccountedFor`, and
  `FileIsReplacedAsAWhole`: the run implements `Generation`. The invariant says which
  batches are queued, worked on or answered, never two of it at once (`ThreadInv`,
  `QueueInv`, `ResultInv`), to which thread each temporary file belongs (`FileInv`),
  and what text has been put together in each phase (`OutputInv`).

Only model-checked: the liveness properties `EveryCallReturns`, `Terminates` and
`Exits`, outside what the proof system does. Every safety invariant and every safety
action property of the passing runs is a theorem. `Binomial` is proved for the arguments
that occur (up to three factors of up to three components), not as a function of all
numbers.

## Plan

1. *done*: `IfxcRequest`, `PrivateOutputs`, `EvalOutcomes`, `EvalContract`,
   `Evaluation`, their runs and the memory theorems; `DataLayout` and its bounds;
   `Sizing`; `Handle` and its theorems.
2. *done*: `PointLoops`.
3. *done*: the generator: `SpinComponents`, `BatchDefinitions`, `OutputBlocks`,
   `GeneratedKernel`, `Generation`, `GeneratorRun`, with the theorems on the worklist and
   on the run.
4. *done*: the contract and the room of `Evaluation`, the contents of `DataLayout`, for
   all sizes.
5. *done*: `Sizing_proofs` and `PointLoops_proofs`.
6. *done*: `SpinComponents_proofs` and `GeneratedCode_proofs`: the lists of the
   generator, `OutputBlocks` and `GeneratedKernel` for any number of features.

## Not modelled

* The generated kernel `mgga_xc_ml26.c`: 119643 of the 122940 lines of the
  implementation are one file of straight-line floating-point assignments without
  control of its own. What a model can say of it, which statements it has and where
  they add their values, is in `GeneratedKernel` and `OutputBlocks`, mapped to the
  Python that writes it; no definition stands for its lines, so the share of all lines
  that is mapped is small, while more than half of the handwritten C and the feature
  set path of the generator are. Of its declarations, the order it was generated to is in
  `PrivateOutputs` (`GeneratedOrder`). The kernel of ML25 is not in the repository; its
  order is the one `check_ml25_manifest.py:188` asks for.
* In the generator: `gga.py`, `lda.py`, `work_mgga_vxc` and the output code for
  functionals without features (`utils.py:685-751`), of which the repository has no
  Maple sources; textual replacements (`maple2c_replace`); failures of the disk when
  the file is written at the end. The pool of threads is used only for functionals that are
  not feature sets (`if_mgga.py:38` asks for one worker); it is modelled because
  `maple2c_run` serves both.
* The values the kernels compute, Maple, the manifest checks (one pass over text
  files that compares names, without state), names and texts, the build and tests,
  the CUDA variant of the work functions, debugging output.
