---------------------------- MODULE GeneratedKernel ----------------------------
(***************************************************************************)
(* A generated function, and the three ways it is called. The function is  *)
(* straight-line code: for every output of every batch, in the order of    *)
(* FunctionBody, it computes a value and adds it to a place of the buffer  *)
(* the output is for, unless the pointer to that buffer is NULL. The other *)
(* conditions of the generated tests hold for both sets, whose flags name  *)
(* all orders and tau.                                                     *)
(*                                                                         *)
(*   combined    the function of the requested order, called by the work   *)
(*               function with the private buffers of the whole grid;      *)
(*   contracted  the function of order 1, with arrays on the stack for one *)
(*               point and the coefficients of the features;               *)
(*   streaming   the function of order 0, with an array of feature values. *)
(*                                                                         *)
(* A value is the derivative it is of, its feature and its point; a cell   *)
(* is the sequence of the values added up in it. Points that are screened  *)
(* out do not reach the function and are left out here.                    *)
(***************************************************************************)
EXTENDS SpinComponents

CONSTANT Jobs    \* [mode, nspin, n, maxOrder, order, points]

ASSUME JobAssumption ==
  \A j \in Jobs :
    /\ j.mode \in {"combined", "contracted", "streaming"}
    /\ j.nspin \in Spins
    /\ j.n \in Nat \ {0} /\ j.points \in Nat
    /\ j.maxOrder \in 0..MaxSourceOrder /\ j.order \in 0..j.maxOrder
    /\ j.mode = "contracted" => j.order = 1
    /\ j.mode = "streaming" => j.order = 0

VARIABLES job, point, statement,
          cells,    \* the buffers the function adds to
          stored    \* what the caller of the function makes of them

kernelVars == <<job, point, statement, cells, stored>>

Body == [j \in Jobs |-> FunctionBody(j.nspin, j.n, j.maxOrder, j.order)]

(* Of a private buffer, with the features of all points; the arrays on the
   stack have room for two spins whatever the handle. *)
StackLength(name) == IF name = <<SIGMA>> THEN 3 ELSE 2

Dim(j, name) ==
  LET field == CHOOSE i \in DOMAIN PrivateFields : PrivateFields[i].vars = name
  IN  PrivateDimension(j.nspin, PrivateFields[field], j.order) * j.n

(* The buffers whose pointers are not NULL. *)
Pointers(j) ==
  CASE j.mode = "combined" ->
         {PrivateFields[i].vars : i \in StoredFields(j.nspin, j.points, j.order)}
    [] j.mode = "contracted" -> {<<RHO>>, <<SIGMA>>, <<TAU>>}
    [] j.mode = "streaming" -> {<< >>}

BufferLength(j, name) ==
  CASE j.mode = "combined" -> j.points * Dim(j, name)
    [] j.mode = "contracted" -> StackLength(name)
    [] j.mode = "streaming" -> j.n

Empty(j) ==
  [name \in Pointers(j) |-> [i \in 0..BufferLength(j, name)-1 |-> << >>]]

(* Components of a first derivative, as the handle's dimensions give them. *)
Components(j, name) == Dimensions(j.nspin)[name[1]]

KernelInit ==
  /\ job \in Jobs
  /\ point = 0
  /\ statement = 1
  /\ cells = Empty(job)
  /\ stored =
       CASE job.mode = "combined" -> << >>
         [] job.mode = "contracted" ->
              [name \in Pointers(job) |->
                 [i \in 0..Components(job, name) * job.points - 1 |-> << >>]]
         [] job.mode = "streaming" -> [f \in 0..job.n-1 |-> << >>]

Current == Body[job][statement]

(* What Maple defined the output as: the number modulo the number of features
   is the feature. *)
ComputedValue(output) ==
  [exponents |-> output.exponents, feature |-> output.index % job.n,
   point |-> point]

(* Faulty: the place is that of the output, contracted or not. *)
PlaceOfOutput(output) ==
  (IF job.mode = "combined" THEN point * Dim(job, output.name) ELSE 0)
  + output.index

(* With coefficients all features share the place of their component. The
   point is 0 for a function that works on the stack. *)
Place(output) ==
  CASE job.mode = "combined" -> point * Dim(job, output.name) + output.index
    [] job.mode = "contracted" -> output.index \div job.n
    [] job.mode = "streaming" -> output.index

Coefficient(output) ==
  IF job.mode = "contracted" THEN output.index % job.n ELSE -1

RunStatement ==
  /\ point < job.points
  /\ statement =< Len(Body[job])
  /\ cells' =
       IF Current.name \notin Pointers(job) THEN cells
       ELSE [cells EXCEPT ![Current.name][Place(Current)] =
               Append(@, [value |-> ComputedValue(Current),
                          coefficient |-> Coefficient(Current)])]
  /\ statement' = statement + 1
  /\ UNCHANGED <<job, point, stored>>

(* The contraction stores the components of the handle, component by component;
   the streaming integral adds the features of the point to its sums. *)
AfterPoint ==
  CASE job.mode = "combined" -> stored
    [] job.mode = "contracted" ->
         [name \in DOMAIN stored |->
            [i \in DOMAIN stored[name] |->
               IF i % job.points = point THEN cells[name][i \div job.points]
               ELSE stored[name][i]]]
    [] job.mode = "streaming" ->
         [f \in DOMAIN stored |-> stored[f] \o cells[<< >>][f]]

(* Faulty: the arrays on the stack keep what the last point added. *)
EndPointUncleared ==
  /\ point < job.points
  /\ statement > Len(Body[job])
  /\ stored' = AfterPoint
  /\ point' = point + 1
  /\ statement' = 1
  /\ UNCHANGED <<job, cells>>

(* The arrays on the stack are cleared for the next point. *)
EndPoint ==
  /\ point < job.points
  /\ statement > Len(Body[job])
  /\ stored' = AfterPoint
  /\ cells' = IF job.mode = "combined" THEN cells ELSE Empty(job)
  /\ point' = point + 1
  /\ statement' = 1
  /\ UNCHANGED job

KernelNext == RunStatement \/ EndPoint

KernelSpec == KernelInit /\ [][KernelNext]_kernelVars
-----------------------------------------------------------------------------
(* The component of a derivative by its number, defined without the tables of
   the generator: the vectors of exponents with the powers of the name, in
   decreasing lexicographic order. *)
Group(size, power) ==
  {g \in [1..size -> 0..power] :
     power = IF size = 2 THEN g[1] + g[2] ELSE g[1] + g[2] + g[3]}

Vectors(name) ==
  {r \o s \o <<0, 0>> \o t : r \in Group(2, Power(name, RHO)),
                             s \in Group(3, Power(name, SIGMA)),
                             t \in Group(2, Power(name, TAU))}

Greater(d, e) == \E i \in 1..9 : d[i] > e[i] /\ \A k \in 1..i-1 : d[k] = e[k]

Names == {PrivateFields[i].vars : i \in {k \in DOMAIN PrivateFields :
                                    Len(PrivateFields[k].vars) =< MaxSourceOrder}}

Component ==
  [name \in Names |->
     LET all == Vectors(name)
     IN  [c \in 0..Cardinality(all)-1 |->
            CHOOSE e \in all : Cardinality({d \in all : Greater(d, e)}) = c]]

Promised(name, c, f, p) ==
  [exponents |-> Component[name][c], feature |-> f, point |-> p]

Finished == point = job.points

(* No statement adds to a place outside the buffer it was given, neither to a
   private buffer nor to the short arrays on the stack of the contraction. *)
WithinBuffers ==
  point < job.points /\ statement =< Len(Body[job])
  /\ Current.name \in Pointers(job) =>
    Place(Current) \in DOMAIN cells[Current.name]

(* A combined evaluation fills every place of every private buffer with exactly
   one value: row after row the derivatives of the point, component by
   component, in each the features in order. That is the layout the copy loops
   read, and the order of components the tables of the generator list. *)
CombinedFilled ==
  Finished /\ job.mode = "combined" =>
    \A name \in Pointers(job) : \A p \in 0..job.points-1 :
      \A f \in 0..job.n-1 : \A c \in 0..(Dim(job, name) \div job.n)-1 :
        cells[name][p * Dim(job, name) + c * job.n + f] =
          <<[value |-> Promised(name, c, f, p), coefficient |-> -1]>>

(* A contraction stores, for every component of a variable and every point, the
   sum over the features of the coefficient of the feature times its derivative
   by that component at that point. *)
ContractedFilled ==
  Finished /\ job.mode = "contracted" =>
    \A name \in DOMAIN stored : \A p \in 0..job.points-1 :
      \A c \in 0..Components(job, name)-1 :
        stored[name][c * job.points + p] =
          [i \in 1..job.n |-> [value |-> Promised(name, c, i - 1, p),
                               coefficient |-> i - 1]]

(* The streaming integral of a feature has the value of that feature at every
   point, once. *)
StreamedFilled ==
  Finished /\ job.mode = "streaming" =>
    \A f \in 0..job.n-1 :
      stored[f] = [i \in 1..job.points |->
                     [value |-> Promised(<< >>, 0, f, i - 1), coefficient |-> -1]]
=============================================================================
