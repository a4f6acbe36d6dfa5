---------------------------- MODULE PrivateOutputs ----------------------------
(***************************************************************************)
(* The private output buffers of a combined evaluation: the list of        *)
(* fields, their numbers of components, and the choice of the buffer a     *)
(* derivative entry is served from.                                        *)
(***************************************************************************)
EXTENDS IfxcRequest

Field(name, vars, polarized) ==
  [name |-> name, vars |-> vars, polarized |-> polarized]

(* One row per field of IFXC_ML25_PRIVATE_FIELDS, in its order: the variables
   it is the derivative by, and its number of components for two spins. *)
PrivateFields ==
  <<
     Field("zk", << >>, 1),
     Field("vrho", <<RHO>>, 2),
     Field("vsigma", <<SIGMA>>, 3),
     Field("vtau", <<TAU>>, 2),
     Field("v2rho2", <<RHO, RHO>>, 3),
     Field("v2rhosigma", <<RHO, SIGMA>>, 2 * 3),
     Field("v2rhotau", <<RHO, TAU>>, 2 * 2),
     Field("v2sigma2", <<SIGMA, SIGMA>>, 6),
     Field("v2sigmatau", <<SIGMA, TAU>>, 3 * 2),
     Field("v2tau2", <<TAU, TAU>>, 3),
     Field("v3rho3", <<RHO, RHO, RHO>>, 4),
     Field("v3rho2sigma", <<RHO, RHO, SIGMA>>, 3 * 3),
     Field("v3rho2tau", <<RHO, RHO, TAU>>, 3 * 2),
     Field("v3rhosigma2", <<RHO, SIGMA, SIGMA>>, 2 * 6),
     Field("v3rhosigmatau", <<RHO, SIGMA, TAU>>, 2 * 3 * 2),
     Field("v3rhotau2", <<RHO, TAU, TAU>>, 2 * 3),
     Field("v3sigma3", <<SIGMA, SIGMA, SIGMA>>, 10),
     Field("v3sigma2tau", <<SIGMA, SIGMA, TAU>>, 6 * 2),
     Field("v3sigmatau2", <<SIGMA, TAU, TAU>>, 3 * 3),
     Field("v3tau3", <<TAU, TAU, TAU>>, 4),
     Field("v4rho4", <<RHO, RHO, RHO, RHO>>, 5),
     Field("v4rho3sigma", <<RHO, RHO, RHO, SIGMA>>, 4 * 3),
     Field("v4rho3tau", <<RHO, RHO, RHO, TAU>>, 4 * 2),
     Field("v4rho2sigma2", <<RHO, RHO, SIGMA, SIGMA>>, 3 * 6),
     Field("v4rho2sigmatau", <<RHO, RHO, SIGMA, TAU>>, 3 * 3 * 2),
     Field("v4rho2tau2", <<RHO, RHO, TAU, TAU>>, 3 * 3),
     Field("v4rhosigma3", <<RHO, SIGMA, SIGMA, SIGMA>>, 2 * 10),
     Field("v4rhosigma2tau", <<RHO, SIGMA, SIGMA, TAU>>, 2 * 6 * 2),
     Field("v4rhosigmatau2", <<RHO, SIGMA, TAU, TAU>>, 2 * 3 * 3),
     Field("v4rhotau3", <<RHO, TAU, TAU, TAU>>, 2 * 4),
     Field("v4sigma4", <<SIGMA, SIGMA, SIGMA, SIGMA>>, 15),
     Field("v4sigma3tau", <<SIGMA, SIGMA, SIGMA, TAU>>, 10 * 2),
     Field("v4sigma2tau2", <<SIGMA, SIGMA, TAU, TAU>>, 6 * 3),
     Field("v4sigmatau3", <<SIGMA, TAU, TAU, TAU>>, 3 * 4),
     Field("v4tau4", <<TAU, TAU, TAU, TAU>>, 5)
  >>

FieldNames == {PrivateFields[i].name : i \in 1..Len(PrivateFields)}

(* Faulty: zeroes the fields of the requested order as well. *)
PrivateDimensionBelow(nspin, field, maxOrder) ==
  IF Len(field.vars) >= maxOrder THEN 0
  ELSE IF nspin = "UNPOLARIZED" THEN 1 ELSE field.polarized

(* The dimension of a private field; for one spin every field has one
   component. Fields above the requested order are zeroed. *)
PrivateDimension(nspin, field, maxOrder) ==
  IF Len(field.vars) > maxOrder THEN 0
  ELSE IF nspin = "UNPOLARIZED" THEN 1 ELSE field.polarized

(* The fields an evaluation has storage for, by their places in the list. *)
StoredFields(nspin, npoints, maxOrder) ==
  {i \in 1..Len(PrivateFields) :
     npoints > 0 /\ PrivateDimension(nspin, PrivateFields[i], maxOrder) > 0}

(* The field an entry is copied from: order 0 from zk, and a derivative from
   the field of exactly its variables; "none" stands for the NULL of the
   default branches. *)
SourceField(entry) ==
  LET wanted == IF entry.order = 0 THEN << >> ELSE entry.vars
      match == {i \in DOMAIN PrivateFields : PrivateFields[i].vars = wanted}
  IN  IF match = {} THEN "none" ELSE PrivateFields[CHOOSE i \in match : TRUE].name

(* The highest order among the requested entries. *)
MaxRequestedOrder(entries) ==
  CHOOSE m \in {entries[i].order : i \in DOMAIN entries} :
    \A i \in DOMAIN entries : entries[i].order =< m
-----------------------------------------------------------------------------
(* The highest order a set's code was generated to, as the generated file of
   ML26 says and the manifest check of ML25 demands of a file that is not in
   the repository; and the table of the work functions, for the orders 0 to 4:
   FALSE stands for a NULL. *)
GeneratedOrder(set) == IF set = "ML25" THEN 3 ELSE 2
WorkTable(set) == [order \in 0..4 |-> order =< GeneratedOrder(set)]

HasCombinedOrder(set, order) == order < 5 /\ WorkTable(set)[order]

Streams(entries) ==
  Len(entries) = 1 /\ entries[1].target = "INTEGRAL" /\ entries[1].order = 0

(* What the backend of a set refuses: it has limits of its own, beside those
   of the handle the request was checked with. *)
BackendStatus(set, entries) ==
  LET order == MaxRequestedOrder(entries)
      limit == IF set = "ML25" THEN 3 ELSE MaxDerivOrder("ML26")
  IN  IF Streams(entries) \/ (order =< limit /\ HasCombinedOrder(set, order))
      THEN "OK" ELSE "E_UNSUPPORTED_DERIVATIVE"
=============================================================================
