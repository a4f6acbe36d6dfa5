--------------------------- MODULE MCGeneratedKernel ---------------------------
(***************************************************************************)
(* Small functions for GeneratedKernel: five features make a full batch    *)
(* and one of a single output; one feature makes groups of one output.     *)
(***************************************************************************)
EXTENDS GeneratedKernel

Job(mode, nspin, n, maxOrder, order) ==
  [mode |-> mode, nspin |-> nspin, n |-> n, maxOrder |-> maxOrder,
   order |-> order, points |-> 2]

MCJobs ==
  UNION {
    {Job("combined", nspin, 5, 2, order) : order \in 0..2}
    \cup {Job("combined", nspin, n, 3, 3) : n \in {1, 2}}
    \cup {Job("contracted", nspin, n, 2, 1) : n \in {1, 5}}
    \cup {Job("streaming", nspin, n, 2, 0) : n \in {1, 5}} :
      nspin \in Spins}
=============================================================================
