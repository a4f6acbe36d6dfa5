------------------------------ MODULE Generation ------------------------------
(***************************************************************************)
(* What a run of the code generator promises the source tree: the file of  *)
(* generated code is replaced as a whole or, when the run fails, not at    *)
(* all.                                                                    *)
(***************************************************************************)
EXTENDS GeneratedFile

CONSTANT Runs

VARIABLES run,
          output,    \* the file of generated code
          exit       \* the exit code

vars == <<run, output, exit>>
-----------------------------------------------------------------------------
Init ==
  /\ run \in Runs
  /\ output = OldFile
  /\ exit = "running"

Succeed ==
  /\ exit = "running"
  /\ output' = Complete(run)
  /\ exit' = "0"
  /\ UNCHANGED run

Fail ==
  /\ exit = "running"
  /\ exit' = "1"
  /\ UNCHANGED <<run, output>>

Next == Succeed \/ Fail

Spec == Init /\ [][Next]_vars
=============================================================================
