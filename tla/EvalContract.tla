----------------------------- MODULE EvalContract -----------------------------
(***************************************************************************)
(* What a caller of ifxc_eval and ifxc_eval_first_derivatives_contracted   *)
(* may rely on: a call that returns does so with one of the outcomes of    *)
(* its request (EvalOutcomes); that it returns is a property of its own    *)
(* (Evaluation). The outputs of a pending call belong to the library and   *)
(* are not shown.                                                          *)
(***************************************************************************)
CONSTANTS Callers, Requests, NoRequest,
          Outcomes(_)   \* what a request may be answered with

VARIABLES request, status, output

vars == <<request, status, output>>
-----------------------------------------------------------------------------
Init ==
  /\ request = [c \in Callers |-> NoRequest]
  /\ status = [c \in Callers |-> "none"]
  /\ output = [c \in Callers |-> << >>]

Call(c) ==
  /\ status[c] # "pending"
  /\ \E r \in Requests : request' = [request EXCEPT ![c] = r]
  /\ status' = [status EXCEPT ![c] = "pending"]
  /\ output' = [output EXCEPT ![c] = << >>]

Return(c) ==
  /\ status[c] = "pending"
  /\ \E outcome \in Outcomes(request[c]) :
        /\ status' = [status EXCEPT ![c] = outcome[1]]
        /\ output' = [output EXCEPT ![c] = outcome[2]]
  /\ UNCHANGED request

Next == \E c \in Callers : Call(c) \/ Return(c)

Spec == Init /\ [][Next]_vars
=============================================================================
