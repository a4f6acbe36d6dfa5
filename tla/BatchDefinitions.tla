--------------------------- MODULE BatchDefinitions ---------------------------
(***************************************************************************)
(* The definitions a batch of outputs is given to Maple with: the loops of *)
(* maple_define_feature_batch_derivatives. Every derivative is defined by  *)
(* differentiating one of an order less, down to the function of the       *)
(* feature; a worklist collects which of them a batch needs, and they are  *)
(* written out order by order.                                             *)
(*                                                                         *)
(* A derivative of a feature is a key <<exponents, feature>>.              *)
(***************************************************************************)
EXTENDS Integers, Sequences

CONSTANTS Batches,    \* sequences of keys
          MaxOrder    \* the highest order of the run of the generator

Width == 9
Exponents == [1..Width -> Nat]
Keys == Exponents \X Nat

Degree(e) == e[1] + e[2] + e[3] + e[4] + e[5] + e[6] + e[7] + e[8] + e[9]

ASSUME BatchAssumption ==
  /\ MaxOrder \in Nat
  /\ Batches \subseteq Seq(Keys)
  /\ \A b \in Batches : \A i \in 1..Len(b) : Degree(b[i][1]) =< MaxOrder

VARIABLES batch, phase,
          pending,       \* the stack of the worklist
          seen,          \* the keys the batch needs, those on the stack aside
          level,         \* the order whose definitions are written
          definitions    \* what is written, in order

definitionsVars == <<batch, phase, pending, seen, level, definitions>>

IsZero(e) == \A i \in 1..Width : e[i] = 0

(* The first variable of a derivative is chosen in three places: by the loop of
   the worklist, by the loop that writes definitions, and by next() for the
   variable that is written down. Each is an operator of its own. *)

(* Faulty: the test of the exponent is turned round. *)
PushedOfZero(e) ==
  [i \in 1..Width |->
     IF e[i] = 0 /\ \A j \in 1..i-1 : e[j] # 0 THEN e[i] - 1 ELSE e[i]]

(* What the worklist goes on with: the first exponent that is not zero is
   lowered, and the loop left. *)
Pushed(e) ==
  [i \in 1..Width |->
     IF e[i] # 0 /\ \A j \in 1..i-1 : e[j] = 0 THEN e[i] - 1 ELSE e[i]]

(* Faulty: the loop is not left after the first exponent. *)
DifferentiatedWithoutBreak(e) ==
  [i \in 1..Width |-> IF e[i] # 0 THEN e[i] - 1 ELSE e[i]]

(* What a definition differentiates: the same loop, written a second time. *)
Differentiated(e) ==
  [i \in 1..Width |->
     IF e[i] # 0 /\ \A j \in 1..i-1 : e[j] = 0 THEN e[i] - 1 ELSE e[i]]

(* The variable a definition differentiates by. *)
FirstNonzero(e) ==
  CHOOSE i \in 1..Width : e[i] # 0 /\ \A j \in 1..i-1 : e[j] = 0

Defined == {<<definitions[i].exponents, definitions[i].feature>> :
              i \in DOMAIN definitions}

(* The keys of one order, a list of needed_orders. *)
Needed(order) == {k \in seen : Degree(k[1]) = order}

(* The order of the sorted lists. *)
Before(k, l) ==
  \/ \E i \in 1..Width : k[1][i] < l[1][i] /\ \A j \in 1..i-1 : k[1][j] = l[1][j]
  \/ k[1] = l[1] /\ k[2] < l[2]
-----------------------------------------------------------------------------
DefinitionsInit ==
  /\ batch \in Batches
  /\ phase = "collect"
  /\ pending = batch
  /\ seen = {}
  /\ level = 1
  /\ definitions = << >>

Top == pending[Len(pending)]
Rest == SubSeq(pending, 1, Len(pending) - 1)

SkipKey ==
  /\ phase = "collect"
  /\ pending # << >>
  /\ Top \in seen \/ IsZero(Top[1])
  /\ pending' = Rest
  /\ UNCHANGED <<batch, phase, seen, level, definitions>>

(* Faulty: a key goes back on the stack instead of its predecessor. *)
VisitAgain ==
  /\ phase = "collect"
  /\ pending # << >>
  /\ Top \notin seen /\ ~IsZero(Top[1])
  /\ pending' = Append(Rest, Top)
  /\ UNCHANGED <<batch, phase, seen, level, definitions>>

VisitKey ==
  /\ phase = "collect"
  /\ pending # << >>
  /\ Top \notin seen /\ ~IsZero(Top[1])
  /\ seen' = seen \cup {Top}
  /\ pending' = IF IsZero(Pushed(Top[1])) THEN Rest
                ELSE Append(Rest, <<Pushed(Top[1]), Top[2]>>)
  /\ UNCHANGED <<batch, phase, level, definitions>>

KeysCollected ==
  /\ phase = "collect"
  /\ pending = << >>
  /\ phase' = "define"
  /\ UNCHANGED <<batch, pending, seen, level, definitions>>

(* Of the keys of this order the first that is not yet defined; of is what is
   differentiated, with zero exponents for the function of the feature itself,
   and by the variable. *)
Define ==
  /\ phase = "define"
  /\ level =< MaxOrder
  /\ \E k \in Needed(level) \ Defined :
       /\ \A l \in (Needed(level) \ Defined) \ {k} : Before(k, l)
       /\ definitions' = Append(definitions,
            [exponents |-> k[1], feature |-> k[2],
             of |-> Differentiated(k[1]), by |-> FirstNonzero(k[1])])
  /\ UNCHANGED <<batch, phase, pending, seen, level>>

(* Faulty: the loop stops below the highest order. *)
NextLevelStopsShort ==
  /\ phase = "define"
  /\ level < MaxOrder => Needed(level) \subseteq Defined
  /\ level' = level + 1
  /\ phase' = IF level >= MaxOrder THEN "done" ELSE "define"
  /\ UNCHANGED <<batch, pending, seen, definitions>>

NextLevel ==
  /\ phase = "define"
  /\ level =< MaxOrder => Needed(level) \subseteq Defined
  /\ level' = level + 1
  /\ phase' = IF level >= MaxOrder THEN "done" ELSE "define"
  /\ UNCHANGED <<batch, pending, seen, definitions>>

DefinitionsNext == SkipKey \/ VisitKey \/ KeysCollected \/ Define \/ NextLevel

(* One thread runs the generator. *)
DefinitionsSpec == DefinitionsInit /\ [][DefinitionsNext]_definitionsVars /\ WF_definitionsVars(DefinitionsNext)
-----------------------------------------------------------------------------
Definitions == [exponents : Exponents, feature : Nat, of : Exponents, by : 1..Width]

(* The worklist, the loop over the orders and what is written. *)
TypeOK ==
  /\ batch \in Seq(Keys)
  /\ phase \in {"collect", "define", "done"}
  /\ pending \in Seq(Keys)
  /\ seen \subseteq Keys
  /\ level \in 1..MaxOrder + 2
  /\ definitions \in Seq(Definitions)

(* A definition refers only to the function of its feature or to a definition
   of the same feature written before it: the worklist left out no step of any
   derivation and the orders are written in the right order. *)
DefinedBeforeUsed ==
  \A i \in DOMAIN definitions :
    \/ IsZero(definitions[i].of)
    \/ \E j \in 1..i-1 : /\ definitions[j].exponents = definitions[i].of
                         /\ definitions[j].feature = definitions[i].feature

(* A definition differentiates by the one variable it has more of than what it
   refers to: the loop and next() choose alike. *)
DefinitionIsDerivative ==
  \A i \in DOMAIN definitions :
    LET d == definitions[i]
    IN  d.exponents = [d.of EXCEPT ![d.by] = @ + 1]

(* No name is defined twice, although keys share their predecessors. *)
DefinedOnce ==
  \A i, j \in DOMAIN definitions :
    /\ definitions[i].exponents = definitions[j].exponents
    /\ definitions[i].feature = definitions[j].feature
    => i = j

(* Maple can make of every definition what its name says: it is written once,
   by differentiating, in the right variable, what is defined before it. *)
WellDefined == DefinedBeforeUsed /\ DefinitionIsDerivative /\ DefinedOnce

(* In the end every output of the batch has its definition. *)
OutputsDefined ==
  phase = "done" =>
    \A i \in DOMAIN batch : IsZero(batch[i][1]) \/ batch[i] \in Defined

(* Nothing is defined that no output of the batch is derived from. *)
OnlyNeeded ==
  \A k \in Defined :
    \E i \in DOMAIN batch :
      k[2] = batch[i][2] /\ \A j \in 1..Width : k[1][j] =< batch[i][1][j]

(* What is defined for a batch is all that its outputs are derived from, and
   nothing else. *)
ExactlyNeeded == OutputsDefined /\ OnlyNeeded

(* The generator gets to the end of every batch. *)
Terminates == <>(phase = "done")
=============================================================================
