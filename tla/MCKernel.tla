------------------------------ MODULE MCKernel ------------------------------
(* Instance of module Kernel for TLC: a producer that waits for a time, a   *)
(* consumer that waits forever, and one that waits for a time or delays.   *)
EXTENDS Kernel

CONSTANTS p, c1, c2

MCTasks == {p, c1, c2}

C(op, ticks) == [op |-> op, ticks |-> ticks]

MCCalls == [t \in MCTasks |->
  IF t = p THEN {C("send", 2)}
  ELSE IF t = c1 THEN {C("receive", portMAX_DELAY)}
  ELSE {C("receive", 2), C("delay", 1)}]
=============================================================================
