------------------------- MODULE MCDeadCodeWorkers -------------------------
(* A small instance of the dead-code workers: four calls share two slots.   *)
EXTENDS DeadCodeWorkers

CONSTANTS c1, c2, c3, c4

MCCaller == {c1, c2, c3, c4}
=============================================================================
