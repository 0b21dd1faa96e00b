---------------------------- MODULE MCInspectRun ----------------------------
(* Two states of the project and two kinds of scan: in full, and of changed  *)
(* files compared with a base ref.                                          *)
EXTENDS InspectRun

CONSTANTS before, after

MCProject == {before, after}
MCKind == {"full", "baseline"}
MCWanted == [k \in MCKind |-> IF k = "full" THEN Check ELSE {"lint", "supply"}]
MCBaseline == {"baseline"}
=============================================================================
