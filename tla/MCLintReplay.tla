---------------------------- MODULE MCLintReplay ----------------------------
(* A file `a' that imports `b', or imports nothing, by its content; `b'      *)
(* comes and goes.                                                          *)
EXTENDS LintReplay

CONSTANTS a, b, importing, plain

MCSource == {a, b}
MCContent == {importing, plain}
MCNeeds == [k \in MCSource \X MCContent |-> IF k = <<a, importing>> THEN {b} ELSE {}]
MCVersions == [x \in MCSource |-> IF x = a THEN {importing, plain}
                                ELSE {importing, Absent}]
=============================================================================
