---------------------------- MODULE MCLintBatches ----------------------------
(* A small instance of a lint pass: a batch of three files and one of one,  *)
(* shared by two workers.                                                   *)
EXTENDS LintBatches

CONSTANTS a, b, c, d, w1, w2

MCFile == {a, b, c, d}
MCBatch == {{a, b, c}, {d}}
MCWorker == {w1, w2}
=============================================================================
