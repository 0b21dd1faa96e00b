----------------------------- MODULE MCScheduler -----------------------------
(* Small instances of the scheduler: a whole-project scope and one file     *)
(* scope of project p, and one file scope of project q.                     *)
EXTENDS Scheduler

CONSTANTS p, q, f

MCProject == {p, q}
MCScope == {{}, {f}}
MCKey == {<<p, {}>>, <<p, {f}>>, <<q, {f}>>}

=============================================================================
