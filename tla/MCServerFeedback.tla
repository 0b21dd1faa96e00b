-------------------------- MODULE MCServerFeedback --------------------------
(* A small instance of the server's feedback: a project p as a whole and    *)
(* one file of a project q, so that a burst may have two chunks.            *)
EXTENDS ServerFeedback

CONSTANTS p, q, f

MCProject == {p, q}
MCScope == {{}, {f}}
MCKey == {<<p, {}>>, <<q, {f}>>}
=============================================================================
