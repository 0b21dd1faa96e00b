-------------------------- MODULE MCLanguageServer --------------------------
(* Small instances of the language server: two files of one project.        *)
EXTENDS LanguageServer

CONSTANTS p, f, g

MCFile == {f, g}
MCProject == {p}
MCOwner == [x \in MCFile |-> p]

(* f stays on disk, g comes and goes.                                       *)
MCOneVanishes == [x \in MCFile |-> IF x = f THEN Text ELSE Content]

(* f changes, g is only there to share its chunks.                          *)
MCOneChanges == [x \in MCFile |-> IF x = f THEN Text ELSE {"clean"}]

MCBothChange == [x \in MCFile |-> Text]
=============================================================================
