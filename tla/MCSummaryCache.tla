--------------------------- MODULE MCSummaryCache ---------------------------
(* One source and one configuration file, two contents.                     *)
EXTENDS SummaryCache

CONSTANTS s, f, old, new

MCSource == {s}
MCConfig == {f}
MCContent == {old, new}
MCSearch == {"substring", "importReference"}
=============================================================================
