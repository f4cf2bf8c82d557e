--------------------------- MODULE MCSourceIndex ---------------------------
(* Two callers.                                                            *)
EXTENDS SourceIndex

CONSTANTS c1, c2
=============================================================================
