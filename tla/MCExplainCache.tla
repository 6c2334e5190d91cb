--------------------------- MODULE MCExplainCache ---------------------------
(* Two files, one of which depends on the other. *)
EXTENDS ExplainCache

CONSTANTS file1, file2

MCDependsOn == {<<file1, file2>>}

=============================================================================
