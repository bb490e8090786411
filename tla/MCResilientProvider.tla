------------------------ MODULE MCResilientProvider ------------------------
(* Small instances of ResilientProvider for TLC. *)
EXTENDS ResilientProvider

CONSTANTS p1, c1, c2, c3
=============================================================================
