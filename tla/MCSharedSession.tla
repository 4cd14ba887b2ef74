--------------------------- MODULE MCSharedSession ---------------------------
(* An instance of SharedSession for TLC. *)
EXTENDS SharedSession

CONSTANTS i1, i2, app1, app2, r1, r2, s1, s2
=============================================================================
