----------------------------- MODULE MCDataPlane -----------------------------
(* Model checking of DataPlane: the constants are given in the cfg files.  *)
EXTENDS DataPlane

=============================================================================
