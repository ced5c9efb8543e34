--------------------------- MODULE MCSingleflight ---------------------------
(***************************************************************************)
(* Small instances of Singleflight: keys and callers are interchangeable.  *)
(***************************************************************************)
EXTENDS Singleflight

Symmetry == Permutations(Keys) \cup Permutations(Callers)
=============================================================================
