--------------------------- MODULE MCProxyService ---------------------------
(***************************************************************************)
(* Instances of ProxyService.  Callers are interchangeable, and so are     *)
(* pairs.                                                                  *)
(***************************************************************************)
EXTENDS ProxyService, TLC

Symmetry ==
  Permutations(Callers) \cup Permutations(Pairs)
=============================================================================
