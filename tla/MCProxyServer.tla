---------------------------- MODULE MCProxyServer ----------------------------
(***************************************************************************)
(* Instances of ProxyServer.  Callers are interchangeable, and so are      *)
(* connections.                                                            *)
(***************************************************************************)
EXTENDS ProxyServer, TLC

Symmetry ==
  Permutations(Starters) \cup Permutations(Stoppers) \cup Permutations(Conns)
=============================================================================
