-------------------------- MODULE MCManagedListener --------------------------
(***************************************************************************)
(* Instances of ManagedListener: two connections of one machine, under two *)
(* spellings of its address, one of a second machine, one that the filter  *)
(* must turn away and one whose address cannot be read, for two slots.     *)
(***************************************************************************)
EXTENDS ManagedListener

CONSTANTS c1, c2, c3, c4, c5, h1, h2, h3

MCHosts == {h1, h2, h3}

Plain(h) == [host |-> h, mapped |-> FALSE, zoned |-> FALSE]

(* The prefix of the interface, spelled as an IPv4-mapped one.             *)
MCSubnet == [valid |-> TRUE, hosts |-> {h1, h2}, mapped |-> TRUE, long |-> TRUE]

MCRemoteAddr ==
  [c \in Conns |->
     CASE c = c1 -> Plain(h1)
       [] c = c2 -> [Plain(h1) EXCEPT !.mapped = TRUE]
       [] c = c3 -> [Plain(h2) EXCEPT !.mapped = TRUE, !.zoned = TRUE]
       [] c = c4 -> Plain(h3)
       [] c = c5 -> NoAddress]
=============================================================================
