----------------------------- MODULE AcceptGate -----------------------------
(***************************************************************************)
(* What the source-filtering, connection-limiting listener of the proxy    *)
(* promises, without its mutexes, channels and goroutines: a gate that     *)
(* admits a connection of an allowed source while fewer than               *)
(* MaxConnections are live, never admits one after it is shut, and turns a *)
(* connection away only when its source is foreign or the gate is shut.    *)
(* ManagedListener implements this specification.                          *)
(***************************************************************************)
EXTENDS Naturals, FiniteSets

CONSTANTS
  Conns,           \* connections that reach the port
  AllowedConns,    \* those whose source lies in the allowed subnet
  MaxConnections   \* how many may be live at once

VARIABLES
  live,   \* connections that were admitted and have not left
  past,   \* connections that left or were turned away
  shut    \* the gate admits no one any more

gateVars == <<live, past, shut>>

Init ==
  /\ live = {}
  /\ past = {}
  /\ shut = FALSE

Admit(c) ==
  /\ ~shut
  /\ c \in AllowedConns \ (live \cup past)
  /\ Cardinality(live) < MaxConnections
  /\ live' = live \cup {c}
  /\ UNCHANGED <<past, shut>>

Refuse(c) ==
  /\ c \notin live \cup past
  /\ c \notin AllowedConns \/ shut
  /\ past' = past \cup {c}
  /\ UNCHANGED <<live, shut>>

Leave(c) ==
  /\ c \in live
  /\ live' = live \ {c}
  /\ past' = past \cup {c}
  /\ UNCHANGED shut

Shut ==
  /\ ~shut
  /\ shut' = TRUE
  /\ UNCHANGED <<live, past>>

Next ==
  \/ \E c \in Conns : Admit(c) \/ Refuse(c) \/ Leave(c)
  \/ Shut

Spec == Init /\ [][Next]_gateVars
=============================================================================
