--------------------------- MODULE ServerContract ---------------------------
(***************************************************************************)
(* What one proxy server promises to the application service: it binds its *)
(* port at most once, serves only while the port is bound, and is stopped  *)
(* only when the port is free and no client connection is left.  A server  *)
(* that is stopped never starts again.  ProxyServer implements it.         *)
(***************************************************************************)
CONSTANT Conns     \* client connections

VARIABLES
  phase,   \* "new", "starting", "running", "stopping" or "stopped"
  bound,   \* the port is bound
  live     \* the client connections accepted and not closed

contractVars == <<phase, bound, live>>

Init ==
  /\ phase = "new"
  /\ bound = FALSE
  /\ live = {}

Move(from, to) ==
  /\ phase = from
  /\ phase' = to
  /\ UNCHANGED <<bound, live>>

Bind ==
  /\ phase = "starting" /\ ~bound
  /\ bound' = TRUE
  /\ UNCHANGED <<phase, live>>

Admit(c) ==
  /\ phase \in {"running", "stopping"} /\ bound
  /\ c \notin live
  /\ live' = live \cup {c}
  /\ UNCHANGED <<phase, bound>>

(* Connections end one by one or, when the server stops, together.         *)
Leave(gone) ==
  /\ live' = live \ gone
  /\ UNCHANGED <<phase, bound>>

(* By a command to stop, or because accepting failed.                      *)
FreePort ==
  /\ phase \in {"running", "stopping"} /\ bound
  /\ bound' = FALSE
  /\ UNCHANGED <<phase, live>>

Next ==
  \/ Move("new", "starting")
  \/ Bind
  \/ ~bound /\ Move("starting", "stopped")
  \/ bound /\ Move("starting", "running")
  \/ \E c \in Conns : Admit(c)
  \/ \E gone \in SUBSET live : Leave(gone)
  \/ FreePort
  \/ Move("running", "stopping")
  \/ ~bound /\ live = {} /\ Move("stopping", "stopped")

Spec == Init /\ [][Next]_contractVars
=============================================================================
