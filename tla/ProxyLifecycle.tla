--------------------------- MODULE ProxyLifecycle ---------------------------
(***************************************************************************)
(* The life of the proxy as its user sees it: the state that the window    *)
(* shows and whether the program can be reached on its port.  The promise  *)
(* is that the two agree: nothing is reachable while the window says       *)
(* Stopped or Error (it then closes without asking), and every command     *)
(* comes to an end in a state from which another is possible.              *)
(* ProxyService implements it.                                             *)
(***************************************************************************)
VARIABLES
  state,      \* "stopped", "starting", "running", "stopping" or "error"
  reachable   \* the port is bound or a client is connected

lifeVars == <<state, reachable>>

Init ==
  /\ state = "stopped"
  /\ reachable = FALSE

Change(from, to) ==
  /\ state \in from
  /\ state' = to
  /\ UNCHANGED reachable

(* A configuration that is not valid is refused at once.                   *)
Refuse == Change({"stopped", "error"}, "error")

Start == Change({"stopped", "error"}, "starting")

Up == Change({"starting"}, "running")

StartFails == ~reachable /\ Change({"starting"}, "error")

Stop == Change({"running"}, "stopping")

Down == ~reachable /\ \E to \in {"stopped", "error"} : Change({"stopping"}, to)

(* While the proxy starts, runs or stops, the port and its clients come    *)
(* and go.                                                                 *)
Serve ==
  /\ state \in {"starting", "running", "stopping"}
  /\ reachable' \in BOOLEAN
  /\ UNCHANGED state

(* The process ends, by itself or not, and is launched again.              *)
Relaunch ==
  /\ state' = "stopped"
  /\ reachable' = FALSE

Next ==
  \/ Refuse \/ Start \/ Up \/ StartFails \/ Stop \/ Down
  \/ Serve
  \/ Relaunch

Spec == Init /\ [][Next]_lifeVars
=============================================================================
