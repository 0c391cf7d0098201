----------------------------- MODULE ProxyServer -----------------------------
(***************************************************************************)
(* One network.Server (internal/infrastructure/network/server.go): the     *)
(* state machine behind Start and Stop, the goroutine that runs            *)
(* http.Server.Serve, and the shutdown that stops both, composed with the  *)
(* listener (an AcceptGate, which ManagedListener implements) and with the *)
(* part of net/http.Server that Stop relies on.                            *)
(*                                                                         *)
(* Any number of goroutines may call Start and Stop at the same time; each *)
(* Stop carries a context that may expire at any moment.                   *)
(***************************************************************************)
EXTENDS Naturals, FiniteSets

CONSTANTS
  Conns,            \* client connections of allowed sources
  MaxConnections,   \* defaultMaxConnections
  Starters,         \* the goroutines that call Start
  Stoppers,         \* the goroutines that call Stop
  NoConn            \* no connection in hand

ASSUME ConnsFinite == IsFiniteSet(Conns)
ASSUME NoConnOutside == NoConn \notin Conns
ASSUME LimitIsNat == MaxConnections \in Nat
ASSUME CallersApart == Starters \cap Stoppers = {}

VARIABLES
  state,        \* Server.state
  startDone,    \* Server.startDone: "nil", "open" or "closed"
  stopDone,     \* Server.stopDone, likewise
  hasListener,  \* Server.listener # nil and Server.address # ""
  serveErr,     \* Server.serveErr # nil
  stopErr,      \* Server.stopErr # nil
  pc,           \* where each caller stands
  ctx,          \* the context of each Stop: "live", "deadline" or "canceled"
  failed,       \* the Stop that shuts down has met an error
  sweepLeft,    \* rest of the snapshot of CloseConnections
  result,       \* what each finished call returned: "none", "nil", "error", or
                \* "noop", the nil of a Stop that found nothing to stop
  live, past, shut,   \* the listener, as an AcceptGate
  bound,        \* the TCP listener is open
  servePc,      \* the goroutine of Server.serve
  serveHand,    \* the connection Accept has just returned to it
  serveDone,    \* its done channel has been closed
  inShutdown,   \* http.Server.inShutdown
  tracked,      \* http.Server.listenerGroup counts the listener
  http          \* http.Server's view of each connection

gateVars == <<live, past, shut>>
callVars == <<pc, ctx, failed, sweepLeft, result>>
serverVars == <<state, startDone, stopDone, hasListener, serveErr, stopErr>>
serveVars == <<servePc, serveHand, serveDone>>
httpVars == <<inShutdown, tracked, http>>
vars == <<state, startDone, stopDone, hasListener, serveErr, stopErr, pc, ctx,
          failed, sweepLeft, result, live, past, shut, bound, servePc, serveHand,
          serveDone, inShutdown, tracked, http>>

Gate == INSTANCE AcceptGate WITH AllowedConns <- Conns

Callers == Starters \cup Stoppers

ServerStates == {"new", "starting", "running", "stopping", "stopped"}

StarterPcs == {"idle", "listen", "publish", "failStart", "over"}

StopperPcs == {"idle", "look", "awaitStart", "awaitStop", "close", "closing",
               "shutdown", "group", "drain", "sweep", "sweeping", "httpClose",
               "waitServe", "finish", "over"}

ServePcs == {"none", "begin", "accepting", "spawning", "untrack", "closing",
             "report", "signal", "gone"}

(* What http.Server keeps of a connection in its activeConn map.           *)
TrackedStates == {"new", "idle", "active"}
HttpStates == TrackedStates \cup {"none", "hijacked", "done"}

ActiveConn == {c \in Conns : http[c] \in TrackedStates}

Init ==
  /\ state = "new" /\ startDone = "nil" /\ stopDone = "nil"
  /\ hasListener = FALSE /\ serveErr = FALSE /\ stopErr = FALSE
  /\ pc = [p \in Callers |-> "idle"]
  /\ ctx = [p \in Stoppers |-> "live"]
  /\ failed = FALSE /\ sweepLeft = {}
  /\ result = [p \in Callers |-> "none"]
  /\ Gate!Init
  /\ bound = FALSE
  /\ servePc = "none" /\ serveHand = NoConn /\ serveDone = FALSE
  /\ inShutdown = FALSE /\ tracked = FALSE
  /\ http = [c \in Conns |-> "none"]

Goto(p, from, to) == pc[p] = from /\ pc' = [pc EXCEPT ![p] = to]

Return(p, from, value) ==
  /\ Goto(p, from, "over")
  /\ result' = [result EXCEPT ![p] = value]

Outcome(error) == IF error THEN "error" ELSE "nil"

-----------------------------------------------------------------------------
(* Start                                                                   *)

StartEnterUnchecked(p) ==
  /\ state \in {"new", "stopped"}
  /\ Goto(p, "idle", "listen")
  /\ state' = "starting" /\ startDone' = "open"
  /\ UNCHANGED <<stopDone, hasListener, serveErr, stopErr, ctx, failed, sweepLeft,
                 result, gateVars, bound, serveVars, httpVars>>

StartEnter(p) ==
  /\ state = "new"
  /\ Goto(p, "idle", "listen")
  /\ state' = "starting" /\ startDone' = "open"
  /\ UNCHANGED <<stopDone, hasListener, serveErr, stopErr, ctx, failed, sweepLeft,
                 result, gateVars, bound, serveVars, httpVars>>

StartRefused(p) ==
  /\ state # "new"
  /\ Return(p, "idle", "error")
  /\ UNCHANGED <<serverVars, ctx, failed, sweepLeft, gateVars, bound, serveVars, httpVars>>

(* listen: outside the mutex.  A listener without an address is closed at  *)
(* once, like one that came with an error.                                 *)
Listen(p) ==
  /\ \/ Goto(p, "listen", "publish") /\ bound' = TRUE
     \/ Goto(p, "listen", "failStart") /\ UNCHANGED bound
  /\ UNCHANGED <<serverVars, ctx, failed, sweepLeft, result, gateVars, serveVars, httpVars>>

FinishFailedStart(p) ==
  /\ Return(p, "failStart", "error")
  /\ state' = "stopped" /\ startDone' = "closed"
  /\ UNCHANGED <<stopDone, hasListener, serveErr, stopErr, ctx, failed, sweepLeft,
                 gateVars, bound, serveVars, httpVars>>

(* The second critical section: fields, go serve, close(startDone).        *)
Publish(p) ==
  /\ Return(p, "publish", "nil")
  /\ state' = "running" /\ hasListener' = TRUE /\ startDone' = "closed"
  /\ servePc' = "begin"
  /\ UNCHANGED <<stopDone, serveErr, stopErr, ctx, failed, sweepLeft, gateVars,
                 bound, serveHand, serveDone, httpVars>>

Start(p) == StartEnter(p) \/ StartRefused(p) \/ Listen(p)
              \/ FinishFailedStart(p) \/ Publish(p)

-----------------------------------------------------------------------------
(* Stop: the loop over the state, then, for one caller, the shutdown.      *)

Expired(p) == ctx[p] # "live"

CallStop(p) ==
  /\ Goto(p, "idle", "look")
  /\ UNCHANGED <<serverVars, ctx, failed, sweepLeft, result, gateVars, bound,
                 serveVars, httpVars>>

(* The context of a call under way runs out or is canceled.                *)
Expire(p) ==
  /\ pc[p] \notin {"idle", "over"} /\ ctx[p] = "live"
  /\ \E how \in {"deadline", "canceled"} : ctx' = [ctx EXCEPT ![p] = how]
  /\ UNCHANGED <<serverVars, pc, failed, sweepLeft, result, gateVars, bound,
                 serveVars, httpVars>>

LookRunningKept(p) ==
  /\ \/ state \in {"new", "stopped"} /\ Return(p, "look", "noop")
     \/ state = "starting" /\ Goto(p, "look", "awaitStart") /\ UNCHANGED result
     \/ state = "stopping" /\ Goto(p, "look", "awaitStop") /\ UNCHANGED result
     \/ state = "running" /\ Goto(p, "look", "close") /\ UNCHANGED result
  /\ stopDone' = IF state = "running" THEN "open" ELSE stopDone
  /\ UNCHANGED <<state, startDone, hasListener, serveErr, stopErr, ctx, failed,
                 sweepLeft, gateVars, bound, serveVars, httpVars>>

(* One pass through the switch, a single critical section.                 *)
Look(p) ==
  /\ \/ state \in {"new", "stopped"} /\ Return(p, "look", "noop")
     \/ state = "starting" /\ Goto(p, "look", "awaitStart") /\ UNCHANGED result
     \/ state = "stopping" /\ Goto(p, "look", "awaitStop") /\ UNCHANGED result
     \/ state = "running" /\ Goto(p, "look", "close") /\ UNCHANGED result
  /\ IF state = "running"
       THEN state' = "stopping" /\ stopDone' = "open"
       ELSE UNCHANGED <<state, stopDone>>
  /\ UNCHANGED <<startDone, hasListener, serveErr, stopErr, ctx, failed,
                 sweepLeft, gateVars, bound, serveVars, httpVars>>

(* A select between a channel and the context; either, if both are ready.  *)
AwaitStart(p) ==
  /\ \/ startDone = "closed" /\ Goto(p, "awaitStart", "look") /\ UNCHANGED result
     \/ Expired(p) /\ Return(p, "awaitStart", "error")
  /\ UNCHANGED <<serverVars, ctx, failed, sweepLeft, gateVars, bound, serveVars, httpVars>>

AwaitStopSwallows(p) ==
  /\ \/ stopDone = "closed" /\ Return(p, "awaitStop", "nil")
     \/ Expired(p) /\ Return(p, "awaitStop", "error")
  /\ UNCHANGED <<serverVars, ctx, failed, sweepLeft, gateVars, bound, serveVars, httpVars>>

AwaitStop(p) ==
  /\ \/ stopDone = "closed" /\ Return(p, "awaitStop", Outcome(stopErr))
     \/ Expired(p) /\ Return(p, "awaitStop", "error")
  /\ UNCHANGED <<serverVars, ctx, failed, sweepLeft, gateVars, bound, serveVars, httpVars>>

CloseListenerForgotten(p) ==
  /\ Goto(p, "close", "closing")
  /\ UNCHANGED <<serverVars, ctx, failed, sweepLeft, result, gateVars, bound,
                 serveVars, httpVars>>

(* listener.Close: the gate is shut, then the port freed.  Serve closes    *)
(* the listener too; the Once makes the later one wait for the first.      *)
CloseListener(p) ==
  /\ Goto(p, "close", "closing")
  /\ IF shut THEN UNCHANGED gateVars ELSE Gate!Shut
  /\ UNCHANGED <<serverVars, ctx, failed, sweepLeft, result, bound, serveVars, httpVars>>

FreePort ==
  /\ shut /\ bound
  /\ bound' = FALSE
  /\ UNCHANGED <<serverVars, callVars, gateVars, serveVars, httpVars>>

ListenerClosed(p) ==
  /\ Goto(p, "closing", "shutdown")
  /\ ~bound
  /\ \E closeError \in BOOLEAN : failed' = closeError
  /\ UNCHANGED <<serverVars, ctx, sweepLeft, result, gateVars, bound, serveVars, httpVars>>

(* http.Server.Shutdown: mark, wait for Serve to untrack the listener      *)
(* whatever the context says, then poll for idle connections until none is *)
(* left or the context has ended.                                          *)
ShutdownMark(p) ==
  /\ Goto(p, "shutdown", "group")
  /\ inShutdown' = TRUE
  /\ UNCHANGED <<serverVars, ctx, failed, sweepLeft, result, gateVars, bound,
                 serveVars, tracked, http>>

ShutdownGroup(p) ==
  /\ Goto(p, "group", "drain")
  /\ ~tracked
  /\ UNCHANGED <<serverVars, ctx, failed, sweepLeft, result, gateVars, bound,
                 serveVars, httpVars>>

(* A connection that has sent nothing for 5 seconds counts as idle.        *)
Poll(p) ==
  \E stale \in SUBSET {c \in Conns : http[c] = "new"} :
    LET idle == {c \in Conns : http[c] = "idle"} \cup stale IN
    /\ pc[p] = "drain"
    /\ pc' = [pc EXCEPT ![p] = IF ActiveConn \subseteq idle THEN "sweep" ELSE "drain"]
    /\ http' = [c \in Conns |-> IF c \in idle THEN "done" ELSE http[c]]
    /\ live' = live \ idle
    /\ past' = past \cup (live \cap idle)
    /\ UNCHANGED <<serverVars, ctx, failed, sweepLeft, result, shut, bound,
                   serveVars, inShutdown, tracked>>

DrainExpired(p) ==
  /\ Goto(p, "drain", "sweep")
  /\ Expired(p)
  /\ failed' = (failed \/ ctx[p] = "canceled")
  /\ UNCHANGED <<serverVars, ctx, sweepLeft, result, gateVars, bound, serveVars, httpVars>>

SweepNothing(p) ==
  /\ Goto(p, "sweep", "sweeping")
  /\ sweepLeft' = {}
  /\ UNCHANGED <<serverVars, ctx, failed, result, gateVars, bound, serveVars, httpVars>>

(* listener.CloseConnections, over a snapshot of the registry.             *)
Sweep(p) ==
  /\ Goto(p, "sweep", "sweeping")
  /\ sweepLeft' = live
  /\ UNCHANGED <<serverVars, ctx, failed, result, gateVars, bound, serveVars, httpVars>>

SweepOne(p, c) ==
  /\ pc[p] = "sweeping" /\ c \in sweepLeft
  /\ sweepLeft' = sweepLeft \ {c}
  /\ IF c \in live THEN Gate!Leave(c) ELSE UNCHANGED gateVars
  /\ UNCHANGED <<serverVars, pc, ctx, failed, result, bound, serveVars, httpVars>>

SweepEnd(p) ==
  /\ Goto(p, "sweeping", "httpClose")
  /\ sweepLeft = {}
  /\ UNCHANGED <<serverVars, ctx, failed, sweepLeft, result, gateVars, bound,
                 serveVars, httpVars>>

(* http.Server.Close: drops every connection that is still tracked.        *)
HttpClose(p) ==
  /\ Goto(p, "httpClose", "waitServe")
  /\ live' = live \ ActiveConn
  /\ past' = past \cup (live \cap ActiveConn)
  /\ http' = [c \in Conns |-> IF c \in ActiveConn THEN "done" ELSE http[c]]
  /\ UNCHANGED <<serverVars, ctx, failed, sweepLeft, result, shut, bound,
                 serveVars, inShutdown, tracked>>

WaitGivesUp(p) ==
  /\ Goto(p, "waitServe", "finish")
  /\ failed' = (failed \/ serveErr)
  /\ UNCHANGED <<serverVars, ctx, sweepLeft, result, gateVars, bound, serveVars, httpVars>>

(* waitForServeExit: the goroutine's error counts only if it is seen to be *)
(* done.                                                                   *)
WaitForServeExit(p) ==
  /\ Goto(p, "waitServe", "finish")
  /\ \/ serveDone /\ failed' = (failed \/ serveErr)
     \/ ~serveDone /\ Expired(p) /\ failed' = TRUE
  /\ UNCHANGED <<serverVars, ctx, sweepLeft, result, gateVars, bound, serveVars, httpVars>>

(* The last critical section of Stop.                                      *)
StopFinish(p) ==
  /\ Return(p, "finish", Outcome(failed))
  /\ stopErr' = failed
  /\ hasListener' = FALSE /\ state' = "stopped" /\ stopDone' = "closed"
  /\ UNCHANGED <<startDone, serveErr, ctx, failed, sweepLeft, gateVars, bound,
                 serveVars, httpVars>>

Shutdown(p) ==
  \/ CloseListener(p) \/ ListenerClosed(p) \/ ShutdownMark(p) \/ ShutdownGroup(p)
  \/ Poll(p) \/ DrainExpired(p) \/ Sweep(p)
  \/ \E c \in Conns : SweepOne(p, c)
  \/ SweepEnd(p) \/ HttpClose(p) \/ WaitForServeExit(p) \/ StopFinish(p)

Stop(p) == CallStop(p) \/ Look(p) \/ AwaitStart(p) \/ AwaitStop(p) \/ Shutdown(p)

-----------------------------------------------------------------------------
(* The goroutine of serve, inside http.Server.Serve until "report".        *)

ServeGoto(from, to) == servePc = from /\ servePc' = to

(* trackListener refuses once the server is shutting down.                 *)
ServeBegin ==
  /\ ServeGoto("begin", IF inShutdown THEN "closing" ELSE "accepting")
  /\ tracked' = ~inShutdown
  /\ UNCHANGED <<serverVars, callVars, gateVars, bound, serveHand, serveDone,
                 inShutdown, http>>

ServeAccept(c) ==
  /\ ServeGoto("accepting", "spawning")
  /\ Gate!Admit(c)
  /\ serveHand' = c
  /\ UNCHANGED <<serverVars, callVars, bound, serveDone, httpVars>>

(* setState(StateNew), then the connection gets a goroutine of its own.    *)
ServeSpawn ==
  /\ ServeGoto("spawning", "accepting")
  /\ http' = [http EXCEPT ![serveHand] = "new"]
  /\ serveHand' = NoConn
  /\ UNCHANGED <<serverVars, callVars, gateVars, bound, serveDone, inShutdown, tracked>>

(* Accept fails for good: net.ErrClosed from a shut listener, which counts *)
(* as no error, or a system error, which counts unless a Shutdown is under *)
(* way.  serveErr is written under the mutex a few steps later, before     *)
(* done is closed; nothing reads it in between.                            *)
ServeAcceptError ==
  /\ ServeGoto("accepting", "untrack")
  /\ serveErr' = (~shut /\ ~inShutdown)
  /\ UNCHANGED <<state, startDone, stopDone, hasListener, stopErr, callVars, gateVars,
                 bound, serveHand, serveDone, httpVars>>

(* Serve's deferred calls: untrack the listener, then close it.            *)
ServeUntrack ==
  /\ ServeGoto("untrack", "closing")
  /\ tracked' = FALSE
  /\ UNCHANGED <<serverVars, callVars, gateVars, bound, serveHand, serveDone,
                 inShutdown, http>>

ServeCloses ==
  /\ servePc = "closing" /\ Gate!Shut
  /\ UNCHANGED <<serverVars, callVars, bound, serveVars, httpVars>>

ServeReport ==
  /\ ServeGoto("closing", "signal")
  /\ shut /\ ~bound
  /\ UNCHANGED <<serverVars, callVars, gateVars, bound, serveHand, serveDone, httpVars>>

ServeSignal ==
  /\ ServeGoto("signal", "gone")
  /\ serveDone' = TRUE
  /\ UNCHANGED <<serverVars, callVars, gateVars, bound, serveHand, httpVars>>

Serve ==
  \/ ServeBegin \/ \E c \in Conns : ServeAccept(c)
  \/ ServeSpawn \/ ServeAcceptError \/ ServeUntrack \/ ServeCloses \/ ServeReport
  \/ ServeSignal

-----------------------------------------------------------------------------
(* The goroutines of the connections.                                      *)

(* A request arrives.                                                      *)
ConnActive(c) ==
  /\ http[c] \in {"new", "idle"} /\ c \in live
  /\ http' = [http EXCEPT ![c] = "active"]
  /\ UNCHANGED <<serverVars, callVars, gateVars, bound, serveVars, inShutdown, tracked>>

(* It is answered; the connection is kept unless the server shuts down.    *)
ConnIdle(c) ==
  /\ http[c] = "active" /\ c \in live /\ ~inShutdown
  /\ http' = [http EXCEPT ![c] = "idle"]
  /\ UNCHANGED <<serverVars, callVars, gateVars, bound, serveVars, inShutdown, tracked>>

(* It is a CONNECT: goproxy hijacks it and http.Server forgets it.         *)
ConnHijack(c) ==
  /\ http[c] = "active" /\ c \in live
  /\ http' = [http EXCEPT ![c] = "hijacked"]
  /\ UNCHANGED <<serverVars, callVars, gateVars, bound, serveVars, inShutdown, tracked>>

(* Its peer hangs up, or its own goroutine closes it.                      *)
ConnClose(c) ==
  /\ http[c] \in TrackedStates \cup {"hijacked"}
  /\ Gate!Leave(c)
  /\ UNCHANGED <<serverVars, callVars, bound, serveVars, httpVars>>

(* Its goroutine notices and untracks it.                                  *)
ConnUntrack(c) ==
  /\ http[c] \in TrackedStates /\ c \notin live
  /\ http' = [http EXCEPT ![c] = "done"]
  /\ UNCHANGED <<serverVars, callVars, gateVars, bound, serveVars, inShutdown, tracked>>

Conn(c) == ConnActive(c) \/ ConnIdle(c) \/ ConnHijack(c) \/ ConnClose(c) \/ ConnUntrack(c)

-----------------------------------------------------------------------------
Next ==
  \/ \E p \in Starters : Start(p)
  \/ \E p \in Stoppers : Stop(p) \/ Expire(p)
  \/ FreePort
  \/ Serve
  \/ \E c \in Conns : Conn(c)

(* Every goroutine that can run does, and a context ends in time: the only *)
(* caller, the user interface, gives Stop five seconds.  Calls, peers and  *)
(* requests may fail to come.                                              *)
Fairness ==
  /\ \A p \in Starters : WF_vars(pc[p] # "idle" /\ Start(p))
  /\ \A p \in Stoppers : WF_vars(pc[p] # "idle" /\ Stop(p)) /\ WF_vars(Expire(p))
  /\ WF_vars(FreePort)
  /\ WF_vars(Serve /\ (servePc = "accepting" => shut))
  /\ \A c \in Conns : WF_vars(ConnUntrack(c))

Spec == Init /\ [][Next]_vars

FairSpec == Spec /\ Fairness

-----------------------------------------------------------------------------
TypeOK ==
  /\ state \in ServerStates
  /\ startDone \in {"nil", "open", "closed"}
  /\ stopDone \in {"nil", "open", "closed"}
  /\ hasListener \in BOOLEAN /\ serveErr \in BOOLEAN /\ stopErr \in BOOLEAN
  /\ hasListener <=> state \in {"running", "stopping"}
  /\ pc \in [Callers -> StarterPcs \cup StopperPcs]
  /\ ctx \in [Stoppers -> {"live", "deadline", "canceled"}]
  /\ failed \in BOOLEAN /\ sweepLeft \subseteq Conns
  /\ result \in [Callers -> {"none", "nil", "error", "noop"}]
  /\ live \subseteq Conns /\ past \subseteq Conns
  /\ shut \in BOOLEAN /\ bound \in BOOLEAN
  /\ servePc \in ServePcs /\ serveHand \in Conns \cup {NoConn}
  /\ serveDone \in BOOLEAN /\ inShutdown \in BOOLEAN /\ tracked \in BOOLEAN
  /\ http \in [Conns -> HttpStates]

ShutdownPcs == {"close", "closing", "shutdown", "group", "drain", "sweep",
                "sweeping", "httpClose", "waitServe", "finish"}

(* However many callers there are, exactly one runs the shutdown, and only *)
(* while the state says so; so stopDone is closed once.                    *)
OneShutdown ==
  Cardinality({p \in Stoppers : pc[p] \in ShutdownPcs})
    = (IF state = "stopping" THEN 1 ELSE 0)

(* A stopped server holds nothing: the port is free, no client connection  *)
(* is left open, hijacked tunnels and late arrivals included, whether or   *)
(* not the context had expired and whether or not Stop reported an error.  *)
StoppedIsQuiet ==
  state = "stopped" => ~bound /\ live = {} /\ ~hasListener /\ serveHand = NoConn

(* A shutdown that reported no error has seen the end of the goroutine     *)
(* that served: nothing of a server stopped without error still runs.      *)
CleanStopMeansGone ==
  state = "stopped" /\ ~stopErr => servePc \in {"none", "gone"}

(* Everyone who performed the shutdown or waited for it gets its verdict.  *)
(* An error from Stop means that the shutdown failed or that the caller's  *)
(* own context ended; nil, from a Stop that found something to stop, means *)
(* that the shutdown is over, did not fail, and that the accept loop had   *)
(* not died of an error before: no failure is swallowed on the way.        *)
WaitersShareVerdict ==
  \A p \in Stoppers :
    /\ result[p] = "error" => ctx[p] # "live" \/ (state = "stopped" /\ stopErr)
    /\ result[p] = "nil" => state = "stopped" /\ ~stopErr /\ ~serveErr

(* Stop returns, although http.Server.Shutdown waits for the accept loop   *)
(* without regard to the context, and peers may never hang up.             *)
StopReturns == \A p \in Stoppers : (pc[p] = "look") ~> (pc[p] = "over")

Contract == INSTANCE ServerContract WITH phase <- state

(* The server keeps its contract with the application service.             *)
ContractSpec == Contract!Spec

-----------------------------------------------------------------------------
(* What the repository says of the program, and the code does not do.      *)

(* internal/presentation/form/form.go says of a running proxy that it is   *)
(* available in the local network: while the server is running its port is *)
(* open.                                                                   *)
RunningIsReachable == state = "running" => bound
=============================================================================
