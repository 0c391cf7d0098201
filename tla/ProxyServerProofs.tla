-------------------------- MODULE ProxyServerProofs --------------------------
(***************************************************************************)
(* Theorems about ProxyServer, for any connections, any limit and any      *)
(* number of goroutines that call Start and Stop.                          *)
(*                                                                         *)
(* That a stopped server is quiet is not inductive.  It rests on the order *)
(* of the shutdown (Descent): the gate is shut before the port is awaited, *)
(* the accept loop is over before the registry is swept, so that nothing   *)
(* comes after the sweep; and on the fact that only one caller goes that   *)
(* way and only from a server that has been started (One, Starts).         *)
(***************************************************************************)
EXTENDS ProxyServer, FiniteSetTheorems, TLAPS

StartingPcs == {"listen", "publish", "failStart"}

(* One goroutine starts the server, and until it is done nothing serves.   *)
Starts ==
  /\ \A p, q \in Starters : pc[p] \in StartingPcs /\ pc[q] \in StartingPcs => p = q
  /\ \A p \in Starters :
       /\ pc[p] \in StartingPcs => state = "starting"
       /\ pc[p] \in {"listen", "failStart"} => ~bound
       /\ pc[p] = "publish" => bound
  /\ state = "new" => ~bound
  /\ state \in {"new", "starting"} => servePc = "none" /\ live = {} /\ ~shut /\ ~serveErr

(* One goroutine stops it.                                                 *)
One ==
  /\ \A p, q \in Stoppers : pc[p] \in ShutdownPcs /\ pc[q] \in ShutdownPcs => p = q
  /\ \A p \in Stoppers : pc[p] \in ShutdownPcs => state = "stopping"
  /\ state = "stopping" => \E p \in Stoppers : pc[p] \in ShutdownPcs

(* What the goroutine that serves has made known.                          *)
Serving ==
  /\ tracked <=> servePc \in {"accepting", "spawning", "untrack"}
  /\ serveHand \in Conns <=> servePc = "spawning"
  /\ serveDone <=> servePc = "gone"
  /\ state \in {"running", "stopping"} /\ ~shut => bound

(* What each stage of the shutdown has achieved for good.                  *)
AfterPort == {"shutdown", "group", "drain", "sweep", "sweeping", "httpClose", "waitServe",
              "finish"}
AfterMark == AfterPort \ {"shutdown"}
AfterGroup == AfterMark \ {"group"}
AfterSweep == {"httpClose", "waitServe", "finish"}

Descent ==
  \A p \in Stoppers :
    /\ pc[p] \in ShutdownPcs \ {"close"} => shut
    /\ pc[p] \in AfterPort => ~bound
    /\ pc[p] \in AfterMark => inShutdown
    /\ pc[p] \in AfterGroup => ~tracked
    /\ pc[p] = "sweeping" => live \subseteq sweepLeft
    /\ pc[p] \in AfterSweep => live = {}
    /\ pc[p] = "finish" /\ ~failed => servePc = "gone" /\ ~serveErr

(* And what is left of it.                                                 *)
Stopped ==
  state = "stopped" =>
    /\ ~bound /\ live = {} /\ ~tracked
    /\ servePc = "none" \/ inShutdown
    /\ stopErr \/ (servePc \in {"none", "gone"} /\ ~serveErr)

Verdicts ==
  /\ stopDone = "closed" => state = "stopped"
  /\ WaitersShareVerdict

IInv == TypeOK /\ Starts /\ One /\ Serving /\ Descent /\ Stopped /\ Verdicts

USE DEF ServerStates, StarterPcs, StopperPcs, ServePcs, TrackedStates, HttpStates, ShutdownPcs,
        StartingPcs, AfterPort, AfterMark, AfterGroup, AfterSweep, Callers

-----------------------------------------------------------------------------
LEMMA InitInv == Init => IInv
<1> SUFFICES ASSUME Init PROVE IInv
  OBVIOUS
<1> USE NoConnOutside DEF Init, Gate!Init
<1>1. TypeOK
  BY DEF TypeOK
<1>2. Starts /\ One
  BY DEF Starts, One
<1>3. Serving /\ Descent
  BY DEF Serving, Descent
<1>4. Stopped /\ Verdicts
  BY DEF Stopped, Verdicts, WaitersShareVerdict
<1> QED
  BY <1>1, <1>2, <1>3, <1>4 DEF IInv

LEMMA StartInv == ASSUME NEW p \in Starters PROVE IInv /\ Start(p) => IInv'
<1> SUFFICES ASSUME IInv, Start(p) PROVE IInv'
  OBVIOUS
<1> USE CallersApart DEF Goto, Return, gateVars, httpVars, serveVars, serverVars, IInv,
        TypeOK, Starts, One, Serving, Descent, Stopped, Verdicts, WaitersShareVerdict
<1>1. CASE StartEnter(p)
  BY <1>1 DEF StartEnter
<1>2. CASE StartRefused(p)
  BY <1>2 DEF StartRefused
<1>3. CASE Listen(p)
  <2>1. (bound \in BOOLEAN)'
    BY <1>3 DEF Listen
  <2>2. TypeOK'
    BY <1>3, <2>1 DEF Listen
  <2>3. Starts'
    BY <1>3 DEF Listen
  <2>4. One' /\ Serving' /\ Descent' /\ Stopped' /\ Verdicts'
    BY <1>3 DEF Listen
  <2> QED
    BY <2>2, <2>3, <2>4
<1>4. CASE FinishFailedStart(p)
  BY <1>4 DEF FinishFailedStart
<1>5. CASE Publish(p)
  BY <1>5 DEF Publish
<1> QED
  BY <1>1, <1>2, <1>3, <1>4, <1>5 DEF Start

(* The callers of Stop that wait, look around or hear of their deadline.   *)
LEMMA WaiterInv ==
  ASSUME NEW p \in Stoppers
  PROVE  IInv /\ (Expire(p) \/ CallStop(p) \/ Look(p) \/ AwaitStart(p) \/ AwaitStop(p))
           => IInv'
<1> SUFFICES ASSUME IInv, Expire(p) \/ CallStop(p) \/ Look(p) \/ AwaitStart(p) \/ AwaitStop(p)
             PROVE  IInv'
  OBVIOUS
<1> USE CallersApart DEF Goto, Return, Expired, Outcome, gateVars, httpVars, serveVars, serverVars,
        IInv, TypeOK, Starts, One, Serving, Descent, Stopped, Verdicts, WaitersShareVerdict
<1>1. CASE Expire(p)
  BY <1>1 DEF Expire
<1>2. CASE CallStop(p)
  BY <1>2 DEF CallStop
<1>3. CASE Look(p)
  <2>1. TypeOK' /\ Starts' /\ One'
    BY <1>3 DEF Look
  <2>2. Serving' /\ Descent' /\ Stopped' /\ Verdicts'
    BY <1>3 DEF Look
  <2> QED
    BY <2>1, <2>2
<1>4. CASE AwaitStart(p)
  BY <1>4 DEF AwaitStart
<1>5. CASE AwaitStop(p)
  <2>1. TypeOK' /\ Starts' /\ One'
    BY <1>5 DEF AwaitStop
  <2>2. Serving' /\ Descent' /\ Stopped' /\ Verdicts'
    BY <1>5 DEF AwaitStop
  <2> QED
    BY <2>1, <2>2
<1> QED
  BY <1>1, <1>2, <1>3, <1>4, <1>5

(* The one that shuts down, stage by stage.                                *)
LEMMA ShutdownInv == ASSUME NEW p \in Stoppers PROVE IInv /\ Shutdown(p) => IInv'
<1> SUFFICES ASSUME IInv, Shutdown(p) PROVE IInv'
  OBVIOUS
<1> USE CallersApart DEF Goto, Return, Expired, Outcome, gateVars, httpVars, serveVars, serverVars,
        IInv, TypeOK, Starts, One, Serving, Descent, Stopped, Verdicts, WaitersShareVerdict
<1>1. CASE CloseListener(p)
  <2>1. (shut \in BOOLEAN)'
    BY <1>1 DEF CloseListener, Gate!Shut
  <2>2. TypeOK'
    BY <1>1, <2>1 DEF CloseListener, Gate!Shut
  <2>3. Starts' /\ One' /\ Serving' /\ Descent' /\ Stopped' /\ Verdicts'
    BY <1>1 DEF CloseListener, Gate!Shut
  <2> QED
    BY <2>2, <2>3
<1>2. CASE ListenerClosed(p)
  BY <1>2 DEF ListenerClosed
<1>3. CASE ShutdownMark(p)
  BY <1>3 DEF ShutdownMark
<1>4. CASE ShutdownGroup(p)
  BY <1>4 DEF ShutdownGroup
<1>5. CASE Poll(p)
  BY <1>5 DEF Poll
<1>6. CASE DrainExpired(p)
  BY <1>6 DEF DrainExpired
<1>7. CASE Sweep(p)
  BY <1>7 DEF Sweep
<1>8. ASSUME NEW c \in Conns, SweepOne(p, c) PROVE IInv'
  BY <1>8 DEF SweepOne, Gate!Leave
<1>9. CASE SweepEnd(p)
  BY <1>9 DEF SweepEnd
<1>10. CASE HttpClose(p)
  BY <1>10 DEF HttpClose
<1>11. CASE WaitForServeExit(p)
  <2>1. (failed \in BOOLEAN)'
    BY <1>11 DEF WaitForServeExit
  <2>2. TypeOK'
    BY <1>11, <2>1 DEF WaitForServeExit
  <2>3. Starts' /\ One' /\ Serving' /\ Descent' /\ Stopped' /\ Verdicts'
    BY <1>11 DEF WaitForServeExit
  <2> QED
    BY <2>2, <2>3
<1>12. CASE StopFinish(p)
  BY <1>12 DEF StopFinish
<1> QED
  BY <1>1, <1>2, <1>3, <1>4, <1>5, <1>6, <1>7, <1>8, <1>9, <1>10, <1>11, <1>12 DEF Shutdown

LEMMA ServeInv == IInv /\ Serve => IInv'
<1> SUFFICES ASSUME IInv, Serve PROVE IInv'
  OBVIOUS
<1> USE NoConnOutside DEF ServeGoto, gateVars, httpVars, serveVars, serverVars, callVars,
        IInv, TypeOK, Starts, One, Serving, Descent, Stopped, Verdicts, WaitersShareVerdict
<1>1. CASE ServeBegin
  BY <1>1 DEF ServeBegin
<1>2. ASSUME NEW c \in Conns, ServeAccept(c) PROVE IInv'
  BY <1>2 DEF ServeAccept, Gate!Admit
<1>3. CASE ServeSpawn
  BY <1>3 DEF ServeSpawn
<1>4. CASE ServeAcceptError
  BY <1>4 DEF ServeAcceptError
<1>5. CASE ServeUntrack
  <2>1. (tracked \in BOOLEAN)'
    BY <1>5 DEF ServeUntrack
  <2>2. TypeOK'
    BY <1>5, <2>1 DEF ServeUntrack
  <2>3. Starts' /\ One' /\ Serving' /\ Descent' /\ Stopped' /\ Verdicts'
    BY <1>5 DEF ServeUntrack
  <2> QED
    BY <2>2, <2>3
<1>6. CASE ServeCloses
  BY <1>6 DEF ServeCloses, Gate!Shut
<1>7. CASE ServeReport
  BY <1>7 DEF ServeReport
<1>8. CASE ServeSignal
  BY <1>8 DEF ServeSignal
<1> QED
  BY <1>1, <1>2, <1>3, <1>4, <1>5, <1>6, <1>7, <1>8 DEF Serve

LEMMA ConnInv == IInv /\ (FreePort \/ \E c \in Conns : Conn(c)) => IInv'
<1> SUFFICES ASSUME IInv, FreePort \/ \E c \in Conns : Conn(c) PROVE IInv'
  OBVIOUS
<1> USE DEF gateVars, httpVars, serveVars, serverVars, callVars,
        IInv, TypeOK, Starts, One, Serving, Descent, Stopped, Verdicts, WaitersShareVerdict
<1>1. CASE FreePort
  <2>1. (bound \in BOOLEAN)'
    BY <1>1 DEF FreePort
  <2>2. TypeOK'
    BY <1>1, <2>1 DEF FreePort
  <2>3. Starts' /\ One' /\ Serving' /\ Descent' /\ Stopped' /\ Verdicts'
    BY <1>1 DEF FreePort
  <2> QED
    BY <2>2, <2>3
<1>2. ASSUME NEW c \in Conns, ConnActive(c) \/ ConnIdle(c) \/ ConnHijack(c) \/ ConnUntrack(c)
      PROVE  IInv'
  BY <1>2 DEF ConnActive, ConnIdle, ConnHijack, ConnUntrack
<1>3. ASSUME NEW c \in Conns, ConnClose(c) PROVE IInv'
  BY <1>3 DEF ConnClose, Gate!Leave
<1> QED
  BY <1>1, <1>2, <1>3 DEF Conn

LEMMA StepInv == IInv /\ [Next]_vars => IInv'
<1> SUFFICES ASSUME IInv, [Next]_vars PROVE IInv'
  OBVIOUS
<1>1. CASE UNCHANGED vars
  BY <1>1 DEF vars, IInv, TypeOK, Starts, One, Serving, Descent, Stopped, Verdicts,
              WaitersShareVerdict
<1>2. ASSUME NEW p \in Stoppers, Stop(p) \/ Expire(p) PROVE IInv'
  BY <1>2, WaiterInv, ShutdownInv DEF Stop
<1> QED
  BY <1>1, <1>2, StartInv, ServeInv, ConnInv DEF Next

LEMMA Invariant == Spec => []IInv
  BY InitInv, StepInv, PTL DEF Spec
-----------------------------------------------------------------------------
(* What follows from it                                                    *)

(* Every variable of the server keeps its type.                            *)
THEOREM TypeCorrect == Spec => []TypeOK
<1>1. IInv => TypeOK
  BY DEF IInv
<1> QED
  BY <1>1, Invariant, PTL

(* Exactly one of the callers runs the shutdown while the server stops, and*)
(* none at any other time.                                                 *)
THEOREM OneShutdownCorrect == Spec => []OneShutdown
<1> DEFINE Down == {p \in Stoppers : pc[p] \in ShutdownPcs}
<1>1. ASSUME IInv PROVE OneShutdown
  <2>1. CASE state = "stopping"
    <3>1. PICK p \in Stoppers : pc[p] \in ShutdownPcs
      BY <1>1, <2>1 DEF IInv, One
    <3>2. Down = {p}
      BY <1>1, <3>1 DEF IInv, One
    <3>3. Cardinality(Down) = 1
      BY <3>2, FS_Singleton
    <3> QED
      BY <2>1, <3>3 DEF OneShutdown
  <2>2. CASE state # "stopping"
    <3>1. Down = {}
      BY <1>1, <2>2 DEF IInv, One
    <3>2. Cardinality(Down) = 0
      BY <3>1, FS_EmptySet
    <3> QED
      BY <2>2, <3>2 DEF OneShutdown
  <2> QED
    BY <2>1, <2>2
<1> QED
  BY <1>1, Invariant, PTL

(* A stopped server holds neither its port nor a connection.               *)
THEOREM StoppedIsQuietCorrect == Spec => []StoppedIsQuiet
<1>1. IInv => StoppedIsQuiet
  BY DEF IInv, TypeOK, Serving, Stopped, StoppedIsQuiet
<1> QED
  BY <1>1, Invariant, PTL

(* Nor, if there was no error, the goroutine that served.                  *)
THEOREM CleanStopCorrect == Spec => []CleanStopMeansGone
<1>1. IInv => CleanStopMeansGone
  BY DEF IInv, Stopped, CleanStopMeansGone
<1> QED
  BY <1>1, Invariant, PTL

(* Whoever performed the shutdown or waited for it is told how it ended: an*)
(* error is the shutdown's own or that of the caller's context, and nil is *)
(* told only of a shutdown that neither failed nor found a dead accept     *)
(* loop.  That needs what failed and serveErr say at the end (Descent).    *)
THEOREM VerdictCorrect == Spec => []WaitersShareVerdict
<1>1. IInv => WaitersShareVerdict
  BY DEF IInv, Verdicts
<1> QED
  BY <1>1, Invariant, PTL

-----------------------------------------------------------------------------
(* The server keeps its contract                                           *)

LEMMA ContractInit == Init => Contract!Init
  BY DEF Init, Gate!Init, Contract!Init

LEMMA ContractStart ==
  ASSUME NEW p \in Starters, IInv, Start(p)
  PROVE  [Contract!Next]_(Contract!contractVars)
<1> USE DEF Goto, Return, gateVars, serverVars, IInv, Starts, Contract!Next,
        Contract!contractVars, Contract!Move
<1>1. CASE StartEnter(p)
  BY <1>1 DEF StartEnter
<1>2. CASE StartRefused(p)
  BY <1>2 DEF StartRefused
<1>3. CASE Listen(p)
  BY <1>3 DEF Listen, Contract!Bind
<1>4. CASE FinishFailedStart(p)
  BY <1>4 DEF FinishFailedStart
<1>5. CASE Publish(p)
  BY <1>5 DEF Publish
<1> QED
  BY <1>1, <1>2, <1>3, <1>4, <1>5 DEF Start

LEMMA ContractStop ==
  ASSUME NEW p \in Stoppers, IInv, Stop(p) \/ Expire(p)
  PROVE  [Contract!Next]_(Contract!contractVars)
<1> USE DEF Goto, Return, gateVars, serverVars, Contract!contractVars
<1>1. CASE Look(p)
  BY <1>1 DEF Look, Contract!Next, Contract!Move
<1>2. CASE Expire(p) \/ CallStop(p) \/ AwaitStart(p) \/ AwaitStop(p)
  BY <1>2 DEF Expire, CallStop, AwaitStart, AwaitStop
<1>3. CASE CloseListener(p)
  BY <1>3 DEF CloseListener, Gate!Shut
<1>4. CASE \/ ListenerClosed(p) \/ ShutdownMark(p) \/ ShutdownGroup(p) \/ DrainExpired(p)
           \/ Sweep(p) \/ SweepEnd(p) \/ WaitForServeExit(p)
  BY <1>4 DEF ListenerClosed, ShutdownMark, ShutdownGroup, DrainExpired, Sweep, SweepEnd,
              WaitForServeExit
<1>5. CASE Poll(p) \/ HttpClose(p) \/ \E c \in Conns : SweepOne(p, c)
  <2>1. UNCHANGED <<state, bound>> /\ live' \subseteq live
    BY <1>5 DEF Poll, HttpClose, SweepOne, Gate!Leave
  <2>2. live' = live \ (live \ live')
    BY <2>1
  <2> QED
    BY <2>1, <2>2 DEF Contract!Next, Contract!Leave
<1>6. CASE StopFinish(p)
  BY <1>6 DEF StopFinish, IInv, One, Descent, Contract!Next, Contract!Move
<1> QED
  BY <1>1, <1>2, <1>3, <1>4, <1>5, <1>6 DEF Stop, Shutdown

LEMMA ContractServe ==
  ASSUME IInv, Serve \/ FreePort \/ \E c \in Conns : Conn(c)
  PROVE  [Contract!Next]_(Contract!contractVars)
<1> USE DEF gateVars, serverVars, callVars, Contract!contractVars
<1>1. ASSUME NEW c \in Conns, ServeAccept(c) PROVE Contract!Admit(c)
  <2>1. ServeGoto("accepting", "spawning") /\ Gate!Admit(c) /\ UNCHANGED <<state, bound>>
    BY <1>1 DEF ServeAccept
  <2>2. state \in {"running", "stopping"} /\ bound
    BY <2>1 DEF ServeGoto, Gate!Admit, IInv, TypeOK, Starts, Serving, Stopped
  <2> QED
    BY <2>1, <2>2 DEF Gate!Admit, Contract!Admit
<1>2. CASE \/ ServeBegin \/ ServeSpawn \/ ServeAcceptError \/ ServeUntrack \/ ServeReport
           \/ ServeSignal
  BY <1>2 DEF ServeBegin, ServeSpawn, ServeAcceptError, ServeUntrack, ServeReport, ServeSignal
<1>3. CASE ServeCloses
  BY <1>3 DEF ServeCloses, Gate!Shut
<1>4. CASE FreePort
  BY <1>4 DEF FreePort, IInv, TypeOK, Starts, Stopped, Contract!Next, Contract!FreePort
<1>5. ASSUME NEW c \in Conns, Conn(c) PROVE [Contract!Next]_(Contract!contractVars)
  <2>1. CASE ConnClose(c)
    <3>1. Contract!Leave({c}) /\ {c} \in SUBSET live
      BY <2>1 DEF ConnClose, Gate!Leave, Contract!Leave
    <3> QED
      BY <3>1 DEF Contract!Next
  <2>2. CASE ConnActive(c) \/ ConnIdle(c) \/ ConnHijack(c) \/ ConnUntrack(c)
    BY <2>2 DEF ConnActive, ConnIdle, ConnHijack, ConnUntrack
  <2> QED
    BY <1>5, <2>1, <2>2 DEF Conn
<1> QED
  BY <1>1, <1>2, <1>3, <1>4, <1>5 DEF Serve, Contract!Next

(* The server implements ServerContract, which is all that the application *)
(* service (ProxyService) takes it for.                                    *)
THEOREM ServerKeepsContract == Spec => ContractSpec
<1>1. IInv /\ [Next]_vars => [Contract!Next]_(Contract!contractVars)
  <2> SUFFICES ASSUME IInv, [Next]_vars PROVE [Contract!Next]_(Contract!contractVars)
    OBVIOUS
  <2>1. CASE UNCHANGED vars
    BY <2>1 DEF vars, Contract!contractVars
  <2>2. CASE Next
    BY <2>2, ContractStart, ContractStop, ContractServe DEF Next
  <2> QED
    BY <2>1, <2>2
<1> QED
  BY <1>1, ContractInit, Invariant, PTL DEF Spec, ContractSpec, Contract!Spec
-----------------------------------------------------------------------------
(* Nobody waits in vain                                                    *)

(* The two channels say what the state says, and who closes one finds it   *)
(* open: closing a nil channel, or one twice, would end the program.       *)
Channels ==
  /\ startDone = IF state = "new" THEN "nil"
                 ELSE IF state = "starting" THEN "open" ELSE "closed"
  /\ stopDone = "open" <=> state = "stopping"
  /\ stopDone = "closed" => state = "stopped"
  /\ \A p \in Starters : pc[p] \in {"publish", "failStart"} => startDone = "open"
  /\ \A p \in Stoppers : pc[p] = "finish" => stopDone = "open"

(* A Stop that waits has been overtaken by what it waits for, or waits for *)
(* a goroutine that is there and, if it is the one that serves, cannot be  *)
(* held up by peers any more.                                              *)
WaitsForSomebody ==
  \A p \in Stoppers :
    /\ pc[p] = "awaitStart" =>
         startDone = "closed" \/ \E q \in Starters : pc[q] \in StartingPcs
    /\ pc[p] = "awaitStop" =>
         stopDone = "closed" \/ \E q \in Stoppers : pc[q] \in ShutdownPcs
    /\ pc[p] = "closing" => shut
    /\ pc[p] = "group" /\ tracked =>
         shut /\ servePc \in {"accepting", "spawning", "untrack"}
    /\ pc[p] = "waitServe" /\ ~serveDone => shut /\ servePc \notin {"none", "gone"}

(* Who is there, and who has seen which channel.                           *)
Presence ==
  /\ state = "starting" => \E p \in Starters : pc[p] \in StartingPcs
  /\ state \in {"running", "stopping"} => servePc # "none"
  /\ \A p \in Stoppers :
       /\ pc[p] = "awaitStart" => startDone # "nil"
       /\ pc[p] = "awaitStop" => stopDone # "nil"

LEMMA PresenceStep == IInv /\ Channels /\ Presence /\ [Next]_vars => Channels' /\ Presence'
<1> SUFFICES ASSUME IInv, Channels, Presence, [Next]_vars PROVE Channels' /\ Presence'
  OBVIOUS
<1> USE CallersApart DEF Goto, Return, ServeGoto, Expired, gateVars, httpVars, serveVars,
        serverVars, callVars, IInv, TypeOK, Starts, One, Channels, Presence
<1>1. ASSUME NEW p \in Starters, Start(p) PROVE Channels' /\ Presence'
  <2>1. CASE StartEnter(p)
    BY <2>1 DEF StartEnter
  <2>2. CASE StartRefused(p)
    BY <2>2 DEF StartRefused
  <2>3. CASE Listen(p)
    BY <2>3 DEF Listen
  <2>4. CASE FinishFailedStart(p)
    BY <2>4 DEF FinishFailedStart
  <2>5. CASE Publish(p)
    BY <2>5 DEF Publish
  <2> QED
    BY <1>1, <2>1, <2>2, <2>3, <2>4, <2>5 DEF Start
<1>2. ASSUME NEW p \in Stoppers,
             Expire(p) \/ CallStop(p) \/ Look(p) \/ AwaitStart(p) \/ AwaitStop(p)
      PROVE  Channels' /\ Presence'
  <2>1. CASE Expire(p) \/ CallStop(p)
    BY <2>1 DEF Expire, CallStop
  <2>2. CASE Look(p)
    BY <2>2 DEF Look
  <2>3. CASE AwaitStart(p) \/ AwaitStop(p)
    BY <2>3 DEF AwaitStart, AwaitStop
  <2> QED
    BY <1>2, <2>1, <2>2, <2>3
<1>3. ASSUME NEW p \in Stoppers, Shutdown(p) PROVE Channels' /\ Presence'
  <2>1. CASE StopFinish(p)
    BY <2>1 DEF StopFinish
  <2>2. CASE CloseListener(p) \/ ListenerClosed(p) \/ ShutdownMark(p) \/ ShutdownGroup(p)
               \/ Poll(p) \/ DrainExpired(p) \/ Sweep(p)
    BY <2>2 DEF CloseListener, ListenerClosed, ShutdownMark, ShutdownGroup, Poll,
                DrainExpired, Sweep
  <2>3. CASE SweepEnd(p) \/ HttpClose(p) \/ WaitForServeExit(p)
               \/ \E c \in Conns : SweepOne(p, c)
    BY <2>3 DEF SweepEnd, HttpClose, WaitForServeExit, SweepOne
  <2> QED
    BY <1>3, <2>1, <2>2, <2>3 DEF Shutdown
<1>4. CASE Serve
  BY <1>4 DEF Serve, ServeBegin, ServeAccept, ServeSpawn, ServeAcceptError, ServeUntrack,
              ServeCloses, ServeReport, ServeSignal
<1>5. CASE FreePort \/ \E c \in Conns : Conn(c)
  BY <1>5 DEF FreePort, Conn, ConnActive, ConnIdle, ConnHijack, ConnClose, ConnUntrack
<1>6. CASE UNCHANGED vars
  BY <1>6 DEF vars
<1> QED
  BY <1>1, <1>2, <1>3, <1>4, <1>5, <1>6 DEF Next, Stop

LEMMA Presences == Spec => [](Channels /\ Presence)
<1>1. Init => Channels /\ Presence
  BY CallersApart DEF Init, Channels, Presence
<1> QED
  BY <1>1, PresenceStep, Invariant, PTL DEF Spec

(* startDone and stopDone are each closed once, by a goroutine that finds  *)
(* it open, however many call Start and Stop.                              *)
THEOREM ChannelsCorrect == Spec => []Channels
  BY Presences, PTL

(* No Stop is forgotten: whoever waits in the loop of Stop or inside the   *)
(* shutdown waits for somebody who is there.  What StopReturns adds is     *)
(* that those goroutines are given time to run.                            *)
THEOREM NobodyWaitsInVain == Spec => []WaitsForSomebody
<1>1. IInv /\ Channels /\ Presence => WaitsForSomebody
  BY DEF IInv, One, Serving, Descent, Channels, Presence, WaitsForSomebody, TypeOK
<1> QED
  BY <1>1, Presences, Invariant, PTL
=============================================================================
