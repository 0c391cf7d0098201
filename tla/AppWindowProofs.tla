---------------------------- MODULE AppWindowProofs ----------------------------
(***************************************************************************)
(* Proofs about AppWindow, for any number of goroutines and dialogs, any   *)
(* files and any interfaces.                                               *)
(*                                                                         *)
(* The window's answers depend on two things that the code nowhere states: *)
(* that inFlight is the one command under way (Commands), and that nothing *)
(* but such a command makes the service leave Stopped or Error, so that    *)
(* what was polled stays true until the next click (ShownIsOld).           *)
(*                                                                         *)
(* That a form comes back rests on a third: what a dialog or a goroutine   *)
(* has captured still agrees with the form when it is written (Captures).  *)
(***************************************************************************)
EXTENDS AppWindow, SettingsProofs

Kinds == {"none", "start", "stop", "close"}
Pcs == {"idle", "called", "done", "failed", "box", "starting", "saving", "locked", "stopping"}

Typed ==
  /\ kind \in [Tasks -> Kinds] /\ pc \in [Tasks -> Pcs]
  /\ state \in States /\ window \in {"open", "closed"}
  /\ inFlight \in {"none", "start", "stop"}
  /\ \A t \in Tasks :
       /\ pc[t] = "idle" <=> kind[t] = "none"
       /\ pc[t] \in {"starting", "saving"} => kind[t] = "start"
       /\ pc[t] \in {"locked", "stopping"} => kind[t] \in Stops
       /\ pc[t] \in {"failed", "box"} => kind[t] = "close"

(* operationMutex, and the state that its holder has made.                 *)
Mutex ==
  /\ \A t, u \in Tasks : pc[t] \in HoldingPcs /\ pc[u] \in HoldingPcs => t = u
  /\ \A t \in Tasks :
       /\ pc[t] = "starting" => state = "starting"
       /\ pc[t] = "saving" => state = "running"
       /\ pc[t] = "stopping" => state = "stopping"
  /\ state \in {"starting", "stopping"} => \E t \in Tasks : pc[t] = state
  /\ state \in Quiet => ~reachable

(* inFlight says which command there is.                                   *)
Commands ==
  /\ \A t \in Tasks : kind[t] \in {"start", "stop"} => kind[t] = inFlight
  /\ \A t, u \in Tasks :
       kind[t] \in {"start", "stop"} /\ kind[u] \in {"start", "stop"} => t = u
  /\ inFlight # "none" => \E t \in Tasks : kind[t] = inFlight

(* What is true since the last refresh.                                    *)
ShownIsOld == shown \in Quiet => state \in Quiet /\ inFlight # "start"

(* What a close finds when its Stop has returned, and leaves.              *)
ReturnedPcs == {"done", "failed", "box"}

Closes ==
  /\ \A t \in Tasks : kind[t] = "close" => closing
  /\ closing => \E t \in Tasks : kind[t] = "close"
  /\ \A t \in Tasks :
       kind[t] = "close" /\ pc[t] \in ReturnedPcs /\ ~lateStart => state \in Quiet
  /\ window = "closed" /\ ~lateStart => state \in Quiet

IInv == Typed /\ Mutex /\ Commands /\ ShownIsOld /\ Closes

USE DEF Kinds, Pcs, ReturnedPcs, States, Quiet, Stops, HoldingPcs

-----------------------------------------------------------------------------
LEMMA InitInv == Init => IInv
  BY DEF Init, Life!Init, IInv, Typed, Mutex, Commands, ShownIsOld, Closes

LEMMA LaunchInv == IInv /\ Launch => IInv'
<1> SUFFICES ASSUME IInv, NEW found, NEW list, LaunchOn(found, list) PROVE IInv'
  BY DEF Launch
<1> QED
  BY DEF LaunchOn, IInv, Typed, Mutex, Commands, ShownIsOld, Closes

(* The goroutines: what a step of one of them leaves alone.                *)
LEMMA TaskInv == ASSUME NEW t \in Tasks PROVE IInv /\ Task(t) => IInv'
<1> SUFFICES ASSUME IInv, Task(t) PROVE IInv'
  OBVIOUS
<1> USE DEF Goto, UiUnchanged, WindowUnchanged, MutexFree, Life!Change, lifeVars, sideVars,
            serviceVars, IInv, Typed
<1>1. CASE EnterStart(t)
  <2>1. Typed'
    BY <1>1 DEF EnterStart, Life!Start
  <2>2. Mutex'
    BY <1>1 DEF EnterStart, Life!Start, Mutex
  <2>3. Commands' /\ ShownIsOld'
    BY <1>1 DEF EnterStart, Life!Start, Commands, ShownIsOld
  <2>4. Closes'
    BY <1>1 DEF EnterStart, Life!Start, Closes
  <2> QED
    BY <2>1, <2>2, <2>3, <2>4
<1>2. CASE RefuseStart(t)
  BY <1>2 DEF RefuseStart, Mutex, Commands, ShownIsOld, Closes
<1>3. CASE StartSucceeds(t)
  <2>1. Typed' /\ Mutex'
    BY <1>3 DEF StartSucceeds, Life!Up, Mutex
  <2>2. Commands' /\ ShownIsOld' /\ Closes'
    BY <1>3 DEF StartSucceeds, Life!Up, Mutex, Commands, ShownIsOld, Closes
  <2> QED
    BY <2>1, <2>2
<1>4. CASE StartFails(t)
  <2>1. Typed' /\ Mutex'
    BY <1>4 DEF StartFails, Life!StartFails, Mutex
  <2>2. Commands' /\ ShownIsOld' /\ Closes'
    BY <1>4 DEF StartFails, Life!StartFails, Mutex, Commands, ShownIsOld, Closes
  <2> QED
    BY <2>1, <2>2
<1>5. CASE PersistCredentials(t)
  BY <1>5 DEF PersistCredentials, Mutex, Commands, ShownIsOld, Closes
<1>6. CASE EnterStop(t)
  BY <1>6 DEF EnterStop, Mutex, Commands, ShownIsOld, Closes
<1>7. CASE CheckStop(t)
  <2>1. Typed' /\ Mutex'
    BY <1>7 DEF CheckStop, Life!Stop, Mutex
  <2>2. Commands' /\ ShownIsOld' /\ Closes'
    BY <1>7 DEF CheckStop, Life!Stop, Mutex, Commands, ShownIsOld, Closes
  <2> QED
    BY <2>1, <2>2
<1>8. CASE StopReturns(t)
  <2>1. Typed' /\ Mutex'
    BY <1>8 DEF StopReturns, Life!Down, Mutex
  <2>2. Commands' /\ ShownIsOld' /\ Closes'
    BY <1>8 DEF StopReturns, Life!Down, Mutex, Commands, ShownIsOld, Closes
  <2> QED
    BY <2>1, <2>2
<1> QED
  BY <1>1, <1>2, <1>3, <1>4, <1>5, <1>6, <1>7, <1>8 DEF Task

LEMMA NetworkInv == IInv /\ Network => IInv'
  BY DEF Network, Life!Serve, UiUnchanged, WindowUnchanged, sideVars, IInv, Typed, Mutex,
         Commands, ShownIsOld, Closes

-----------------------------------------------------------------------------
(* The window                                                              *)

(* A refresh, on its own or at the end of a handler.                       *)
LEMMA RedrawInv ==
  IInv /\ Redraw /\ UNCHANGED <<state, reachable, lateStart, closing>> => IInv'
<1> SUFFICES ASSUME IInv, Redraw, UNCHANGED <<state, reachable, lateStart, closing>>
             PROVE  IInv'
  OBVIOUS
<1> USE DEF IInv, Typed
<1>1. CASE /\ ~Fyne /\ \E t \in CloseResults : pc[t] = "done" /\ Exit(captured[t])
           /\ UNCHANGED <<inFlight, kind, pc, shown>>
  BY <1>1 DEF CloseResults, Exit, Mutex, Commands, ShownIsOld, Closes
<1>3. ASSUME NEW t \in CloseResults, pc[t] = "failed", pc' = [pc EXCEPT ![t] = "box"],
             UNCHANGED <<inFlight, kind, shown, window, diskVars>>
      PROVE  IInv'
  <2>1. Typed'
    BY <1>3 DEF CloseResults
  <2>2. Mutex' /\ Commands' /\ ShownIsOld' /\ Closes'
    BY <1>3 DEF CloseResults, Mutex, Commands, ShownIsOld, Closes
  <2> QED
    BY <2>1, <2>2
<1>2. CASE /\ Fyne \/ CloseResults = {}
           /\ IF Fyne THEN UNCHANGED <<inFlight, kind, pc>> ELSE Drain
           /\ shown' = Display(inFlight', closing)
           /\ UNCHANGED <<window, diskVars>>
  <2>1. CASE UNCHANGED <<inFlight, kind, pc>>
    BY <1>2, <2>1 DEF Display, Mutex, Commands, ShownIsOld, Closes
  <2>2. CASE Drain
    <3>1. Typed'
      BY <1>2, <2>2 DEF Drain, Results
    <3>2. Mutex' /\ Closes'
      BY <1>2, <2>2 DEF Drain, Results, Mutex, Closes
    <3>3. Commands'
      BY <1>2, <2>2 DEF Drain, Results, Commands
    <3>4. ShownIsOld'
      BY <1>2, <2>2, <3>1 DEF Drain, Display, ShownIsOld
    <3> QED
      BY <3>1, <3>2, <3>3, <3>4
  <2> QED
    BY <1>2, <2>1, <2>2
<1> QED
  BY <1>1, <1>2, <1>3 DEF Redraw

LEMMA ButtonInv ==
  ASSUME NEW t \in Tasks
  PROVE  IInv /\ (OnAction(t) \/ FinishOperation(t)) => IInv'
<1> USE DEF IInv, Typed, serviceVars, lifeVars, sideVars
<1>1. ASSUME IInv, OnAction(t) PROVE IInv'
  <2>1. Typed'
    BY <1>1 DEF OnAction, Spawn
  <2>2. Mutex' /\ Closes'
    BY <1>1 DEF OnAction, Spawn, Mutex, Closes
  <2>3. Commands' /\ ShownIsOld'
    BY <1>1 DEF OnAction, Spawn, Commands, ShownIsOld
  <2> QED
    BY <2>1, <2>2, <2>3
<1>2. ASSUME IInv, FinishOperation(t) PROVE IInv'
  <2>1. Typed'
    BY <1>2 DEF FinishOperation, Results
  <2>2. Mutex' /\ Closes'
    BY <1>2 DEF FinishOperation, Results, Mutex, Closes
  <2>3. Commands'
    BY <1>2 DEF FinishOperation, Results, Commands
  <2>4. ShownIsOld'
    BY <1>2, <2>1 DEF FinishOperation, Display, ShownIsOld
  <2> QED
    BY <2>1, <2>2, <2>3, <2>4
<1> QED
  BY <1>1, <1>2

LEMMA CloseInv ==
  /\ IInv /\ (CloseRequest \/ KeepOpen) => IInv'
  /\ \A t \in Tasks : IInv /\ (ConfirmClose(t) \/ CloseWindow(t) \/ Acknowledge(t)) => IInv'
<1> USE DEF IInv, Typed, serviceVars, lifeVars, sideVars, taskVars, Exit, Dismiss
<1>1. ASSUME IInv, CloseRequest PROVE IInv'
  BY <1>1 DEF CloseRequest, Active, Mutex, Commands, ShownIsOld, Closes
<1>2. ASSUME IInv, KeepOpen PROVE IInv'
  BY <1>2 DEF KeepOpen, Mutex, Commands, ShownIsOld, Closes
<1>3. ASSUME IInv, NEW t \in Tasks, ConfirmClose(t) PROVE IInv'
  <2>1. Typed' /\ Mutex' /\ ShownIsOld'
    BY <1>3 DEF ConfirmClose, Spawn, Mutex, ShownIsOld
  <2>2. Commands' /\ Closes'
    BY <1>3 DEF ConfirmClose, Spawn, Commands, Closes
  <2> QED
    BY <2>1, <2>2
<1>4. ASSUME IInv, NEW t \in Tasks, CloseWindow(t) \/ Acknowledge(t) PROVE IInv'
  BY <1>4 DEF CloseWindow, Acknowledge, CloseResults, Mutex, Commands, ShownIsOld, Closes
<1> QED
  BY <1>1, <1>2, <1>3, <1>4

(* What happens to the form.                                               *)
Edit ==
  \/ Refresh \/ ToggleAuth
  \/ \E i \in 1..Len(offered) : ChooseInterface(i)
  \/ \E p \in TypedPorts : EditPort(p)
  \/ \E k \in Pairs \cup {NoPair} : TypePair(k) \/ GeneratePair(k)
  \/ \E m \in Themes : ChangeTheme(m)

LEMMA FormInv == IInv /\ Edit => IInv'
<1> SUFFICES ASSUME IInv, Edit PROVE IInv'
  OBVIOUS
<1> USE DEF serviceVars, lifeVars, sideVars, EditRest
<1>1. UNCHANGED <<state, reachable, lateStart, closing>>
  BY DEF Edit, Refresh, ToggleAuth, ChooseInterface, EditPort, TypePair, GeneratePair,
         ChangeTheme
<1>2. Redraw \/ UNCHANGED <<inFlight, kind, pc, shown, window>>
  BY DEF Edit, Refresh, ToggleAuth, ChooseInterface, EditPort, TypePair, GeneratePair,
         ChangeTheme
<1>3. CASE UNCHANGED <<inFlight, kind, pc, shown, window>>
  BY <1>1, <1>3 DEF IInv, Typed, Mutex, Commands, ShownIsOld, Closes
<1> QED
  BY <1>1, <1>2, <1>3, RedrawInv

LEMMA StepInv == IInv /\ [Next]_vars => IInv'
<1> SUFFICES ASSUME IInv, [Next]_vars PROVE IInv'
  OBVIOUS
<1>1. CASE UNCHANGED vars
  BY <1>1 DEF vars, serviceVars, lifeVars, sideVars, taskVars, IInv, Typed, Mutex, Commands,
              ShownIsOld, Closes
<1>2. CASE Handlers
  <2>1. ASSUME NEW t \in Tasks,
               \/ OnAction(t) \/ FinishOperation(t)
               \/ ConfirmClose(t) \/ CloseWindow(t) \/ Acknowledge(t)
        PROVE  IInv'
    BY <2>1, ButtonInv, CloseInv
  <2>2. ASSUME CloseRequest \/ KeepOpen PROVE IInv'
    BY <2>2, CloseInv
  <2>3. CASE Edit
    BY <2>3, FormInv
  <2> QED
    BY <1>2, <2>1, <2>2, <2>3 DEF Handlers, Edit
<1> QED
  BY <1>1, <1>2, LaunchInv, TaskInv, NetworkInv DEF Next

LEMMA Invariant == Spec => []IInv
  BY InitInv, StepInv, PTL DEF Spec
-----------------------------------------------------------------------------
(* The properties that follow                                              *)

(* A goroutine with a command exists exactly as long as inFlight says so.  *)
THEOREM OneCommandCorrect == Spec => []OneCommand
<1>1. IInv => OneCommand
  <2> SUFFICES ASSUME IInv PROVE OneCommand
    OBVIOUS
  <2>1. CASE inFlight = "none"
    BY <2>1 DEF IInv, Typed, Commands, OneCommand
  <2>2. CASE inFlight # "none"
    <3>1. PICK t \in Tasks : kind[t] = inFlight
      BY <2>2 DEF IInv, Commands
    <3>2. {u \in Tasks : kind[u] \in {"start", "stop"}} = {t}
      BY <2>2, <3>1 DEF IInv, Typed, Commands
    <3> QED
      BY <2>2, <3>1, <3>2 DEF OneCommand
  <2> QED
    BY <2>1, <2>2
<1> QED
  BY <1>1, Invariant, PTL

(* The window never says Stopped or Error while the proxy can be reached,  *)
(* although it polls.                                                      *)
THEOREM ShownQuietCorrect == Spec => []ShownQuietIsQuiet
<1>1. IInv => ShownQuietIsQuiet
  BY DEF IInv, ShownIsOld, Mutex, ShownQuietIsQuiet
<1> QED
  BY <1>1, Invariant, PTL

(* When the window is gone, the proxy is, unless a Start came too late.    *)
THEOREM ExitCorrect == Spec => []ExitLeavesOnlyALateStart
<1>1. IInv => ExitLeavesOnlyALateStart
  BY DEF IInv, Closes, Mutex, ExitLeavesOnlyALateStart
<1> QED
  BY <1>1, Invariant, PTL

(* Without a question the window closes only on a service at rest that no  *)
(* command is on its way to.                                               *)
THEOREM NoSilentExitCorrect == Spec => NoSilentExit
<1> DEFINE Silent == window' = "closed" /\ window = "open" /\ ~closing
           AtRest == ~reachable /\ \A t \in Tasks : kind[t] = "none"
<1>1. ASSUME IInv, Next, Silent PROVE AtRest
  <2>1. inFlight = "none" /\ state \in Quiet => AtRest
    BY <1>1 DEF IInv, Typed, Mutex, Commands, Closes
  <2>2. CASE Redraw
    BY <1>1, <2>2 DEF Redraw, CloseResults, IInv, Closes
  <2>3. CASE CloseRequest
    BY <1>1, <2>1, <2>3 DEF CloseRequest, Active, Exit
  <2>4. ASSUME NEW t \in Tasks, CloseWindow(t) \/ Acknowledge(t) PROVE FALSE
    BY <1>1, <2>4 DEF CloseWindow, Acknowledge, CloseResults, IInv, Typed, Closes
  <2>5. ASSUME Edit PROVE Redraw
    BY <1>1, <2>5 DEF Edit, Refresh, ToggleAuth, ChooseInterface, EditPort, TypePair,
                      GeneratePair, ChangeTheme
  <2>6. ASSUME NEW t \in Tasks, OnAction(t) \/ FinishOperation(t) \/ ConfirmClose(t)
        PROVE  FALSE
    BY <1>1, <2>6 DEF OnAction, FinishOperation, ConfirmClose
  <2>7. ASSUME Launch \/ Network \/ KeepOpen PROVE FALSE
    BY <1>1, <2>7 DEF Launch, LaunchOn, Network, KeepOpen, UiUnchanged, WindowUnchanged
  <2>8. ASSUME NEW t \in Tasks, Task(t) PROVE FALSE
    BY <1>1, <2>8 DEF Task, EnterStart, RefuseStart, StartSucceeds, StartFails,
          PersistCredentials, EnterStop, CheckStop, StopReturns, UiUnchanged, WindowUnchanged
  <2>9. CASE Handlers
    BY <2>9, <2>2, <2>3, <2>4, <2>5, <2>6, <2>7 DEF Handlers, Edit
  <2> QED
    BY <1>1, <2>7, <2>8, <2>9 DEF Next
<1>2. IInv /\ [Next]_vars => [Silent => AtRest]_vars
  BY <1>1
<1> QED
  BY <1>2, Invariant, PTL DEF Spec, NoSilentExit
-----------------------------------------------------------------------------
(* The form keeps what the proxy has been started with                     *)

FormMatches(config) ==
  /\ config.port = port /\ config.auth = auth
  /\ Fyne => config.interface = offered[iface] /\ (auth => config.pair = pair)

(* From the click to the end of the proxy, on the way to the service and   *)
(* inside it.                                                              *)
Kept ==
  /\ DOMAIN captured = Tasks
  /\ \A t \in Tasks : kind[t] = "start" /\ pc[t] = "called" => FormMatches(captured[t])
  /\ state \in {"starting", "running", "stopping"} => FormMatches(served)

(* A command that has not been taken up stays what it is, or is forgotten. *)
FewerCalls ==
  \A t \in Tasks : kind'[t] = "start" /\ pc'[t] = "called"
                    => kind[t] = "start" /\ pc[t] = "called"

LEMMA RedrawCalls == Typed /\ Redraw => FewerCalls
<1> SUFFICES ASSUME Typed, Redraw PROVE FewerCalls
  OBVIOUS
<1>1. CASE UNCHANGED <<kind, pc>>
  BY <1>1 DEF FewerCalls
<1>2. CASE Drain
  BY <1>2 DEF Drain, Typed, FewerCalls
<1>3. ASSUME NEW t \in Tasks, pc' = [pc EXCEPT ![t] = "box"], UNCHANGED kind
      PROVE  FewerCalls
  BY <1>3 DEF Typed, FewerCalls
<1> QED
  BY <1>1, <1>2, <1>3 DEF Redraw, CloseResults

LEMMA KeptTask == ASSUME NEW t \in Tasks PROVE IInv /\ Kept /\ Task(t) => Kept'
<1> SUFFICES ASSUME IInv, Kept, Task(t) PROVE Kept'
  OBVIOUS
<1> USE DEF Goto, UiUnchanged, WindowUnchanged, HandOver, Life!Change, lifeVars, sideVars,
            serviceVars, formVars, IInv, Typed, Kept, FormMatches, Fyne
<1>1. CASE EnterStart(t)
  BY <1>1 DEF EnterStart, Life!Start
<1>2. CASE RefuseStart(t)
  BY <1>2 DEF RefuseStart
<1>3. CASE StartSucceeds(t)
  BY <1>3 DEF StartSucceeds, Life!Up
<1>4. CASE StartFails(t)
  BY <1>4 DEF StartFails, Life!StartFails
<1>5. CASE PersistCredentials(t)
  BY <1>5 DEF PersistCredentials
<1>6. CASE EnterStop(t)
  BY <1>6 DEF EnterStop
<1>7. CASE CheckStop(t)
  BY <1>7 DEF CheckStop, Life!Stop
<1>8. CASE StopReturns(t)
  BY <1>8 DEF StopReturns, Life!Down
<1> QED
  BY <1>1, <1>2, <1>3, <1>4, <1>5, <1>6, <1>7, <1>8 DEF Task

(* While the form can be changed there is no proxy, and none on its way.   *)
LEMMA FormFree ==
  IInv /\ Kept /\ FormEnabled
    => /\ \A t \in Tasks : kind[t] # "start"
       /\ state \in Quiet
  BY DEF IInv, Commands, ShownIsOld, FormEnabled

LEMMA KeptEdit == IInv /\ Kept /\ Edit => Kept'
<1> SUFFICES ASSUME IInv, Kept, Edit PROVE Kept'
  OBVIOUS
<1> USE DEF EditRest, serviceVars, lifeVars, sideVars
<1>1. UNCHANGED <<state, served, captured>>
  BY DEF Edit, Refresh, ToggleAuth, ChooseInterface, EditPort, TypePair, GeneratePair,
         ChangeTheme
<1>2. FewerCalls
  <2>1. Redraw \/ UNCHANGED <<kind, pc>>
    BY DEF Edit, Refresh, ToggleAuth, ChooseInterface, EditPort, TypePair, GeneratePair,
           ChangeTheme
  <2> QED
    BY <2>1, RedrawCalls DEF IInv, FewerCalls
<1>3. CASE FormEnabled
  BY <1>1, <1>2, <1>3, FormFree DEF FewerCalls, Kept
<1>4. CASE ~FormEnabled
  <2>1. UNCHANGED <<toolkit, offered, port, auth>> /\ (Fyne => UNCHANGED <<iface, pair>>)
    BY <1>4 DEF Edit, Refresh, ToggleAuth, ChooseInterface, EditPort, TypePair, GeneratePair,
                ChangeTheme, CredentialsReadOnly, formVars
  <2> QED
    BY <1>1, <1>2, <2>1 DEF Kept, FormMatches, FewerCalls, Fyne
<1> QED
  BY <1>3, <1>4

LEMMA KeptHandlers ==
  /\ IInv /\ Kept /\ (CloseRequest \/ KeepOpen) => Kept'
  /\ \A t \in Tasks :
       /\ IInv /\ Kept
       /\ \/ OnAction(t) \/ FinishOperation(t)
          \/ ConfirmClose(t) \/ CloseWindow(t) \/ Acknowledge(t)
       => Kept'
<1> USE DEF IInv, Typed, Kept, FormMatches, Fyne, serviceVars, lifeVars, sideVars, formVars,
            taskVars
<1>1. ASSUME IInv, Kept, NEW t \in Tasks, OnAction(t) PROVE Kept'
  <2>1. FormMatches(FormConfig)'
    BY <1>1 DEF OnAction, FormConfig, ParseForm
  <2>2. CASE kind'[t] = "start"
    BY <1>1, <2>1, <2>2 DEF OnAction, Spawn, FormConfig, ParseForm
  <2>3. CASE kind'[t] = "stop"
    BY <1>1, <2>3 DEF OnAction, Spawn
  <2> QED
    BY <1>1, <2>2, <2>3 DEF OnAction, Spawn
<1>2. ASSUME IInv, Kept, NEW t \in Tasks, FinishOperation(t) PROVE Kept'
  BY <1>2 DEF FinishOperation, Results
<1>3. ASSUME IInv, Kept, NEW t \in Tasks, ConfirmClose(t) PROVE Kept'
  BY <1>3 DEF ConfirmClose, Spawn, Dismiss
<1>4. ASSUME IInv, Kept, NEW t \in Tasks, CloseWindow(t) \/ Acknowledge(t) PROVE Kept'
  BY <1>4 DEF CloseWindow, Acknowledge
<1>5. ASSUME IInv, Kept, CloseRequest \/ KeepOpen PROVE Kept'
  BY <1>5 DEF CloseRequest, KeepOpen, Dismiss
<1> QED
  BY <1>1, <1>2, <1>3, <1>4, <1>5

LEMMA KeptStep == IInv /\ Kept /\ [Next]_vars => Kept'
<1> SUFFICES ASSUME IInv, Kept, [Next]_vars PROVE Kept'
  OBVIOUS
<1>1. CASE UNCHANGED vars
  BY <1>1 DEF vars, serviceVars, sideVars, lifeVars, taskVars, formVars, Kept, FormMatches, Fyne
<1>2. CASE Launch
  BY <1>2 DEF Launch, LaunchOn, Kept
<1>3. CASE Network
  BY <1>3 DEF Network, Life!Serve, sideVars, UiUnchanged, WindowUnchanged, formVars, Kept,
              FormMatches, Fyne
<1>4. CASE Handlers
  <2>1. ASSUME NEW t \in Tasks,
               \/ OnAction(t) \/ FinishOperation(t)
               \/ ConfirmClose(t) \/ CloseWindow(t) \/ Acknowledge(t)
        PROVE  Kept'
    BY <2>1, KeptHandlers
  <2>2. CASE CloseRequest \/ KeepOpen
    BY <2>2, KeptHandlers
  <2>3. CASE Edit
    BY <2>3, KeptEdit
  <2> QED
    BY <1>4, <2>1, <2>2, <2>3 DEF Handlers, Edit
<1> QED
  BY <1>1, <1>2, <1>3, <1>4, KeptTask DEF Next

(* While the proxy runs, the form shows what it has been started with.     *)
THEOREM ServedShownCorrect == Spec => []ServedShown
<1>1. Init => Kept
  BY DEF Init, Life!Init, Kept
<1>2. Kept => ServedShown
  BY DEF Kept, FormMatches, ServedShown, Running, ServedPairShown, ServedInterfaceShown
<1> QED
  BY <1>1, <1>2, KeptStep, Invariant, PTL DEF Spec
-----------------------------------------------------------------------------
(* What an exit writes                                                     *)

(* Settings that were taken from the form some time ago.                   *)
Agrees(settings) ==
  /\ settings.port = FormSettings.port /\ settings.auth = auth
  /\ Fyne => settings.name = FormSettings.name /\ settings.theme = theme

(* The form is as its dialogs have found it, and what may still change     *)
(* after the last of them is not part of Agrees.                           *)
Captures ==
  /\ theme \in Themes
  /\ dialogs \in Seq({FormSettings})
  /\ \A t \in Tasks : kind[t] = "close" => Agrees(captured[t])
  /\ window = "closed" /\ clean =>
       /\ Agrees(Load(disk))
       /\ ~closing => Load(disk) = FormSettings

LEMMA FormSettingsKnown ==
  /\ PortInRange(FormSettings.port)
  /\ FormSettings = [name |-> FormSettings.name, port |-> FormSettings.port,
                     auth |-> auth, theme |-> theme]
  /\ FormSettings.name = IF iface = 0 THEN NoName ELSE offered[iface].name
  /\ FormSettings.port = IF PortInRange(port) THEN port ELSE DefaultPort
<1>1. PortInRange(DefaultPort)
  BY DEF PortInRange, DefaultPort, MinPort, MaxPort
<1> QED
  BY <1>1, Zenon DEF FormSettings, ReadPersistedSettings

(* What is written can be read again.                                      *)
LEMMA ReadBack ==
  ASSUME NEW settings
  PROVE  theme \in Themes /\ Agrees(settings) =>
           /\ Agrees(Load(Save(settings)))
           /\ settings = FormSettings => Load(Save(settings)) = FormSettings
<1> SUFFICES ASSUME theme \in Themes, Agrees(settings)
             PROVE  /\ Agrees(Load(Save(settings)))
                    /\ settings = FormSettings => Load(Save(settings)) = FormSettings
  OBVIOUS
<1> DEFINE read == Load(Save(settings))
<1>1. /\ read.name = settings.name /\ read.auth = settings.auth
      /\ PortInRange(settings.port) => read.port = settings.port
      /\ settings.theme \in Themes => read.theme = settings.theme
  BY LoadSaved
<1>2. read = [name |-> read.name, port |-> read.port, auth |-> read.auth, theme |-> read.theme]
  BY DEF Load
<1> HIDE DEF read
<1>3. Agrees(read)
  BY <1>1, FormSettingsKnown DEF Agrees
<1>4. settings = FormSettings => read = FormSettings
  BY <1>1, <1>2, FormSettingsKnown
<1> QED
  BY <1>3, <1>4 DEF read

LEMMA ReadBackNext ==
  ASSUME NEW settings
  PROVE  (theme \in Themes /\ Agrees(settings) =>
            /\ Agrees(Load(Save(settings)))
            /\ settings = FormSettings => Load(Save(settings)) = FormSettings)'
  BY ReadBack, PTL

(* The part of the form that does not change while a close is under way.   *)
Stable ==
  /\ UNCHANGED <<toolkit, auth>> /\ FormSettings'.port = FormSettings.port
  /\ Fyne => FormSettings'.name = FormSettings.name /\ theme' = theme

(* An exit with settings that agree with the form, while that stays as it  *)
(* is.                                                                     *)
LEMMA ExitCaptures ==
  ASSUME NEW settings, Agrees(settings), Stable, Exit(settings), theme' \in Themes, clean'
  PROVE  /\ Agrees(Load(disk))'
         /\ settings = FormSettings' => (Load(disk) = FormSettings)'
<1>1. disk' = Save(settings)
  BY DEF Exit
<1>2. Agrees(settings)'
  BY DEF Agrees, Stable, Fyne
<1>3. /\ Agrees(Load(Save(settings)))'
      /\ settings = FormSettings' => Load(Save(settings)) = FormSettings'
  BY <1>2, ReadBackNext
<1> QED
  BY <1>1, <1>3 DEF Agrees

LEMMA FormStays == UNCHANGED formVars => FormSettings' = FormSettings /\ theme' = theme /\ Stable
<1>1. UNCHANGED formVars => FormSettings' = FormSettings
  BY DEF formVars, FormSettings
<1> QED
  BY <1>1 DEF formVars, Stable

LEMMA DialogsStay ==
  Captures => /\ <<>> \in Seq({FormSettings'}) /\ SubSeq(dialogs, 1, Len(dialogs) - 1) \in Seq({FormSettings})
              /\ dialogs # <<>> => dialogs[Len(dialogs)] = FormSettings
  BY DEF Captures

(* A step of an open window that stays open, and starts no close.          *)
NoExit ==
  /\ window' = "open" /\ theme' \in Themes
  /\ dialogs' \in Seq({FormSettings'})
  /\ \A t \in Tasks : kind'[t] = "close" => kind[t] = "close" /\ captured'[t] = captured[t]
  /\ Stable \/ \A t \in Tasks : kind[t] # "close"

LEMMA CapturesNoExit == Captures /\ NoExit => Captures'
<1> SUFFICES ASSUME Captures, NoExit PROVE Captures'
  OBVIOUS
<1>1. ASSUME NEW t \in Tasks, kind'[t] = "close" PROVE Agrees(captured[t])'
  <2>1. Agrees(captured[t]) /\ captured'[t] = captured[t] /\ Stable
    BY <1>1 DEF Captures, NoExit
  <2> QED
    BY <2>1 DEF Agrees, Stable, Fyne
<1> QED
  BY <1>1 DEF Captures, NoExit

LEMMA CapturesTask == ASSUME NEW t \in Tasks PROVE IInv /\ Kept /\ Captures /\ Task(t) => Captures'
<1> SUFFICES ASSUME IInv, Kept, Captures, Task(t) PROVE Captures'
  OBVIOUS
<1>1. window = "open" /\ WindowUnchanged /\ \A u \in Tasks : kind[u] = "close" => captured'[u] = captured[u]
  BY DEF Task, EnterStart, RefuseStart, StartSucceeds, StartFails, PersistCredentials, EnterStop,
         CheckStop, StopReturns, Goto, HandOver, UiUnchanged, WindowUnchanged, Kept
<1>2. NoExit
  BY <1>1, FormStays DEF WindowUnchanged, NoExit, Captures, formVars
<1> QED
  BY <1>2, CapturesNoExit

LEMMA CapturesHandlers ==
  /\ IInv /\ Kept /\ Captures /\ (CloseRequest \/ KeepOpen) => Captures'
  /\ \A t \in Tasks :
       /\ IInv /\ Kept /\ Captures
       /\ \/ OnAction(t) \/ FinishOperation(t)
          \/ ConfirmClose(t) \/ CloseWindow(t) \/ Acknowledge(t)
       => Captures'
<1> USE DEF taskVars
<1>1. ASSUME IInv, Kept, Captures, NEW t \in Tasks, OnAction(t) \/ FinishOperation(t) PROVE Captures'
  <2>1. /\ window = "open" /\ UNCHANGED <<window, dialogs, formVars>>
        /\ \A u \in Tasks : kind'[u] = "close" => kind[u] = "close" /\ captured'[u] = captured[u]
    BY <1>1 DEF OnAction, FinishOperation, Spawn, AtForm, Kept, IInv, Typed
  <2>2. NoExit
    BY <1>1, <2>1, FormStays DEF NoExit, Captures, formVars
  <2> QED
    BY <1>1, <2>2, CapturesNoExit
<1>2. ASSUME IInv, Kept, Captures, NEW t \in Tasks, ConfirmClose(t) PROVE Captures'
  <2>1. /\ window = "open" /\ UNCHANGED <<window, formVars>>
        /\ dialogs' = SubSeq(dialogs, 1, Len(dialogs) - 1)
        /\ kind' = [kind EXCEPT ![t] = "close"]
        /\ captured' = [captured EXCEPT ![t] = dialogs[Len(dialogs)]]
        /\ dialogs # <<>>
    BY <1>2 DEF ConfirmClose, Dismiss, Spawn
  <2>2. FormSettings' = FormSettings /\ theme' = theme /\ Stable
    BY <2>1, FormStays
  <2>3. dialogs[Len(dialogs)] = FormSettings /\ dialogs' \in Seq({FormSettings'})
    BY <1>2, <2>1, <2>2, DialogsStay
  <2>4. ASSUME NEW u \in Tasks, kind'[u] = "close" PROVE Agrees(captured[u])'
    <3>1. CASE u = t
      <4>1. captured'[u] = FormSettings'
        BY <1>2, <2>1, <2>2, <2>3, <3>1 DEF Kept
      <4>2. FormSettings'.auth = auth' /\ FormSettings'.theme = theme'
        BY <2>1, <2>2, FormSettingsKnown DEF formVars
      <4> QED
        BY <4>1, <4>2 DEF Agrees
    <3>2. CASE u # t
      <4>1. Agrees(captured[u]) /\ captured'[u] = captured[u]
        BY <1>2, <2>1, <2>4, <3>2 DEF Kept, IInv, Typed, Captures
      <4> QED
        BY <2>2, <4>1 DEF Agrees, Stable, Fyne
    <3> QED
      BY <3>1, <3>2
  <2> QED
    BY <1>2, <2>1, <2>2, <2>3, <2>4 DEF Captures
<1>3. ASSUME IInv, Kept, Captures, NEW t \in Tasks, CloseWindow(t) \/ Acknowledge(t)
      PROVE  Captures'
  <2>1. /\ UNCHANGED <<formVars, kind, captured, dialogs, closing>> /\ Exit(captured[t])
        /\ window' = "closed" /\ kind[t] = "close" /\ closing
    BY <1>3 DEF CloseWindow, Acknowledge, CloseResults, Exit, IInv, Typed, Closes
  <2>2. FormSettings' = FormSettings /\ theme' = theme /\ Stable
    BY <2>1, FormStays
  <2>3. Agrees(captured[t])
    BY <1>3, <2>1 DEF Captures
  <2>4. clean' => Agrees(Load(disk))'
    BY <1>3, <2>1, <2>2, <2>3, ExitCaptures DEF Captures
  <2>5. \A u \in Tasks : kind[u] = "close" => Agrees(captured[u])'
    BY <1>3, <2>1, <2>2 DEF Captures, Agrees, Stable, Fyne
  <2> QED
    BY <1>3, <2>1, <2>2, <2>4, <2>5 DEF Captures
<1>4. ASSUME IInv, Kept, Captures, KeepOpen PROVE Captures'
  <2>1. /\ window = "open" /\ UNCHANGED <<window, formVars, kind, captured>>
        /\ dialogs' = SubSeq(dialogs, 1, Len(dialogs) - 1)
    BY <1>4 DEF KeepOpen, Dismiss
  <2>2. NoExit
    BY <1>4, <2>1, FormStays, DialogsStay DEF NoExit, Captures, formVars
  <2> QED
    BY <1>4, <2>2, CapturesNoExit
<1>5. ASSUME IInv, Kept, Captures, CloseRequest PROVE Captures'
  <2>1. /\ window = "open" /\ ~closing /\ UNCHANGED <<formVars, kind, captured, closing>>
        /\ \/ dialogs' = Append(dialogs, FormSettings) /\ UNCHANGED <<window, diskVars>>
           \/ Exit(FormSettings) /\ UNCHANGED dialogs
    BY <1>5 DEF CloseRequest
  <2>2. FormSettings' = FormSettings /\ theme' = theme /\ Stable
    BY <2>1, FormStays
  <2>3. dialogs \in Seq({FormSettings}) /\ Append(dialogs, FormSettings) \in Seq({FormSettings})
    BY <1>5 DEF Captures
  <2>4. CASE dialogs' = Append(dialogs, FormSettings) /\ UNCHANGED <<window, diskVars>>
    <3>1. NoExit
      BY <1>5, <2>1, <2>2, <2>3, <2>4 DEF NoExit, Captures
    <3> QED
      BY <1>5, <3>1, CapturesNoExit
  <2>5. CASE Exit(FormSettings) /\ UNCHANGED dialogs
    <3>1. Agrees(FormSettings)
      BY FormSettingsKnown DEF Agrees
    <3>2. clean' => Agrees(Load(disk))' /\ (Load(disk) = FormSettings)'
      BY <1>5, <2>2, <2>5, <3>1, ExitCaptures DEF Captures
    <3>3. \A u \in Tasks : kind[u] = "close" => Agrees(captured[u])'
      BY <1>5, <2>1, <2>2 DEF Captures, Agrees, Stable, Fyne
    <3> QED
      BY <1>5, <2>1, <2>2, <2>3, <2>5, <3>2, <3>3 DEF Captures, Exit
  <2> QED
    BY <2>1, <2>4, <2>5
<1> QED
  BY <1>1, <1>2, <1>3, <1>4, <1>5

(* What redrawing does to the closes: it ends with one, or leaves them.    *)
LEMMA RedrawCloses ==
  Typed /\ Redraw =>
    \/ /\ ~Fyne /\ \E t \in Tasks : kind[t] = "close" /\ Exit(captured[t])
       /\ UNCHANGED kind
    \/ /\ UNCHANGED <<window, diskVars>>
       /\ \A t \in Tasks : kind'[t] = "close" => kind[t] = "close"
<1> SUFFICES ASSUME Typed, Redraw
             PROVE  \/ /\ ~Fyne /\ \E t \in Tasks : kind[t] = "close" /\ Exit(captured[t])
                       /\ UNCHANGED kind
                    \/ /\ UNCHANGED <<window, diskVars>>
                       /\ \A t \in Tasks : kind'[t] = "close" => kind[t] = "close"
  OBVIOUS
<1>1. CASE Drain
  BY <1>1 DEF Drain, Typed, Redraw, CloseResults
<1>2. CASE ~Drain
  BY <1>2 DEF Redraw, CloseResults
<1> QED
  BY <1>1, <1>2

LEMMA CapturesEdit == IInv /\ Captures /\ Edit => Captures'
<1> SUFFICES ASSUME IInv, Captures, Edit PROVE Captures'
  OBVIOUS
<1> USE DEF EditRest
<1>1. window = "open" /\ UNCHANGED <<toolkit, offered, captured, closing, dialogs>>
  BY DEF Edit, Refresh, ToggleAuth, ChooseInterface, EditPort, TypePair, GeneratePair,
         ChangeTheme, AtForm, formVars
<1>2. Redraw \/ UNCHANGED <<kind, window, diskVars>>
  BY DEF Edit, Refresh, ToggleAuth, ChooseInterface, EditPort, TypePair, GeneratePair,
         ChangeTheme
<1>3. theme' \in Themes
  BY DEF Captures, Edit, Refresh, ToggleAuth, ChooseInterface, EditPort, TypePair,
         GeneratePair, ChangeTheme, formVars
<1>4. dialogs' \in Seq({FormSettings'})
  <2>1. dialogs = <<>> \/ UNCHANGED formVars
    BY DEF Edit, Refresh, ToggleAuth, ChooseInterface, EditPort, TypePair, GeneratePair,
           ChangeTheme, AtForm
  <2> QED
    BY <1>1, <2>1, DialogsStay, FormStays DEF Captures
<1>5. ASSUME closing PROVE Stable
  <2>1. ~FormEnabled
    BY <1>5 DEF FormEnabled
  <2>2. UNCHANGED <<toolkit, offered, port, auth>> /\ (Fyne => UNCHANGED <<iface, theme>>)
    BY <1>1, <1>5, <2>1 DEF Edit, Refresh, ToggleAuth, ChooseInterface, EditPort, TypePair,
          GeneratePair, ChangeTheme, formVars
  <2> QED
    BY <2>2 DEF Stable, FormSettings, ReadPersistedSettings
<1>6. \A t \in Tasks : kind[t] = "close" => closing
  BY DEF IInv, Closes
<1>7. CASE /\ UNCHANGED <<window, diskVars>>
           /\ \A t \in Tasks : kind'[t] = "close" => kind[t] = "close"
  <2>1. NoExit
    BY <1>1, <1>3, <1>4, <1>5, <1>6, <1>7 DEF NoExit
  <2> QED
    BY <2>1, CapturesNoExit
<1>8. ASSUME NEW t \in Tasks, kind[t] = "close", Exit(captured[t]), UNCHANGED kind
      PROVE  Captures'
  <2>1. closing /\ Stable /\ Agrees(captured[t])
    BY <1>5, <1>6, <1>8 DEF Captures
  <2>2. clean' => Agrees(Load(disk))'
    BY <1>3, <1>8, <2>1, ExitCaptures
  <2>3. \A u \in Tasks : kind[u] = "close" => Agrees(captured[u])'
    BY <1>1, <2>1 DEF Captures, Agrees, Stable, Fyne
  <2> QED
    BY <1>1, <1>3, <1>4, <1>8, <2>1, <2>2, <2>3 DEF Captures
<1> QED
  BY <1>2, <1>7, <1>8, RedrawCloses DEF IInv

LEMMA CapturesStep == IInv /\ Kept /\ Captures /\ [Next]_vars => Captures'
<1> SUFFICES ASSUME IInv, Kept, Captures, [Next]_vars PROVE Captures'
  OBVIOUS
<1>1. CASE UNCHANGED vars
  <2>1. FormSettings' = FormSettings
    BY <1>1, FormStays DEF vars
  <2> QED
    BY <1>1, <2>1 DEF vars, taskVars, formVars, diskVars, Captures, Agrees, Fyne
<1>2. CASE Launch
  <2>1. /\ window' = "open" /\ dialogs' = <<>> /\ theme' \in Themes
        /\ \A t \in Tasks : kind'[t] = "none"
    BY <1>2, LoadKnown DEF Launch, LaunchOn
  <2> QED
    BY <2>1 DEF Captures
<1>3. CASE Network
  <2>1. window = "open" /\ WindowUnchanged /\ UNCHANGED captured
    BY <1>3 DEF Network, UiUnchanged
  <2>2. NoExit
    BY <2>1, FormStays DEF WindowUnchanged, NoExit, Captures, formVars
  <2> QED
    BY <2>2, CapturesNoExit
<1>4. CASE Handlers
  <2>1. ASSUME NEW t \in Tasks,
               \/ OnAction(t) \/ FinishOperation(t)
               \/ ConfirmClose(t) \/ CloseWindow(t) \/ Acknowledge(t)
        PROVE  Captures'
    BY <2>1, CapturesHandlers
  <2>2. CASE CloseRequest \/ KeepOpen
    BY <2>2, CapturesHandlers
  <2>3. CASE Edit
    BY <2>3, CapturesEdit
  <2> QED
    BY <1>4, <2>1, <2>2, <2>3 DEF Handlers, Edit
<1> QED
  BY <1>1, <1>2, <1>3, <1>4, CapturesTask DEF Next

(* What an exit could write gives the next launch the form as it was: the  *)
(* port, the check box, and, unless the window could still be changed, the *)
(* theme and the interface of that name.                                   *)
THEOREM RestoredCorrect == Spec => RestoredAsClosed
<1> DEFINE Relaunch(list) == LaunchOn(list, list) /\ clean
           Same(list) ==
             /\ port' = IF PortInRange(port) THEN port ELSE DefaultPort
             /\ auth' = auth
             /\ Fyne \/ ~closing =>
                  /\ theme' = theme
                  /\ iface # 0 /\ FirstNamed(list, offered[iface].name) # 0
                       => list[iface'].name = offered[iface].name
<1>1. ASSUME Captures, NEW list \in Enumerations, Relaunch(list) PROVE Same(list)
  <2> DEFINE settings == Load(disk)
  <2>1. /\ Agrees(settings) /\ (~closing => settings = FormSettings)
        /\ iface' = Selected(RestoredName(settings, list), list)
        /\ port' = RestoredPort(settings) /\ auth' = settings.auth
        /\ theme' = settings.theme
    BY <1>1 DEF LaunchOn, Captures
  <2> HIDE DEF settings
  <2>2. port' = FormSettings.port /\ auth' = auth
    BY <2>1, FormSettingsKnown DEF Agrees, RestoredPort, PortInRange, MinPort
  <2>3. ASSUME Fyne \/ ~closing PROVE settings.name = FormSettings.name /\ settings.theme = theme
    BY <2>1, <2>3, FormSettingsKnown DEF Agrees
  <2>4. ASSUME Fyne \/ ~closing, iface # 0, FirstNamed(list, offered[iface].name) # 0
        PROVE  list[iface'].name = offered[iface].name
    BY <2>1, <2>3, <2>4, FormSettingsKnown, NameRestored
  <2> QED
    BY <2>1, <2>2, <2>3, <2>4, FormSettingsKnown
<1>2. Captures /\ [Next]_vars => [\A list \in Enumerations : Relaunch(list) => Same(list)]_vars
  BY <1>1
<1>3. Init => Kept /\ Captures
  BY DefaultThemeKnown DEF Init, Life!Init, Kept, Captures
<1> QED
  BY <1>2, <1>3, KeptStep, CapturesStep, Invariant, PTL DEF Spec, RestoredAsClosed

(* Whatever the file says and whatever the service has found, a new window *)
(* has a form that can be started, if there is an interface and a pair     *)
(* where one is wanted.                                                    *)
THEOREM LaunchIsUsableCorrect == Spec => LaunchIsUsable
<1> DEFINE Opens == window = "closed" /\ window' = "open"
           Usable == FormIsValid' <=> offered' # <<>> /\ (auth' => pair' # NoPair)
<1>1. ASSUME Next, Opens PROVE Launch
  <2>1. ASSUME NEW t \in Tasks, Task(t) PROVE FALSE
    BY <1>1, <2>1 DEF Task, EnterStart, RefuseStart, StartSucceeds, StartFails,
          PersistCredentials, EnterStop, CheckStop, StopReturns, Goto
  <2>2. ASSUME Handlers PROVE FALSE
    BY <1>1, <2>2 DEF Handlers, OnAction, FinishOperation, ConfirmClose, CloseWindow, Acknowledge, Refresh,
          CloseRequest, KeepOpen, ChooseInterface, EditPort, ToggleAuth, TypePair, GeneratePair,
          ChangeTheme, AtForm, Dismiss
  <2> QED
    BY <1>1, <2>1, <2>2 DEF Next, Network
<1>2. ASSUME Launch PROVE Usable
  <2>1. PICK found \in Enumerations, list \in Enumerations : LaunchOn(found, list)
    BY <1>2 DEF Launch
  <2>2. /\ offered' = list /\ port' = RestoredPort(Load(disk))
        /\ iface' = Selected(RestoredName(Load(disk), found), list)
    BY <2>1 DEF LaunchOn
  <2>3. ValidForm(list, Selected(RestoredName(Load(disk), found), list),
                  RestoredPort(Load(disk)), auth', pair')
          <=> list # <<>> /\ (auth' => pair' # NoPair)
    BY RestoredFormIsValid
  <2> QED
    BY <2>2, <2>3 DEF FormIsValid
<1>3. [Next]_vars => [Opens => Usable]_vars
  BY <1>1, <1>2
<1> QED
  BY <1>3, PTL DEF Spec, LaunchIsUsable

-----------------------------------------------------------------------------
(* Types                                                                   *)

FormTypes ==
  /\ toolkit \in Toolkits /\ offered \in Lists
  /\ iface \in 0..Len(offered) /\ (iface = 0 <=> offered = <<>>)
  /\ savedIface \in 0..Len(offered) /\ (savedIface = 0 <=> offered = <<>>)
  /\ port \in Nat /\ auth \in BOOLEAN
  /\ pair \in Pairs \cup {NoPair} /\ theme \in Themes

RestTypes ==
  /\ reachable \in BOOLEAN /\ lateStart \in BOOLEAN /\ closing \in BOOLEAN
  /\ clean \in BOOLEAN /\ shown \in States
  /\ window = "closed" => IsFile(disk)

CaptureTypes ==
  /\ \A t \in Tasks : kind[t] = "close" => captured[t] \in PersistedSettings
  /\ dialogs \in Seq(PersistedSettings) /\ Len(dialogs) <= MaxDialogs

LEMMA FormSettingsTyped == FormTypes => FormSettings \in PersistedSettings
<1> SUFFICES ASSUME FormTypes PROVE FormSettings \in PersistedSettings
  OBVIOUS
<1>1. FormSettings.port \in Nat
  BY FormSettingsKnown, PortsAreNat
<1>2. iface # 0 => offered[iface].name \in Names
  <2>1. offered \in Seq(Interface)
    BY ListsKnown DEF FormTypes, Lists
  <2>2. iface # 0 => iface \in 1..Len(offered) /\ offered[iface] \in Interface
    BY <2>1 DEF FormTypes
  <2> QED
    BY <2>2 DEF Interface
<1> QED
  BY <1>1, <1>2, FormSettingsKnown DEF FormTypes, PersistedSettings

LEMMA ExitTyped ==
  ASSUME NEW settings \in PersistedSettings, Exit(settings)
  PROVE  IsFile(disk') /\ clean' \in BOOLEAN
  BY SavesAreFiles, OldFilesKnown DEF Exit

Types == FormTypes /\ RestTypes /\ CaptureTypes

LEMMA EmptyTyped == <<>> \in Seq(PersistedSettings) /\ Len(<<>>) <= MaxDialogs
<1>1. MaxDialogs \in Nat
  BY DialogsBounded
<1> QED
  BY <1>1

LEMMA LaunchTyped == Types /\ Launch => Types'
<1> SUFFICES ASSUME Types, NEW found \in Enumerations, NEW list \in Enumerations,
                    LaunchOn(found, list)
             PROVE  Types'
  BY DEF Launch
<1> DEFINE settings == Load(disk)
<1>1. /\ offered' = list /\ iface' = Selected(RestoredName(settings, found), list)
      /\ savedIface' = IF list = <<>> THEN 0 ELSE 1
      /\ port' = RestoredPort(settings) /\ auth' = settings.auth /\ theme' = settings.theme
      /\ pair' \in Pairs \cup {NoPair} /\ toolkit' = toolkit
  BY DEF LaunchOn
<1>2. list \in Seq(Interface) /\ list \in Lists
  BY ListsKnown DEF Lists
<1>3. settings \in PersistedSettings
  BY LoadTyped DEF Types, RestTypes, LaunchOn
<1>4. auth' \in BOOLEAN /\ theme' \in Themes /\ port' \in Nat
  <2> HIDE DEF settings
  <2> QED
    BY <1>1, <1>3, PortsAreNat DEF RestoredPort, PersistedSettings
<1>5. iface' \in 0..Len(list) /\ (iface' = 0 <=> list = <<>>)
  BY <1>1, <1>2, SelectedKnown
<1>6. savedIface' \in 0..Len(list) /\ (savedIface' = 0 <=> list = <<>>)
  BY <1>1, <1>2
<1>7. FormTypes'
  BY <1>1, <1>2, <1>4, <1>5, <1>6 DEF Types, FormTypes
<1>8. RestTypes'
  BY DEF LaunchOn, RestTypes
<1>9. CaptureTypes'
  <2>1. dialogs' = <<>> /\ \A t \in Tasks : kind'[t] = "none"
    BY DEF LaunchOn
  <2> QED
    BY <2>1, EmptyTyped DEF CaptureTypes
<1> QED
  BY <1>7, <1>8, <1>9 DEF Types

LEMMA TaskTyped == IInv /\ Kept /\ Types /\ (Network \/ \E t \in Tasks : Task(t)) => Types'
<1> SUFFICES ASSUME IInv, Kept, Types, Network \/ \E t \in Tasks : Task(t) PROVE Types'
  OBVIOUS
<1>1. /\ WindowUnchanged /\ window = "open"
      /\ \A u \in Tasks : kind[u] = "close" => captured'[u] = captured[u]
  BY DEF Task, EnterStart, RefuseStart, StartSucceeds, StartFails, PersistCredentials, EnterStop,
         CheckStop, StopReturns, Network, Goto, HandOver, UiUnchanged, WindowUnchanged, Kept
<1>2. reachable' \in BOOLEAN /\ lateStart' \in BOOLEAN
  BY DEF Types, RestTypes, Task, EnterStart, RefuseStart, StartSucceeds, StartFails,
         PersistCredentials, EnterStop, CheckStop, StopReturns, Network, UiUnchanged,
         Life!Start, Life!Up, Life!StartFails, Life!Stop, Life!Down, Life!Serve, Life!Change,
         lifeVars, sideVars, serviceVars
<1> QED
  BY <1>1, <1>2 DEF WindowUnchanged, formVars, diskVars, Types, FormTypes, RestTypes, CaptureTypes

LEMMA EditTyped == IInv /\ Types /\ Edit => Types'
<1> SUFFICES ASSUME IInv, Types, Edit PROVE Types'
  OBVIOUS
<1> USE DEF EditRest
<1>1. FormTypes'
  <2> USE TypedPortsAreNat DEF Types, FormTypes
  <2>1. CASE Refresh
    BY <2>1 DEF Refresh, formVars
  <2>2. CASE ToggleAuth
    BY <2>2 DEF ToggleAuth
  <2>3. ASSUME NEW i \in 1..Len(offered), ChooseInterface(i) PROVE FormTypes'
    <3>1. i \in 0..Len(offered) /\ i # 0 /\ offered # <<>>
      <4>1. offered \in Seq(Interface)
        BY ListsKnown DEF Lists
      <4> QED
        BY <2>3, <4>1
    <3> QED
      BY <2>3, <3>1 DEF ChooseInterface
  <2>4. ASSUME NEW p \in TypedPorts, EditPort(p) PROVE FormTypes'
    BY <2>4 DEF EditPort
  <2>5. ASSUME NEW k \in Pairs \cup {NoPair}, TypePair(k) \/ GeneratePair(k) PROVE FormTypes'
    BY <2>5 DEF TypePair, GeneratePair
  <2>6. ASSUME NEW m \in Themes, ChangeTheme(m) PROVE FormTypes'
    BY <2>6 DEF ChangeTheme
  <2> QED
    BY <2>1, <2>2, <2>3, <2>4, <2>5, <2>6 DEF Edit
<1>2. UNCHANGED <<serviceVars, captured, closing, dialogs>>
  BY DEF Edit, Refresh, ToggleAuth, ChooseInterface, EditPort, TypePair, GeneratePair,
         ChangeTheme
<1>3. Redraw \/ UNCHANGED <<kind, shown, window, diskVars>>
  BY DEF Edit, Refresh, ToggleAuth, ChooseInterface, EditPort, TypePair, GeneratePair,
         ChangeTheme
<1>4. \/ UNCHANGED <<window, diskVars>>
      \/ \E t \in Tasks : kind[t] = "close" /\ Exit(captured[t])
  BY <1>3 DEF Redraw, CloseResults
<1>5. clean' \in BOOLEAN /\ (window' = "closed" => IsFile(disk'))
  BY <1>4, ExitTyped DEF Types, RestTypes, CaptureTypes, diskVars
<1>6. shown' \in States
  BY <1>3 DEF Redraw, Display, IInv, Typed, Types, RestTypes
<1>7. \A t \in Tasks : kind'[t] = "close" => kind[t] = "close"
  BY <1>3, RedrawCloses DEF IInv
<1> QED
  BY <1>1, <1>2, <1>5, <1>6, <1>7
  DEF Types, RestTypes, CaptureTypes, serviceVars, lifeVars, sideVars

LEMMA HandlersTyped ==
  /\ IInv /\ Kept /\ Types /\ (CloseRequest \/ KeepOpen) => Types'
  /\ \A t \in Tasks :
       /\ IInv /\ Kept /\ Types
       /\ \/ OnAction(t) \/ FinishOperation(t)
          \/ ConfirmClose(t) \/ CloseWindow(t) \/ Acknowledge(t)
       => Types'
<1> USE DEF serviceVars, lifeVars, sideVars, taskVars, diskVars
<1>1. ASSUME Types, UNCHANGED formVars PROVE FormTypes' /\ FormSettings \in PersistedSettings
  BY <1>1, FormSettingsTyped DEF Types, FormTypes, formVars
<1>2. ASSUME Types
      PROVE  /\ SubSeq(dialogs, 1, Len(dialogs) - 1) \in Seq(PersistedSettings)
             /\ Len(SubSeq(dialogs, 1, Len(dialogs) - 1)) <= MaxDialogs
             /\ dialogs # <<>> => dialogs[Len(dialogs)] \in PersistedSettings
             /\ \A s \in PersistedSettings :
                  /\ Append(dialogs, s) \in Seq(PersistedSettings)
                  /\ Len(Append(dialogs, s)) = Len(dialogs) + 1
             /\ dialogs = <<>> => Len(dialogs) = 0
  BY <1>2, DialogsBounded DEF Types, CaptureTypes
<1>3. ASSUME IInv, Kept, Types, NEW t \in Tasks, OnAction(t) \/ FinishOperation(t) PROVE Types'
  <2>1. \A u \in Tasks : kind'[u] = "close" => kind[u] = "close" /\ captured'[u] = captured[u]
    BY <1>3 DEF OnAction, FinishOperation, Spawn, Kept, IInv, Typed
  <2>2. shown' \in States
    BY <1>3 DEF OnAction, FinishOperation, Display, IInv, Typed
  <2> QED
    BY <1>1, <1>3, <2>1, <2>2 DEF OnAction, FinishOperation, Types, RestTypes, CaptureTypes
<1>4. ASSUME IInv, Kept, Types, NEW t \in Tasks, ConfirmClose(t) PROVE Types'
  <2>1. \A u \in Tasks : kind'[u] = "close" => captured'[u] \in PersistedSettings
    BY <1>2, <1>4 DEF ConfirmClose, Dismiss, Spawn, Kept, IInv, Typed, Types, CaptureTypes
  <2> QED
    BY <1>1, <1>2, <1>4, <2>1 DEF ConfirmClose, Dismiss, Types, RestTypes, CaptureTypes
<1>5. ASSUME IInv, Kept, Types, NEW t \in Tasks, CloseWindow(t) \/ Acknowledge(t) PROVE Types'
  <2>1. IsFile(disk') /\ clean' \in BOOLEAN
    BY <1>5, ExitTyped DEF CloseWindow, Acknowledge, CloseResults, IInv, Typed, Types, CaptureTypes
  <2> QED
    BY <1>1, <1>5, <2>1 DEF CloseWindow, Acknowledge, Types, RestTypes, CaptureTypes
<1>6. ASSUME IInv, Kept, Types, KeepOpen PROVE Types'
  BY <1>1, <1>2, <1>6 DEF KeepOpen, Dismiss, Types, RestTypes, CaptureTypes
<1>7. ASSUME IInv, Kept, Types, CloseRequest PROVE Types'
  <2>1. FormTypes' /\ FormSettings \in PersistedSettings
    BY <1>1, <1>7 DEF CloseRequest
  <2>2. CASE dialogs' = Append(dialogs, FormSettings) /\ UNCHANGED <<window, diskVars>>
    <3>1. Len(dialogs) < MaxDialogs
      BY <1>2, <1>7, DialogsBounded DEF CloseRequest
    <3>2. dialogs' \in Seq(PersistedSettings) /\ Len(dialogs') <= MaxDialogs
      BY <1>2, <1>7, <2>1, <2>2, <3>1, DialogsBounded DEF Types, CaptureTypes
    <3> QED
      BY <1>7, <2>1, <2>2, <3>2 DEF CloseRequest, Types, RestTypes, CaptureTypes
  <2>3. CASE Exit(FormSettings) /\ UNCHANGED dialogs
    <3>1. IsFile(disk') /\ clean' \in BOOLEAN
      BY <2>1, <2>3, ExitTyped
    <3> QED
      BY <1>7, <2>1, <2>3, <3>1 DEF CloseRequest, Types, RestTypes, CaptureTypes
  <2> QED
    BY <1>7, <2>2, <2>3 DEF CloseRequest
<1> QED
  BY <1>3, <1>4, <1>5, <1>6, <1>7

LEMMA TypesStep == IInv /\ Kept /\ Types /\ [Next]_vars => Types'
<1> SUFFICES ASSUME IInv, Kept, Types, [Next]_vars PROVE Types'
  OBVIOUS
<1>1. CASE UNCHANGED vars
  BY <1>1 DEF vars, serviceVars, lifeVars, sideVars, taskVars, formVars, diskVars, Types,
              FormTypes, RestTypes, CaptureTypes
<1>2. CASE Handlers
  BY <1>2, HandlersTyped, EditTyped DEF Handlers, Edit
<1> QED
  BY <1>1, <1>2, LaunchTyped, TaskTyped DEF Next

(* Every variable keeps its type, whatever the file says.                  *)
THEOREM TypeCorrect == Spec => []TypeOK
<1>1. Init => Kept /\ Types
  <2> SUFFICES ASSUME Init PROVE Kept /\ Types
    OBVIOUS
  <2>1. Kept
    BY DEF Init, Life!Init, Kept
  <2>2. FormTypes
    <3>1. 0 \in 0..Len(<<>>)
      OBVIOUS
    <3> QED
      BY <3>1, PortsAreNat, DefaultThemeKnown DEF Init, FormTypes, Lists
  <2>3. RestTypes
    BY OldFilesKnown DEF Init, Life!Init, RestTypes
  <2>4. CaptureTypes
    BY EmptyTyped DEF Init, CaptureTypes
  <2> QED
    BY <2>1, <2>2, <2>3, <2>4 DEF Types
<1>2. IInv /\ Types => TypeOK
  BY DEF IInv, Typed, Types, FormTypes, RestTypes, CaptureTypes, TypeOK
<1> QED
  BY <1>1, <1>2, KeptStep, TypesStep, Invariant, PTL DEF Spec

-----------------------------------------------------------------------------
(* Nobody waits in vain                                                    *)

(* What the window shows as under way has a goroutine, wherever that is: it*)
(* waits for a mutex whose holder goes on, holds it in the state that its  *)
(* next step ends, has a result that FinishOperation, CloseWindow or       *)
(* Refresh will take, or has failed to close, and the user is told so.     *)
SomebodyIsAtIt ==
  /\ inFlight # "none" => \E t \in Tasks : kind[t] = inFlight /\ pc[t] # "idle"
  /\ closing => \E t \in Tasks : kind[t] = "close" /\ pc[t] # "idle"
  /\ \A t \in Tasks :
       /\ pc[t] = "starting" => state = "starting"
       /\ pc[t] = "stopping" => state = "stopping"
       /\ pc[t] \in {"done", "failed"} => t \in Results \cup CloseResults
       /\ pc[t] = "box" => closing /\ FailureShown

(* The window never waits for a command or a close that no goroutine works *)
(* on.  What ClickEnds and ConfirmedCloses add is that the goroutines run. *)
THEOREM NobodyWaitsInVain == Spec => []SomebodyIsAtIt
<1>1. IInv => SomebodyIsAtIt
  BY DEF IInv, Typed, Mutex, Commands, Closes, Results, CloseResults, FailureShown, SomebodyIsAtIt
<1> QED
  BY <1>1, Invariant, PTL
=============================================================================
