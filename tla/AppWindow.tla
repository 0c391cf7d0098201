------------------------------ MODULE AppWindow ------------------------------
(***************************************************************************)
(* The program as its user sees it (internal/presentation/windows/window.go*)
(* and internal/presentation/fyneui/fyneui.go): handlers that run one at a *)
(* time on the thread of the user interface, the goroutines they start for *)
(* the commands Start and Stop, the form with its settings, and what an    *)
(* exit leaves in the .ini file for the next launch (Settings).  The two   *)
(* windows are twins; toolkit says which one is meant where they differ.   *)
(*                                                                         *)
(* The application service appears as ProxyLifecycle, which ProxyService   *)
(* implements, behind operationMutex: Start tries it, Stop waits.          *)
(***************************************************************************)
EXTENDS Settings

CONSTANTS
  Toolkits,      \* "fyne", "windows" or both: the windows looked at
  Tasks,         \* goroutines that the window may have under way at once
  OldFiles,      \* what the .ini file may hold from earlier times
  TypedPorts,    \* ports the user may type, 0 for what is no port
  MaxDialogs     \* bound: close dialogs open at once

ASSUME ToolkitsKnown == Toolkits \subseteq {"fyne", "windows"}
ASSUME TypedPortsAreNat == TypedPorts \subseteq Nat
ASSUME OldFilesKnown == \A file \in OldFiles : IsFile(file)
ASSUME DialogsBounded == MaxDialogs \in Nat \ {0}

VARIABLES
  toolkit,
  state, reachable,  \* the service, as a ProxyLifecycle
  served,      \* the configuration of the last Start that got through, until it ends
  kind,        \* what each goroutine was started for
  pc,          \* where it stands
  captured,    \* what it has taken from the form: a configuration or settings
  inFlight,    \* "none", "start" or "stop"
  closing,     \* a close has been confirmed
  dialogs,     \* the close dialogs, each with the settings it has captured
  window,      \* "open" or "closed"
  shown,       \* the state that the window shows
  offered,     \* the interfaces in the list
  iface,       \* the form: the chosen entry of the list, 0 for none,
  port, auth, pair, theme,  \* and the rest of it
  savedIface,  \* savedIfaceIndex, where a locked choice is put back to
  disk,        \* the .ini file, while the window is closed
  clean,       \* history: it is what the exit wanted to write
  lateStart    \* history: a Start reached the service after the close was confirmed

lifeVars == <<state, reachable>>
sideVars == <<served, lateStart>>
serviceVars == <<lifeVars, sideVars>>
taskVars == <<kind, pc, captured>>
formVars == <<toolkit, offered, iface, port, auth, pair, theme, savedIface>>
diskVars == <<disk, clean>>
vars == <<serviceVars, taskVars, inFlight, closing, dialogs, window, shown,
          formVars, diskVars>>

Life == INSTANCE ProxyLifecycle

Fyne == toolkit = "fyne"

States == {"stopped", "starting", "running", "stopping", "error"}
Quiet == {"stopped", "error"}

Nothing == [port |-> 0]

(* readPersistedSettings, and ParseForm of readForm.                       *)
FormSettings == ReadPersistedSettings(offered, iface, port, auth, theme)
FormIsValid == ValidForm(offered, iface, port, auth, pair)
FormConfig == ParseForm(offered, iface, port, auth, pair)

(* The program is not running yet.                                         *)
Init ==
  /\ toolkit \in Toolkits
  /\ disk \in OldFiles /\ clean = FALSE
  /\ Life!Init
  /\ served = Nothing /\ lateStart = FALSE
  /\ kind = [t \in Tasks |-> "none"]
  /\ pc = [t \in Tasks |-> "idle"]
  /\ captured = [t \in Tasks |-> Nothing]
  /\ inFlight = "none" /\ closing = FALSE /\ dialogs = <<>>
  /\ window = "closed" /\ shown = "stopped"
  /\ offered = <<>> /\ iface = 0 /\ savedIface = 0
  /\ port = DefaultPort /\ auth = FALSE /\ pair = NoPair /\ theme = DefaultTheme

(* NewService, Run, applyInitialSettings.  The service has found some      *)
(* interfaces, the window others; the pair is what the keyring gives (see  *)
(* ProxyService).  The file has been read and is not looked at again: here *)
(* it is forgotten.                                                        *)
LaunchOn(found, list) ==
  LET settings == Load(disk) IN
  /\ window = "closed"
  /\ window' = "open" /\ shown' = "stopped"
  /\ state' = "stopped" /\ reachable' = FALSE
  /\ served' = Nothing /\ lateStart' = FALSE
  /\ kind' = [t \in Tasks |-> "none"]
  /\ pc' = [t \in Tasks |-> "idle"]
  /\ captured' = [t \in Tasks |-> Nothing]
  /\ inFlight' = "none" /\ closing' = FALSE /\ dialogs' = <<>>
  /\ offered' = list
  /\ iface' = Selected(RestoredName(settings, found), list)
  /\ savedIface' = IF list = <<>> THEN 0 ELSE 1
  /\ port' = RestoredPort(settings) /\ auth' = settings.auth /\ theme' = settings.theme
  /\ pair' \in Pairs \cup {NoPair}
  /\ disk' = NoFile /\ clean' = FALSE
  /\ UNCHANGED toolkit

Launch == \E found, list \in Enumerations : LaunchOn(found, list)

-----------------------------------------------------------------------------
(* The goroutines, inside the service.                                     *)

(* Where a command holds operationMutex.                                   *)
HoldingPcs == {"starting", "saving", "locked", "stopping"}

MutexFree == \A t \in Tasks : pc[t] \notin HoldingPcs

(* The process ends with its window, and its goroutines with it.           *)
Goto(t, from, to) ==
  window = "open" /\ pc[t] = from /\ pc' = [pc EXCEPT ![t] = to]

Stops == {"stop", "close"}

WindowUnchanged == UNCHANGED <<kind, inFlight, closing, dialogs, window, shown,
                               formVars, diskVars>>

UiUnchanged == WindowUnchanged /\ UNCHANGED captured

HandOver(t) == captured' = [captured EXCEPT ![t] = Nothing]

(* Start: the mutex is tried, the state looked at.  The form has validated *)
(* the configuration before.                                               *)
EnterStart(t) ==
  /\ kind[t] = "start" /\ MutexFree
  /\ Goto(t, "called", "starting")
  /\ Life!Start
  /\ served' = captured[t] /\ HandOver(t)
  /\ lateStart' = (lateStart \/ closing)
  /\ WindowUnchanged

RefuseStart(t) ==
  /\ kind[t] = "start" /\ (~MutexFree \/ state \notin Quiet)
  /\ Goto(t, "called", "done") /\ HandOver(t)
  /\ UNCHANGED serviceVars /\ WindowUnchanged

StartSucceeds(t) ==
  /\ Goto(t, "starting", "saving") /\ Life!Up
  /\ UNCHANGED sideVars /\ UiUnchanged

StartFails(t) ==
  /\ Goto(t, "starting", "done") /\ Life!StartFails
  /\ served' = Nothing
  /\ UNCHANGED lateStart /\ UiUnchanged

(* persistCredentials; Running has been published, the mutex is still held *)
PersistCredentials(t) ==
  /\ Goto(t, "saving", "done")
  /\ UNCHANGED serviceVars /\ UiUnchanged

EnterStop(t) ==
  /\ kind[t] \in Stops /\ MutexFree
  /\ Goto(t, "called", "locked")
  /\ UNCHANGED serviceVars /\ UiUnchanged

(* Stop: there is something to stop only in Running.                       *)
CheckStop(t) ==
  /\ \/ state = "running" /\ Goto(t, "locked", "stopping") /\ Life!Stop
     \/ state # "running" /\ Goto(t, "locked", "done") /\ UNCHANGED lifeVars
  /\ UNCHANGED sideVars /\ UiUnchanged

(* The close wants to know whether it has failed; service.Stop then leaves *)
(* Error.                                                                  *)
StopReturns(t) ==
  /\ Life!Down
  /\ Goto(t, "stopping",
          IF kind[t] = "close" /\ state' = "error" THEN "failed" ELSE "done")
  /\ served' = Nothing
  /\ UNCHANGED lateStart /\ UiUnchanged

(* The port and the clients come and go.                                   *)
Network ==
  /\ window = "open" /\ Life!Serve
  /\ UNCHANGED <<sideVars, pc>> /\ UiUnchanged

Task(t) ==
  \/ EnterStart(t) \/ RefuseStart(t) \/ StartSucceeds(t) \/ StartFails(t)
  \/ PersistCredentials(t) \/ EnterStop(t) \/ CheckStop(t) \/ StopReturns(t)

-----------------------------------------------------------------------------
(* What the window shows.                                                  *)

DisplayPolled(operation, isClosing) == IF isClosing THEN "stopping" ELSE state

(* refresh: a command under way hides the state from before it.            *)
Display(operation, isClosing) ==
  IF isClosing \/ (operation = "stop" /\ state = "running") THEN "stopping"
  ELSE IF operation = "start" /\ state \in Quiet THEN "starting"
  ELSE state

(* MapSnapshot, applySnapshot                                              *)
FormEnabled == shown \in Quiet /\ ~closing

ActionEnabled ==
  /\ shown \in Quiet \cup {"running"} /\ ~closing
  /\ FormEnabled => offered # <<>>

(* The message that a Stop has failed, which Windows shows before it       *)
(* closes, is up until the user has acknowledged it.                       *)
FailureShown == \E t \in Tasks : pc[t] = "box"

(* A dialog or a message keeps the user from everything behind it.         *)
AtForm == window = "open" /\ dialogs = <<>> /\ ~FailureShown

(* The settings are written when the window is gone.  A failure is ignored:*)
(* there is part of what was to be written or, if the file could not even  *)
(* be opened, what it had, whatever that was.                              *)
Exit(settings) ==
  /\ window' = "closed"
  /\ \/ disk' = Save(settings) /\ clean' = TRUE
     \/ disk' \in OldFiles \cup TornSaves(settings) /\ clean' = FALSE

(* The results of the goroutines.  fyne queues a call for each; the other  *)
(* window drains them whenever it refreshes.                               *)
Results == {t \in Tasks : pc[t] = "done" /\ kind[t] \in {"start", "stop"}}

CloseResults == {t \in Tasks : pc[t] \in {"done", "failed"} /\ kind[t] = "close"}

DrainForgets ==
  /\ kind' = [t \in Tasks |-> IF t \in Results THEN "none" ELSE kind[t]]
  /\ pc' = [t \in Tasks |-> IF t \in Results THEN "idle" ELSE pc[t]]
  /\ UNCHANGED inFlight

(* drainResults                                                            *)
Drain ==
  /\ inFlight' = IF \E t \in Results : kind[t] = inFlight THEN "none" ELSE inFlight
  /\ kind' = [t \in Tasks |-> IF t \in Results THEN "none" ELSE kind[t]]
  /\ pc' = [t \in Tasks |-> IF t \in Results THEN "idle" ELSE pc[t]]

(* A result of the close, on Windows, comes before everything else.  If it *)
(* is an error the window stays until a message has been acknowledged, and *)
(* the timer goes on behind that.                                          *)
Redraw ==
  \/ /\ ~Fyne /\ \E t \in CloseResults : pc[t] = "done" /\ Exit(captured[t])
     /\ UNCHANGED <<inFlight, kind, pc, shown>>
  \/ /\ ~Fyne
     /\ \E t \in CloseResults : pc[t] = "failed" /\ pc' = [pc EXCEPT ![t] = "box"]
     /\ UNCHANGED <<inFlight, kind, shown, window, diskVars>>
  \/ /\ Fyne \/ CloseResults = {}
     /\ IF Fyne THEN UNCHANGED <<inFlight, kind, pc>> ELSE Drain
     /\ shown' = Display(inFlight', closing)
     /\ UNCHANGED <<window, diskVars>>

Spawn(t, command, argument) ==
  /\ kind[t] = "none"
  /\ kind' = [kind EXCEPT ![t] = command]
  /\ pc' = [pc EXCEPT ![t] = "called"]
  /\ captured' = [captured EXCEPT ![t] = argument]

-----------------------------------------------------------------------------
(* The handlers.                                                           *)

OnActionUnguarded(t) ==
  /\ AtForm /\ ActionEnabled
  /\ \/ /\ state \in Quiet /\ FormIsValid
        /\ inFlight' = "start" /\ shown' = "starting"
        /\ Spawn(t, "start", FormConfig)
     \/ /\ state = "running"
        /\ inFlight' = "stop" /\ shown' = "stopping"
        /\ Spawn(t, "stop", Nothing)
  /\ UNCHANGED <<serviceVars, closing, dialogs, window, formVars, diskVars>>

(* A click on the action button; without effect while a command is under   *)
(* way, between the states at rest, and (but for a message) if the form    *)
(* does not parse.                                                         *)
OnAction(t) ==
  /\ AtForm /\ ActionEnabled
  /\ ~closing /\ inFlight = "none"
  /\ \/ /\ state \in Quiet /\ FormIsValid
        /\ inFlight' = "start" /\ shown' = "starting"
        /\ Spawn(t, "start", FormConfig)
     \/ /\ state = "running"
        /\ inFlight' = "stop" /\ shown' = "stopping"
        /\ Spawn(t, "stop", Nothing)
  /\ UNCHANGED <<serviceVars, closing, dialogs, window, formVars, diskVars>>

(* finishOperation, queued by fyne.Do; it ends with a refresh.             *)
FinishOperation(t) ==
  /\ Fyne /\ window = "open" /\ t \in Results
  /\ inFlight' = IF inFlight = kind[t] THEN "none" ELSE inFlight
  /\ shown' = Display(inFlight', closing)
  /\ kind' = [kind EXCEPT ![t] = "none"]
  /\ pc' = [pc EXCEPT ![t] = "idle"]
  /\ UNCHANGED <<serviceVars, captured, closing, dialogs, window, formVars, diskVars>>

(* The ticker of the one window, the timer of the other.                   *)
Refresh ==
  /\ window = "open" /\ Redraw
  /\ UNCHANGED <<serviceVars, captured, closing, dialogs, formVars>>

ActiveBySnapshot == state \notin Quiet

(* closeIntercept, WM_CLOSE: is there anything to ask about?               *)
Active == inFlight # "none" \/ state \notin Quiet

(* The settings are read at once.  A message box keeps further requests    *)
(* away, a dialog of fyne does not.                                        *)
CloseRequest ==
  /\ window = "open" /\ ~closing
  /\ IF Fyne THEN Len(dialogs) < MaxDialogs ELSE dialogs = <<>>
  /\ IF Active
       THEN dialogs' = Append(dialogs, FormSettings) /\ UNCHANGED <<window, diskVars>>
       ELSE Exit(FormSettings) /\ UNCHANGED dialogs
  /\ UNCHANGED <<serviceVars, taskVars, inFlight, closing, shown, formVars>>

(* The answers come from the uppermost dialog.                             *)
Dismiss ==
  /\ window = "open" /\ dialogs # <<>>
  /\ dialogs' = SubSeq(dialogs, 1, Len(dialogs) - 1)

KeepOpen ==
  /\ Dismiss
  /\ UNCHANGED <<serviceVars, taskVars, inFlight, closing, window, shown,
                 formVars, diskVars>>

ConfirmWithoutStop(t) ==
  /\ Dismiss
  /\ Exit(dialogs[Len(dialogs)])
  /\ UNCHANGED <<serviceVars, taskVars, inFlight, closing, shown, formVars>>

ConfirmWithoutTask(t) ==
  /\ Dismiss
  /\ closing' = TRUE /\ shown' = "stopping"
  /\ UNCHANGED <<serviceVars, taskVars, inFlight, window, formVars, diskVars>>

ConfirmClose(t) ==
  /\ Dismiss
  /\ closing' = TRUE /\ shown' = "stopping"
  /\ Spawn(t, "close", dialogs[Len(dialogs)])
  /\ UNCHANGED <<serviceVars, inFlight, window, formVars, diskVars>>

(* The Stop has returned, with an error or not; fyne's queued call, which  *)
(* does not wait for the message it shows.                                 *)
CloseWindow(t) ==
  /\ Fyne /\ window = "open" /\ t \in CloseResults
  /\ Exit(captured[t])
  /\ UNCHANGED <<serviceVars, taskVars, inFlight, closing, dialogs, shown, formVars>>

(* The user has seen the message, and the window goes.                     *)
Acknowledge(t) ==
  /\ window = "open" /\ pc[t] = "box"
  /\ Exit(captured[t])
  /\ UNCHANGED <<serviceVars, taskVars, inFlight, closing, dialogs, shown, formVars>>

-----------------------------------------------------------------------------
(* The form.                                                               *)

EditRest == UNCHANGED <<toolkit, offered, serviceVars, captured, closing, dialogs>>

(* Another interface.  fyne disables the list, the other window takes the  *)
(* choice back.                                                            *)
ChooseInterface(i) ==
  /\ AtForm
  /\ \/ FormEnabled /\ iface' = i /\ savedIface' = i /\ Redraw
     \/ /\ ~FormEnabled /\ ~Fyne /\ iface' = savedIface
        /\ UNCHANGED <<savedIface, inFlight, kind, pc, shown, window, diskVars>>
  /\ EditRest /\ UNCHANGED <<port, auth, pair, theme>>

EditPort(p) ==
  /\ AtForm /\ FormEnabled
  /\ port' = p /\ Redraw
  /\ EditRest /\ UNCHANGED <<iface, auth, pair, theme, savedIface>>

(* The check box; the other window takes the change back if it is locked.  *)
ToggleAuth ==
  /\ AtForm /\ FormEnabled
  /\ auth' = ~auth /\ Redraw
  /\ EditRest /\ UNCHANGED <<iface, port, pair, theme, savedIface>>

TypePairAnytime(k) ==
  /\ AtForm /\ auth /\ ~closing
  /\ pair' = k
  /\ EditRest
  /\ UNCHANGED <<iface, port, auth, theme, savedIface, inFlight, kind, pc, shown,
                 window, diskVars>>

(* MapAuthControlState says when the pair can be edited and when it is to  *)
(* be read only.  The other window makes the fields read-only whenever     *)
(* they are not CredentialsEnabled, and never else.                        *)
CredentialsEnabled == auth /\ ~closing
CredentialsReadOnly == CredentialsEnabled /\ ~FormEnabled

TypePair(k) ==
  /\ AtForm /\ CredentialsEnabled
  /\ Fyne => ~CredentialsReadOnly
  /\ pair' = k
  /\ EditRest
  /\ UNCHANGED <<iface, port, auth, theme, savedIface, inFlight, kind, pc, shown,
                 window, diskVars>>

(* generateCredentials                                                     *)
GeneratePair(k) ==
  /\ AtForm /\ auth /\ FormEnabled
  /\ k # NoPair /\ pair' = k
  /\ EditRest
  /\ UNCHANGED <<iface, port, auth, theme, savedIface, inFlight, kind, pc, shown,
                 window, diskVars>>

(* changeTheme; fyne disables it once the window is closing.               *)
ChangeTheme(m) ==
  /\ AtForm /\ theme # m
  /\ Fyne => ~closing
  /\ theme' = m /\ Redraw
  /\ EditRest /\ UNCHANGED <<iface, port, auth, pair, savedIface>>

-----------------------------------------------------------------------------
Handlers ==
  \/ \E t \in Tasks : \/ OnAction(t) \/ FinishOperation(t)
                      \/ ConfirmClose(t) \/ CloseWindow(t) \/ Acknowledge(t)
  \/ Refresh \/ CloseRequest \/ KeepOpen
  \/ \E i \in 1..Len(offered) : ChooseInterface(i)
  \/ \E p \in TypedPorts : EditPort(p)
  \/ ToggleAuth
  \/ \E k \in Pairs \cup {NoPair} : TypePair(k) \/ GeneratePair(k)
  \/ \E m \in Themes : ChangeTheme(m)

Next == Launch \/ Handlers \/ Network \/ \E t \in Tasks : Task(t)

(* Goroutines run and the calls they queue are made; the timer ticks.      *)
(* Strong fairness makes a difference in two places: sync.Mutex gives a    *)
(* waiter its turn, and a server that stops loses its port and its clients *)
(* for good (ProxyServer).  The user does not have to answer, neither a     *)
(* question nor a message.                                                 *)
Goroutine(t) == Task(t) \/ FinishOperation(t) \/ CloseWindow(t)

Fairness ==
  /\ \A t \in Tasks : SF_vars(Goroutine(t))
  /\ WF_vars(Refresh)
  /\ WF_vars(state = "stopping" /\ Network /\ ~reachable')

Spec == Init /\ [][Next]_vars

FairSpec == Spec /\ Fairness

-----------------------------------------------------------------------------
Lists == Enumerations \cup {<<>>}

TypeOK ==
  /\ toolkit \in Toolkits
  /\ state \in States /\ reachable \in BOOLEAN /\ lateStart \in BOOLEAN
  /\ kind \in [Tasks -> {"none", "start", "stop", "close"}]
  /\ pc \in [Tasks -> {"idle", "called", "done", "failed", "box"} \cup HoldingPcs]
  /\ \A t \in Tasks : /\ pc[t] = "idle" <=> kind[t] = "none"
                      /\ pc[t] \in {"failed", "box"} => kind[t] = "close"
  /\ \A t \in Tasks : kind[t] = "close" => captured[t] \in PersistedSettings
  /\ inFlight \in {"none", "start", "stop"} /\ closing \in BOOLEAN
  /\ dialogs \in Seq(PersistedSettings) /\ Len(dialogs) <= MaxDialogs
  /\ window \in {"open", "closed"} /\ shown \in States
  /\ offered \in Lists
  /\ iface \in 0..Len(offered) /\ (iface = 0 <=> offered = <<>>)
  /\ savedIface \in 0..Len(offered) /\ (savedIface = 0 <=> offered = <<>>)
  /\ port \in Nat /\ auth \in BOOLEAN
  /\ pair \in Pairs \cup {NoPair} /\ theme \in Themes
  /\ clean \in BOOLEAN

(* A goroutine with a command of the action button exists exactly as long  *)
(* as inFlight says so: a second click never starts a second command.      *)
OneCommand ==
  LET commands == {t \in Tasks : kind[t] \in {"start", "stop"}} IN
  window = "open" =>
    IF inFlight = "none" THEN commands = {}
    ELSE \E t \in Tasks : commands = {t} /\ kind[t] = inFlight

(* Although the window polls, it never says Stopped or Error while the     *)
(* proxy can be reached.                                                   *)
ShownQuietIsQuiet == window = "open" /\ shown \in Quiet => ~reachable

(* The window closes without a question only if nothing is reachable and   *)
(* no command is on its way to the service.                                *)
NoSilentExit ==
  [][window' = "closed" /\ window = "open" /\ ~closing
       => ~reachable /\ \A t \in Tasks : kind[t] = "none"]_vars

(* When the window is gone the proxy has been stopped, unless a Start that *)
(* was clicked before the close slipped in behind the Stop.                *)
ExitLeavesOnlyALateStart ==
  window = "closed" /\ ~lateStart => state \in Quiet /\ ~reachable

Running == window = "open" /\ state = "running"

ServedPairShown == Running /\ auth => pair = served.pair

ServedInterfaceShown == Running => offered[iface] = served.interface

(* While the proxy runs, the form shows what it has been started with: what*)
(* the user copies is what works.  On Windows, where the controls stay     *)
(* enabled, this much of it.                                               *)
ServedShown ==
  /\ Running => port = served.port /\ auth = served.auth
  /\ Fyne => ServedPairShown /\ ServedInterfaceShown

(* An exit that could write its file is undone by the next launch: the port*)
(* (if it was one), the check box, the theme and the interface, by its     *)
(* name, if there still is one of that name.  On Windows the last two may  *)
(* change between the question and the end of the window.                  *)
RestoredAsClosed ==
  [][\A list \in Enumerations :
       LaunchOn(list, list) /\ clean =>
         /\ port' = IF PortInRange(port) THEN port ELSE DefaultPort
         /\ auth' = auth
         /\ Fyne \/ ~closing =>
              /\ theme' = theme
              /\ iface # 0 /\ FirstNamed(list, offered[iface].name) # 0
                   => list[iface'].name = offered[iface].name]_vars

(* Whatever the file holds, whatever interfaces the service has found: the *)
(* form of a new window can be started as soon as there is an interface    *)
(* and, if it is wanted, a pair.                                           *)
LaunchIsUsable ==
  [][window = "closed" /\ window' = "open"
       => (FormIsValid' <=> offered' # <<>> /\ (auth' => pair' # NoPair))]_vars

(* A click is followed by the end of its command, or of the program.       *)
ClickEnds == inFlight # "none" ~> inFlight = "none" \/ window = "closed"

(* A confirmed close closes the window, whatever is under way; on Windows, *)
(* if its Stop has failed, it comes as far as the message that says so and *)
(* then waits for the user, for as long as that takes.                     *)
ConfirmedCloses == closing ~> window = "closed" \/ (~Fyne /\ FailureShown)

-----------------------------------------------------------------------------
(* What the repository says of the program, and the code does not do: on   *)
(* Windows ServedPairShown and ServedInterfaceShown, and for both          *)

(* docs/flows/proxy-lifecycle.md: the process ends only after the cleanup. *)
ExitsAfterCleanup == window = "closed" => ~reachable
=============================================================================
