---------------------------- MODULE ProxyService ----------------------------
(***************************************************************************)
(* application.Service (internal/application/service.go): the commands     *)
(* Start and Stop, serialised by operationMutex (Start only tries it, Stop *)
(* waits for it), the snapshot they publish, the proxy server they own (a  *)
(* ServerContract, which ProxyServer implements) and the credential pair   *)
(* they keep in the system's keyring.                                      *)
(*                                                                         *)
(* Every goroutine of the user interface may call either command at any    *)
(* moment, and the process may be ended and launched again between any two *)
(* steps; only the keyring survives that.                                  *)
(***************************************************************************)
EXTENDS FiniteSets

CONSTANTS
  Callers,   \* the goroutines that call Start and Stop
  Nobody,    \* operationMutex is free
  Pairs,     \* credential pairs
  NoPair,    \* authentication is off, or the keyring has no entry
  Conns      \* client connections

ASSUME NobodyOutside == Nobody \notin Callers
ASSUME NoPairOutside == NoPair \notin Pairs

(* proxy.Config, as far as the service looks at it: whether Validate       *)
(* accepts it, and the pair it asks for.                                   *)
Config == [valid : BOOLEAN, pair : Pairs \cup {NoPair}]

NoConfig == [valid |-> FALSE, pair |-> NoPair]

VARIABLES
  mutex,       \* who holds operationMutex
  state,       \* snapshot.State
  server,      \* Service.server # nil
  available,   \* credentialStoreAvailable
  loaded,      \* loadedCredentials, NoPair if hasLoadedCredentials is false
  pc,          \* where each caller stands
  config,      \* the argument of each Start
  phase, bound, live,  \* the newest proxy server
  stored,      \* the keyring's entry
  loadFailed,  \* history: Load failed when the process was launched
  lastFailed,  \* history: the last Save or Delete since then failed
  expected,    \* history: the pair of the last Start that succeeded
  uncertain    \* history: it was not followed by a successful Save or Delete

serverVars == <<phase, bound, live>>
storeVars == <<available, loaded, stored, loadFailed, lastFailed, expected, uncertain>>
vars == <<mutex, state, server, available, loaded, pc, config, phase, bound, live,
          stored, loadFailed, lastFailed, expected, uncertain>>

Contract == INSTANCE ServerContract

States == {"stopped", "starting", "running", "stopping", "error"}

Pcs == {"idle", "check", "factory", "start", "listening", "cleanup", "up", "persist",
        "record", "lock", "checkStop", "stop", "stopping", "failStart", "unlock",
        "unlockStop"}

(* NewService: the snapshot is Stopped; the pair is read from the keyring. *)
LoadCredentials ==
  \/ available' = TRUE /\ loaded' = stored /\ loadFailed' = FALSE
  \/ available' = FALSE /\ loaded' = NoPair /\ loadFailed' = TRUE

Init ==
  /\ mutex = Nobody /\ state = "stopped" /\ server = FALSE
  /\ stored \in Pairs \cup {NoPair}
  /\ loadFailed \in BOOLEAN
  /\ available = ~loadFailed
  /\ loaded = IF loadFailed THEN NoPair ELSE stored
  /\ pc = [p \in Callers |-> "idle"]
  /\ config = [p \in Callers |-> NoConfig]
  /\ phase = "none" /\ bound = FALSE /\ live = {}
  /\ lastFailed = FALSE /\ expected = stored /\ uncertain = FALSE

Goto(p, from, to) == pc[p] = from /\ pc' = [pc EXCEPT ![p] = to]

Publish(newState, hasServer) == state' = newState /\ server' = hasServer

-----------------------------------------------------------------------------
(* Start                                                                   *)

StartWithoutTry(p, cfg) ==
  /\ Goto(p, "idle", "check")
  /\ mutex' = p
  /\ config' = [config EXCEPT ![p] = cfg]
  /\ UNCHANGED <<state, server, serverVars, storeVars>>

(* TryLock; a Start that finds the mutex taken is refused on the spot.     *)
CallStart(p, cfg) ==
  /\ mutex = Nobody
  /\ Goto(p, "idle", "check")
  /\ mutex' = p
  /\ config' = [config EXCEPT ![p] = cfg]
  /\ UNCHANGED <<state, server, serverVars, storeVars>>

CheckStartIgnoresState(p) ==
  /\ \/ config[p].valid
          /\ Goto(p, "check", "factory") /\ Publish("starting", FALSE)
     \/ ~config[p].valid
          /\ Goto(p, "check", "unlock") /\ Publish("error", FALSE)
  /\ UNCHANGED <<mutex, config, serverVars, storeVars>>

(* The state decides, then Validate; only then Starting is published.      *)
CheckStart(p) ==
  /\ \/ /\ state \notin {"stopped", "error"}
        /\ Goto(p, "check", "unlock") /\ UNCHANGED <<state, server>>
     \/ /\ state \in {"stopped", "error"} /\ ~config[p].valid
        /\ Goto(p, "check", "unlock") /\ Publish("error", FALSE)
     \/ /\ state \in {"stopped", "error"} /\ config[p].valid
        /\ Goto(p, "check", "factory") /\ Publish("starting", FALSE)
  /\ UNCHANGED <<mutex, config, serverVars, storeVars>>

(* serverFactory returns a new server, or fails.                           *)
Factory(p) ==
  /\ \/ /\ Goto(p, "factory", "start")
        /\ phase' = "new" /\ bound' = FALSE /\ live' = {}
     \/ /\ Goto(p, "factory", "failStart")
        /\ UNCHANGED serverVars
  /\ UNCHANGED <<mutex, state, server, config, storeVars>>

(* server.Start, up to its return: the port is bound, or it is not.        *)
StartServer(p) ==
  /\ Goto(p, "start", "listening")
  /\ Contract!Move("new", "starting")
  /\ UNCHANGED <<mutex, state, server, config, storeVars>>

ServerBinds(p) ==
  /\ pc[p] = "listening"
  /\ Contract!Bind
  /\ UNCHANGED <<mutex, state, server, pc, config, storeVars>>

ServerStarted(p) ==
  /\ bound /\ Goto(p, "listening", "up") /\ Contract!Move("starting", "running")
  /\ UNCHANGED <<mutex, state, server, config, storeVars>>

ServerFailed(p) ==
  /\ ~bound /\ Goto(p, "listening", "cleanup") /\ Contract!Move("starting", "stopped")
  /\ UNCHANGED <<mutex, state, server, config, storeVars>>

(* The clean-up Stop of a server that failed to start finds it stopped.    *)
Cleanup(p) ==
  /\ Goto(p, "cleanup", "failStart")
  /\ phase = "stopped"
  /\ UNCHANGED <<mutex, state, server, config, serverVars, storeVars>>

FailStartKeepsLock(p) ==
  /\ Goto(p, "failStart", "idle")
  /\ Publish("error", FALSE)
  /\ UNCHANGED <<mutex, config, serverVars, storeVars>>

FailStartInSilence(p) ==
  /\ Goto(p, "failStart", "unlock")
  /\ UNCHANGED <<mutex, state, server, config, serverVars, storeVars>>

FailStart(p) ==
  /\ Goto(p, "failStart", "unlock")
  /\ Publish("error", FALSE)
  /\ UNCHANGED <<mutex, config, serverVars, storeVars>>

(* Running is published, the server is owned from now on.                  *)
PublishForgetsServer(p) ==
  /\ Goto(p, "up", "persist")
  /\ Publish("running", FALSE)
  /\ expected' = config[p].pair /\ uncertain' = TRUE
  /\ UNCHANGED <<mutex, config, serverVars, available, loaded, stored, loadFailed, lastFailed>>

PublishRunning(p) ==
  /\ Goto(p, "up", "persist")
  /\ Publish("running", TRUE)
  /\ expected' = config[p].pair /\ uncertain' = TRUE
  /\ UNCHANGED <<mutex, config, serverVars, available, loaded, stored, loadFailed, lastFailed>>

PersistOnlyWithAuth(p) ==
  /\ \/ /\ Goto(p, "persist", "unlock")
        /\ stored' = IF config[p].pair = NoPair THEN stored ELSE config[p].pair
        /\ lastFailed' = FALSE /\ uncertain' = FALSE
     \/ /\ Goto(p, "persist", "record")
        /\ lastFailed' = TRUE /\ uncertain' = TRUE
        /\ stored' \in {stored, config[p].pair}
  /\ UNCHANGED <<mutex, state, server, config, serverVars, available, loaded,
                 loadFailed, expected>>

(* persistCredentials: Save with authentication on, Delete with it off.  A *)
(* keyring that reports an error may have done its work all the same.      *)
Persist(p) ==
  /\ \/ /\ Goto(p, "persist", "unlock")
        /\ stored' = config[p].pair
        /\ lastFailed' = FALSE /\ uncertain' = FALSE
     \/ /\ Goto(p, "persist", "record")
        /\ lastFailed' = TRUE /\ uncertain' = TRUE
        /\ stored' \in {stored, config[p].pair}
  /\ UNCHANGED <<mutex, state, server, config, serverVars, available, loaded,
                 loadFailed, expected>>

RecordFailure(p) ==
  /\ Goto(p, "record", "unlock")
  /\ available' = FALSE
  /\ UNCHANGED <<mutex, state, server, config, serverVars, loaded, stored,
                 loadFailed, lastFailed, expected, uncertain>>

(* The deferred Unlock, and the return.                                    *)
Unlock(p) ==
  /\ \E from \in {"unlock", "unlockStop"} : Goto(p, from, "idle")
  /\ mutex' = Nobody
  /\ config' = [config EXCEPT ![p] = NoConfig]
  /\ UNCHANGED <<state, server, serverVars, storeVars>>

-----------------------------------------------------------------------------
(* Stop                                                                    *)

CallStop(p) ==
  /\ Goto(p, "idle", "lock")
  /\ UNCHANGED <<mutex, state, server, config, serverVars, storeVars>>

LockStopOrGiveUp(p) ==
  /\ \/ mutex = Nobody /\ Goto(p, "lock", "checkStop") /\ mutex' = p
     \/ mutex # Nobody /\ Goto(p, "lock", "unlockStop") /\ UNCHANGED mutex
  /\ UNCHANGED <<state, server, config, serverVars, storeVars>>

(* Lock waits, without regard to the context.                              *)
LockStop(p) ==
  /\ mutex = Nobody
  /\ Goto(p, "lock", "checkStop")
  /\ mutex' = p
  /\ UNCHANGED <<state, server, config, serverVars, storeVars>>

CheckStop(p) ==
  /\ \/ /\ state # "running"
        /\ Goto(p, "checkStop", "unlockStop") /\ UNCHANGED <<state, server>>
     \/ /\ state = "running" /\ ~server
        /\ Goto(p, "checkStop", "unlockStop") /\ Publish("error", FALSE)
     \/ /\ state = "running" /\ server
        /\ Goto(p, "checkStop", "stop") /\ Publish("stopping", TRUE)
  /\ UNCHANGED <<mutex, config, serverVars, storeVars>>

(* server.Stop: the only caller, so it is the one that shuts down.         *)
StopServer(p) ==
  /\ Goto(p, "stop", "stopping")
  /\ Contract!Move("running", "stopping")
  /\ UNCHANGED <<mutex, state, server, config, storeVars>>

ServerDown(p) ==
  /\ pc[p] = "stopping" /\ ~bound /\ live = {}
  /\ Contract!Move("stopping", "stopped")
  /\ UNCHANGED <<mutex, state, server, pc, config, storeVars>>

(* It returns with or without an error: Stopped or Error is published, and *)
(* the server is given up either way.                                      *)
PublishStopped(p) ==
  /\ Goto(p, "stopping", "unlockStop")
  /\ phase = "stopped"
  /\ \E outcome \in {"stopped", "error"} : Publish(outcome, FALSE)
  /\ UNCHANGED <<mutex, config, serverVars, storeVars>>

-----------------------------------------------------------------------------
(* The server on its own: clients come and go, accepting may fail for good *)
(* and its Stop frees the port.                                            *)
ServerWorks ==
  /\ \/ \E c \in Conns : Contract!Admit(c) \/ (c \in live /\ Contract!Leave({c}))
     \/ Contract!FreePort
  /\ UNCHANGED <<mutex, state, server, pc, config, storeVars>>

(* The process ends at any point, and is launched again.                   *)
Relaunch ==
  /\ mutex' = Nobody /\ Publish("stopped", FALSE)
  /\ LoadCredentials
  /\ pc' = [p \in Callers |-> "idle"]
  /\ config' = [p \in Callers |-> NoConfig]
  /\ phase' = "none" /\ bound' = FALSE /\ live' = {}
  /\ lastFailed' = FALSE
  /\ UNCHANGED <<stored, expected, uncertain>>

Start(p) ==
  \/ \E cfg \in Config : CallStart(p, cfg)
  \/ CheckStart(p) \/ Factory(p) \/ StartServer(p) \/ ServerBinds(p)
  \/ ServerStarted(p) \/ ServerFailed(p) \/ Cleanup(p) \/ FailStart(p)
  \/ PublishRunning(p) \/ Persist(p) \/ RecordFailure(p)

Stop(p) == CallStop(p) \/ LockStop(p) \/ CheckStop(p) \/ StopServer(p)
             \/ ServerDown(p) \/ PublishStopped(p)

Next ==
  \/ \E p \in Callers : Start(p) \/ Stop(p) \/ Unlock(p)
  \/ ServerWorks
  \/ Relaunch

(* Goroutines that can run do; sync.Mutex gives a waiter its turn; server  *)
(* and keyring answer; a server told to stop frees its port and closes its *)
(* connections (ProxyServer: StopReturns).  The process is not obliged to *)
(* end.                                                                    *)
Fairness ==
  /\ \A p \in Callers :
       /\ WF_vars(pc[p] # "idle" /\ (Start(p) \/ Unlock(p)))
       /\ WF_vars(CheckStop(p)) /\ WF_vars(StopServer(p))
       /\ WF_vars(ServerDown(p)) /\ WF_vars(PublishStopped(p))
       /\ SF_vars(LockStop(p))
  /\ WF_vars(phase = "stopping" /\ Contract!FreePort
               /\ UNCHANGED <<mutex, state, server, pc, config, storeVars>>)
  /\ \A c \in Conns :
       WF_vars(phase = "stopping" /\ ~bound /\ c \in live /\ Contract!Leave({c})
                 /\ UNCHANGED <<mutex, state, server, pc, config, storeVars>>)

Spec == Init /\ [][Next]_vars

FairSpec == Spec /\ Fairness

-----------------------------------------------------------------------------
TypeOK ==
  /\ mutex \in Callers \cup {Nobody}
  /\ state \in States /\ server \in BOOLEAN
  /\ available \in BOOLEAN /\ loaded \in Pairs \cup {NoPair}
  /\ pc \in [Callers -> Pcs] /\ config \in [Callers -> Config]
  /\ phase \in {"none", "new", "starting", "running", "stopping", "stopped"}
  /\ bound \in BOOLEAN /\ live \subseteq Conns
  /\ stored \in Pairs \cup {NoPair} /\ expected \in Pairs \cup {NoPair}
  /\ loadFailed \in BOOLEAN /\ lastFailed \in BOOLEAN /\ uncertain \in BOOLEAN
  /\ \A p \in Callers : mutex = p <=> pc[p] \notin {"idle", "lock"}

(* Between commands the snapshot is at rest, says Running exactly when a   *)
(* server runs, and owns that server; otherwise no server holds the port.  *)
AtRest ==
  mutex = Nobody =>
    \/ state = "running" /\ server /\ phase = "running"
    \/ state \in {"stopped", "error"} /\ ~server /\ phase \in {"none", "stopped"}

(* The program is never reachable while the window says Stopped or Error,  *)
(* when it lets itself be closed without a question.                       *)
QuietWhenShownQuiet ==
  state \in {"stopped", "error"} => ~bound /\ live = {}

(* A Stop that is about to return has left no proxy behind, also if it was *)
(* called while a Start was under way, or if the server's Stop failed.     *)
StopLeavesNothing ==
  \A p \in Callers :
    pc[p] = "unlockStop" => state \in {"stopped", "error"} /\ ~server /\ ~bound /\ live = {}

(* The keyring changes only after a Start that succeeded: a failed one     *)
(* does not lose the pair of an earlier session.                           *)
FailedStartKeepsStore == [][stored' # stored => state = "running"]_vars

(* Unless the keyring failed or the process died in between, the entry is  *)
(* the pair of the last Start that succeeded, and none if that one was     *)
(* without authentication.                                                 *)
StoreFollowsStart == mutex = Nobody /\ ~uncertain => stored = expected

(* A Stop returns, whatever command it has to wait for.                    *)
StopReturns == \A p \in Callers : pc[p] = "lock" ~> pc[p] = "idle"

(* No command leaves the window in Starting or Stopping for ever.          *)
ComesToRest == state \in {"starting", "stopping"} ~> state \in {"stopped", "running", "error"}

Life == INSTANCE ProxyLifecycle WITH reachable <- (bound \/ live # {})

(* What the window shows and what the network sees agree at every moment.  *)
LifeSpec == Life!Spec

-----------------------------------------------------------------------------
(* What the repository says of the program, and the code does not do.      *)

(* The comment of CredentialStoreAvailable: it is false only if Load       *)
(* failed at the start or the last Save or Delete did.                     *)
UnavailableMeansFailing == ~available => loadFailed \/ lastFailed

=============================================================================
