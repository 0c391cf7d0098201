------------------------- MODULE ProxyServiceProofs -------------------------
(***************************************************************************)
(* Theorems about ProxyService, for any number of callers, pairs and       *)
(* connections.                                                            *)
(***************************************************************************)
EXTENDS ProxyService, TLAPS

Off == phase \in {"none", "stopped"} /\ ~bound /\ live = {}

Rest ==
  \/ state = "running" /\ server /\ phase = "running"
  \/ state \in {"stopped", "error"} /\ ~server /\ Off

(* What the holder of the mutex knows at each of its places.  The state it *)
(* has published runs ahead of the server when it starts and behind it     *)
(* when it stops, and never the other way round.                           *)
HolderKnows(p) ==
  /\ pc[p] \in {"check", "checkStop", "unlock", "unlockStop"} => Rest
  /\ pc[p] = "unlockStop" => state \in {"stopped", "error"}
  /\ pc[p] \in {"factory", "start", "listening", "cleanup", "up", "failStart"} =>
       state = "starting" /\ ~server
  /\ pc[p] \in {"factory", "failStart", "cleanup"} => Off
  /\ pc[p] = "start" => phase = "new" /\ ~bound /\ live = {}
  /\ pc[p] = "cleanup" => phase = "stopped"
  /\ pc[p] = "listening" => phase = "starting" /\ live = {}
  /\ pc[p] = "up" => phase = "running"
  /\ pc[p] \in {"persist", "record"} => state = "running" /\ server /\ phase = "running"
  /\ pc[p] \in {"stop", "stopping"} => state = "stopping" /\ server
  /\ pc[p] = "stop" => phase = "running"
  /\ pc[p] = "stopping" => phase = "stopping" \/ (Off /\ phase = "stopped")

Knowledge ==
  /\ mutex = Nobody => Rest
  /\ \A p \in Callers : HolderKnows(p)

IInv == TypeOK /\ Knowledge

LEMMA NoConfigIsConfig == NoConfig \in Config
  BY DEF NoConfig, Config

LEMMA InitIInv == Init => IInv
  <1> SUFFICES ASSUME Init PROVE IInv
    OBVIOUS
  <1>1. TypeOK
    BY NoConfigIsConfig, NobodyOutside DEF Init, TypeOK, States, Pcs
  <1>2. Knowledge
    BY DEF Init, Knowledge, HolderKnows, Rest, Off
  <1> QED
    BY <1>1, <1>2 DEF IInv

LEMMA NextTypeOK == TypeOK /\ [Next]_vars => TypeOK'
  <1> SUFFICES ASSUME TypeOK, [Next]_vars PROVE TypeOK'
    OBVIOUS
  <1> USE NoConfigIsConfig, NobodyOutside, NoPairOutside
      DEF TypeOK, States, Pcs, serverVars, storeVars, Publish
  <1>1. ASSUME NEW p \in Callers, Start(p) PROVE TypeOK'
    <2>1. ASSUME NEW cfg \in Config, CallStart(p, cfg) PROVE TypeOK'
      BY <2>1 DEF CallStart, Goto
    <2>2. CASE CheckStart(p)
      <3>1. PICK to \in Pcs \ {"idle", "lock"} :
              pc[p] \notin {"idle", "lock"} /\ pc' = [pc EXCEPT ![p] = to]
        BY <2>2 DEF CheckStart, Goto
      <3>2. UNCHANGED <<mutex, config>>
        BY <2>2 DEF CheckStart
      <3>3. /\ state' \in States /\ server' \in BOOLEAN
            /\ UNCHANGED <<available, loaded, loadFailed, lastFailed, expected, uncertain, stored>>
        BY <2>2 DEF CheckStart
      <3>4. /\ phase' \in {"none", "new", "starting", "running", "stopping", "stopped"}
            /\ bound' \in BOOLEAN /\ live' \subseteq Conns
        BY <2>2 DEF CheckStart
      <3> QED
        BY <3>1, <3>2, <3>3, <3>4
    <2>3. CASE Factory(p)
      <3>1. PICK to \in Pcs \ {"idle", "lock"} :
              pc[p] \notin {"idle", "lock"} /\ pc' = [pc EXCEPT ![p] = to]
        BY <2>3 DEF Factory, Goto
      <3>2. UNCHANGED <<mutex, config>>
        BY <2>3 DEF Factory
      <3>3. /\ state' \in States /\ server' \in BOOLEAN
            /\ UNCHANGED <<available, loaded, loadFailed, lastFailed, expected, uncertain, stored>>
        BY <2>3 DEF Factory
      <3>4. /\ phase' \in {"none", "new", "starting", "running", "stopping", "stopped"}
            /\ bound' \in BOOLEAN /\ live' \subseteq Conns
        BY <2>3 DEF Factory
      <3> QED
        BY <3>1, <3>2, <3>3, <3>4
    <2>4. CASE StartServer(p) \/ ServerStarted(p) \/ ServerFailed(p)
      <3>1. CASE StartServer(p)
        BY <3>1 DEF StartServer, Contract!Move, Goto
      <3>2. CASE ServerStarted(p)
        BY <3>2 DEF ServerStarted, Contract!Move, Goto
      <3>3. CASE ServerFailed(p)
        BY <3>3 DEF ServerFailed, Contract!Move, Goto
      <3> QED
        BY <2>4, <3>1, <3>2, <3>3
    <2>5. CASE ServerBinds(p)
      BY <2>5 DEF ServerBinds, Contract!Bind
    <2>6. CASE Cleanup(p) \/ FailStart(p)
      <3>1. CASE Cleanup(p)
        BY <3>1 DEF Cleanup, Goto
      <3>2. CASE FailStart(p)
        BY <3>2 DEF FailStart, Goto
      <3> QED
        BY <2>6, <3>1, <3>2
    <2>7. config[p].pair \in Pairs \cup {NoPair}
      BY DEF Config
    <2>8. CASE PublishRunning(p)
      BY <2>7, <2>8 DEF PublishRunning, Goto
    <2>9. CASE Persist(p) \/ RecordFailure(p)
      <3>1. PICK to \in Pcs \ {"idle", "lock"} :
              pc[p] \notin {"idle", "lock"} /\ pc' = [pc EXCEPT ![p] = to]
        BY <2>9 DEF Persist, RecordFailure, Goto
      <3>2. UNCHANGED <<mutex, state, server, config, serverVars, loaded, loadFailed, expected>>
        BY <2>9 DEF Persist, RecordFailure
      <3>3. /\ stored' \in Pairs \cup {NoPair} /\ available' \in BOOLEAN
            /\ lastFailed' \in BOOLEAN /\ uncertain' \in BOOLEAN
        BY <2>7, <2>9 DEF Persist, RecordFailure
      <3> QED
        BY <3>1, <3>2, <3>3
    <2> QED
      BY <1>1, <2>1, <2>2, <2>3, <2>4, <2>5, <2>6, <2>8, <2>9 DEF Start
  <1>2. ASSUME NEW p \in Callers, Stop(p) PROVE TypeOK'
    <2>1. CASE CallStop(p) \/ LockStop(p)
      <3>1. CASE CallStop(p)
        BY <3>1 DEF CallStop, Goto
      <3>2. CASE LockStop(p)
        BY <3>2 DEF LockStop, Goto
      <3> QED
        BY <2>1, <3>1, <3>2
    <2>2. CASE CheckStop(p)
      <3>1. PICK to \in Pcs \ {"idle", "lock"} :
              pc[p] \notin {"idle", "lock"} /\ pc' = [pc EXCEPT ![p] = to]
        BY <2>2 DEF CheckStop, Goto
      <3>2. UNCHANGED <<mutex, config>>
        BY <2>2 DEF CheckStop
      <3>3. /\ state' \in States /\ server' \in BOOLEAN
            /\ UNCHANGED <<available, loaded, loadFailed, lastFailed, expected, uncertain, stored>>
        BY <2>2 DEF CheckStop
      <3>4. /\ phase' \in {"none", "new", "starting", "running", "stopping", "stopped"}
            /\ bound' \in BOOLEAN /\ live' \subseteq Conns
        BY <2>2 DEF CheckStop
      <3> QED
        BY <3>1, <3>2, <3>3, <3>4
    <2>3. CASE StopServer(p) \/ ServerDown(p)
      <3>1. CASE StopServer(p)
        BY <3>1 DEF StopServer, Contract!Move, Goto
      <3>2. CASE ServerDown(p)
        BY <3>2 DEF ServerDown, Contract!Move, Goto
      <3> QED
        BY <2>3, <3>1, <3>2
    <2>4. CASE PublishStopped(p)
      BY <2>4 DEF PublishStopped, Goto
    <2> QED
      BY <1>2, <2>1, <2>2, <2>3, <2>4 DEF Stop
  <1>3. ASSUME NEW p \in Callers, Unlock(p) PROVE TypeOK'
    BY <1>3 DEF Unlock, Goto
  <1>4. CASE ServerWorks
    <2>1. UNCHANGED <<mutex, state, server, pc, config, storeVars, phase>>
      BY <1>4 DEF ServerWorks, Contract!Admit, Contract!Leave, Contract!FreePort
    <2>2. bound' \in BOOLEAN /\ live' \subseteq Conns
      BY <1>4 DEF ServerWorks, Contract!Admit, Contract!Leave, Contract!FreePort
    <2> QED
      BY <2>1, <2>2
  <1>5. CASE Relaunch
    BY <1>5 DEF Relaunch, LoadCredentials
  <1>6. CASE UNCHANGED vars
    BY <1>6 DEF vars
  <1> QED
    BY <1>1, <1>2, <1>3, <1>4, <1>5, <1>6 DEF Next

(* Every reachable state is well typed, and the mutex is held by exactly   *)
(* the caller that is inside a command.                                    *)
THEOREM TypeCorrect == Spec => []TypeOK
  <1>1. Init => TypeOK
    BY InitIInv DEF IInv
  <1> QED
    BY <1>1, NextTypeOK, PTL DEF Spec

-----------------------------------------------------------------------------
LEMMA NextKnowledge == IInv /\ [Next]_vars => Knowledge'
  <1> SUFFICES ASSUME IInv, [Next]_vars PROVE Knowledge'
    OBVIOUS
  <1> USE NobodyOutside
      DEF IInv, Knowledge, HolderKnows, Rest, Off, TypeOK, serverVars, storeVars, Publish
  <1>1. ASSUME NEW p \in Callers, Start(p) PROVE Knowledge'
    <2>1. ASSUME NEW cfg \in Config, CallStart(p, cfg) PROVE Knowledge'
      BY <2>1 DEF CallStart, Goto
    <2>2. CASE CheckStart(p)
      BY <2>2 DEF CheckStart, Goto
    <2>3. CASE Factory(p)
      BY <2>3 DEF Factory, Goto
    <2>4. CASE StartServer(p)
      BY <2>4 DEF StartServer, Contract!Move, Goto
    <2>5. CASE ServerBinds(p)
      BY <2>5 DEF ServerBinds, Contract!Bind
    <2>6. CASE ServerStarted(p)
      BY <2>6 DEF ServerStarted, Contract!Move, Goto
    <2>7. CASE ServerFailed(p)
      BY <2>7 DEF ServerFailed, Contract!Move, Goto
    <2>8. CASE Cleanup(p)
      BY <2>8 DEF Cleanup, Goto
    <2>9. CASE FailStart(p)
      BY <2>9 DEF FailStart, Goto
    <2>10. CASE PublishRunning(p)
      BY <2>10 DEF PublishRunning, Goto
    <2>11. CASE Persist(p)
      BY <2>11 DEF Persist, Goto
    <2>12. CASE RecordFailure(p)
      BY <2>12 DEF RecordFailure, Goto
    <2> QED
      BY <1>1, <2>1, <2>2, <2>3, <2>4, <2>5, <2>6, <2>7, <2>8, <2>9, <2>10, <2>11,
         <2>12 DEF Start
  <1>2. ASSUME NEW p \in Callers, Stop(p) PROVE Knowledge'
    <2>1. CASE CallStop(p)
      BY <2>1 DEF CallStop, Goto
    <2>2. CASE LockStop(p)
      BY <2>2 DEF LockStop, Goto
    <2>3. CASE CheckStop(p)
      BY <2>3 DEF CheckStop, Goto
    <2>4. CASE StopServer(p)
      <3>1. phase' = "stopping" /\ UNCHANGED <<mutex, state, server, bound, live>>
        BY <2>4 DEF StopServer, Contract!Move
      <3>2. pc[p] = "stop" /\ pc' = [pc EXCEPT ![p] = "stopping"]
        BY <2>4 DEF StopServer, Goto
      <3>3. mutex = p /\ \A q \in Callers \ {p} : pc[q] \in {"idle", "lock"}
        BY <3>2
      <3>4. state = "stopping" /\ server
        BY <3>2
      <3>5. HolderKnows(p)'
        BY <3>1, <3>2, <3>4
      <3>6. \A q \in Callers \ {p} : HolderKnows(q)'
        BY <3>2, <3>3
      <3> QED
        BY <3>1, <3>3, <3>5, <3>6 DEF Knowledge
    <2>5. CASE ServerDown(p)
      BY <2>5 DEF ServerDown, Contract!Move
    <2>6. CASE PublishStopped(p)
      BY <2>6 DEF PublishStopped, Goto
    <2> QED
      BY <1>2, <2>1, <2>2, <2>3, <2>4, <2>5, <2>6 DEF Stop
  <1>3. ASSUME NEW p \in Callers, Unlock(p) PROVE Knowledge'
    BY <1>3 DEF Unlock, Goto
  <1>4. CASE ServerWorks
    <2>1. UNCHANGED <<mutex, state, server, pc, phase>>
      BY <1>4 DEF ServerWorks, Contract!Admit, Contract!Leave, Contract!FreePort
    <2>2. bound' => bound
      BY <1>4 DEF ServerWorks, Contract!Admit, Contract!Leave, Contract!FreePort
    <2>3. phase \notin {"running", "stopping"} /\ live = {} => live' = {}
      BY <1>4 DEF ServerWorks, Contract!Admit, Contract!Leave, Contract!FreePort
    <2> QED
      BY <2>1, <2>2, <2>3
  <1>5. CASE Relaunch
    BY <1>5 DEF Relaunch, LoadCredentials
  <1>6. CASE UNCHANGED vars
    BY <1>6 DEF vars
  <1> QED
    BY <1>1, <1>2, <1>3, <1>4, <1>5, <1>6 DEF Next

LEMMA Invariance == Spec => []IInv
  <1>1. IInv /\ [Next]_vars => IInv'
    BY NextTypeOK, NextKnowledge DEF IInv
  <1> QED
    BY <1>1, InitIInv, PTL DEF Spec

(* Between commands the snapshot is at rest and names the server that runs.*)
THEOREM AtRestCorrect == Spec => []AtRest
  <1>1. IInv => AtRest
    BY DEF IInv, Knowledge, Rest, Off, AtRest
  <1> QED
    BY <1>1, Invariance, PTL

LEMMA QuietInductive == IInv => QuietWhenShownQuiet
  <1> SUFFICES ASSUME IInv, state \in {"stopped", "error"} PROVE ~bound /\ live = {}
    BY DEF QuietWhenShownQuiet
  <1>1. CASE mutex = Nobody
    BY <1>1 DEF IInv, Knowledge, Rest, Off
  <1>2. CASE mutex \in Callers
    <2>1. HolderKnows(mutex) /\ pc[mutex] \in Pcs \ {"idle", "lock"}
      BY <1>2 DEF IInv, TypeOK, Knowledge
    <2> QED
      BY <2>1 DEF HolderKnows, Rest, Off, Pcs
  <1> QED
    BY <1>1, <1>2 DEF IInv, TypeOK

(* Stopped and Error are never shown while the port is bound or a client   *)
(* is connected.                                                           *)
THEOREM QuietCorrect == Spec => []QuietWhenShownQuiet
  <1> QED
    BY QuietInductive, Invariance, PTL

(* A Stop that returns leaves no proxy behind, whatever it had to wait for *)
(* and whether or not the server's own Stop reported an error.             *)
THEOREM StopCorrect == Spec => []StopLeavesNothing
  <1>1. IInv => StopLeavesNothing
    BY DEF IInv, Knowledge, HolderKnows, Rest, Off, StopLeavesNothing
  <1> QED
    BY <1>1, Invariance, PTL

-----------------------------------------------------------------------------
LEMMA InitLife == Init => Life!Init
  BY DEF Init, Life!Init

(* Every step of the service is one of ProxyLifecycle or changes nothing   *)
(* that ProxyLifecycle speaks of.                                          *)
LEMMA NextLife == IInv /\ [Next]_vars => [Life!Next]_(Life!lifeVars)
  <1> SUFFICES ASSUME IInv, [Next]_vars
               PROVE Life!Next \/ UNCHANGED <<state, bound \/ live # {}>>
    BY DEF Life!lifeVars
  <1> USE DEF serverVars, Publish, Goto
  <1>1. ASSUME NEW p \in Callers, Start(p)
        PROVE Life!Next \/ UNCHANGED <<state, bound \/ live # {}>>
    <2>1. HolderKnows(p)
      BY DEF IInv, Knowledge
    <2>2. ASSUME NEW cfg \in Config, CallStart(p, cfg) PROVE UNCHANGED <<state, bound, live>>
      BY <2>2 DEF CallStart
    <2>3. CASE CheckStart(p)
      BY <2>3 DEF CheckStart, Life!Next, Life!Refuse, Life!Start, Life!Change
    <2>4. CASE Factory(p)
      BY <2>1, <2>4 DEF Factory, HolderKnows, Off
    <2>5. CASE StartServer(p) \/ ServerStarted(p) \/ ServerFailed(p)
      BY <2>5 DEF StartServer, ServerStarted, ServerFailed, Contract!Move
    <2>6. CASE ServerBinds(p)
      BY <2>1, <2>6 DEF ServerBinds, Contract!Bind, HolderKnows, Life!Next, Life!Serve
    <2>7. CASE FailStart(p)
      BY <2>1, <2>7 DEF FailStart, HolderKnows, Off, Life!Next, Life!StartFails, Life!Change
    <2>8. CASE PublishRunning(p)
      BY <2>1, <2>8 DEF PublishRunning, HolderKnows, Life!Next, Life!Up, Life!Change
    <2>9. CASE Cleanup(p) \/ Persist(p) \/ RecordFailure(p)
      BY <2>9 DEF Cleanup, Persist, RecordFailure
    <2> QED
      BY <1>1, <2>2, <2>3, <2>4, <2>5, <2>6, <2>7, <2>8, <2>9 DEF Start
  <1>2. ASSUME NEW p \in Callers, Stop(p)
        PROVE Life!Next \/ UNCHANGED <<state, bound \/ live # {}>>
    <2>1. HolderKnows(p)
      BY DEF IInv, Knowledge
    <2>2. CASE CallStop(p) \/ LockStop(p) \/ StopServer(p) \/ ServerDown(p)
      BY <2>2 DEF CallStop, LockStop, StopServer, ServerDown, Contract!Move
    <2>3. CASE CheckStop(p)
      BY <2>1, <2>3 DEF CheckStop, HolderKnows, Rest, Life!Next, Life!Stop, Life!Change
    <2>4. CASE PublishStopped(p)
      BY <2>1, <2>4 DEF PublishStopped, HolderKnows, Off, Life!Next, Life!Down, Life!Change
    <2> QED
      BY <1>2, <2>2, <2>3, <2>4 DEF Stop
  <1>3. ASSUME NEW p \in Callers, Unlock(p)
        PROVE UNCHANGED <<state, bound, live>>
    BY <1>3 DEF Unlock
  <1>4. CASE ServerWorks
    <2>1. UNCHANGED state
      BY <1>4 DEF ServerWorks
    <2>2. CASE state \in {"stopped", "error"}
      <3>1. ~bound /\ live = {}
        BY <2>2, QuietInductive DEF QuietWhenShownQuiet
      <3> QED
        BY <1>4, <3>1 DEF ServerWorks, Contract!Admit, Contract!Leave, Contract!FreePort
    <2>3. CASE state \in {"starting", "running", "stopping"}
      BY <2>1, <2>3 DEF Life!Next, Life!Serve
    <2> QED
      BY <2>2, <2>3 DEF IInv, TypeOK, States
  <1>5. CASE Relaunch
    BY <1>5 DEF Relaunch, Life!Next, Life!Relaunch
  <1>6. CASE UNCHANGED vars
    BY <1>6 DEF vars
  <1> QED
    BY <1>1, <1>2, <1>3, <1>4, <1>5, <1>6 DEF Next

(* The service implements ProxyLifecycle: what the window shows and what   *)
(* the network sees change together as that module says, for any number of *)
(* callers, pairs and connections.                                         *)
THEOREM ServiceIsLifecycle == Spec => LifeSpec
  <1>1. IInv /\ [Next]_vars => [Life!Next]_(Life!lifeVars)
    BY NextLife
  <1> QED
    BY <1>1, InitLife, Invariance, PTL DEF Spec, LifeSpec, Life!Spec

(* The keyring changes only when a Start has succeeded.                    *)
THEOREM StoreKept == Spec => FailedStartKeepsStore
  <1>1. IInv /\ [Next]_vars => [stored' # stored => state = "running"]_vars
    <2> SUFFICES ASSUME IInv, [Next]_vars, stored' # stored PROVE state = "running"
      OBVIOUS
    <2> USE DEF serverVars, storeVars
    <2>1. ASSUME NEW p \in Callers, Start(p) PROVE state = "running"
      <3>1. CASE Persist(p)
        BY <3>1 DEF Persist, Goto, IInv, Knowledge, HolderKnows
      <3>2. ~Persist(p) => UNCHANGED stored
        BY <2>1 DEF Start, CallStart, CheckStart, Factory, StartServer, ServerBinds,
           ServerStarted, ServerFailed, Cleanup, FailStart, PublishRunning, RecordFailure
      <3> QED
        BY <3>1, <3>2
    <2>2. ASSUME NEW p \in Callers, Stop(p) \/ Unlock(p) PROVE UNCHANGED stored
      BY <2>2 DEF Stop, CallStop, LockStop, CheckStop, StopServer, ServerDown,
         PublishStopped, Unlock
    <2>3. ServerWorks \/ Relaunch \/ UNCHANGED vars => UNCHANGED stored
      BY DEF ServerWorks, Relaunch, vars
    <2> QED
      BY <2>1, <2>2, <2>3 DEF Next
  <1> QED
    BY <1>1, Invariance, PTL DEF Spec, FailedStartKeepsStore

(* Whoever is about to write the keyring knows what belongs there, and     *)
(* until it has, nothing is promised.                                      *)
StoreKnown ==
  /\ ~uncertain => stored = expected
  /\ \A p \in Callers : pc[p] = "persist" => uncertain /\ expected = config[p].pair

LEMMA NextStoreKnown == IInv /\ StoreKnown /\ [Next]_vars => StoreKnown'
  <1> SUFFICES ASSUME IInv, StoreKnown, [Next]_vars PROVE StoreKnown'
    OBVIOUS
  <1>1. \A p, q \in Callers : pc[p] \notin {"idle", "lock"} /\ pc[q] \notin {"idle", "lock"} => p = q
    BY DEF IInv, TypeOK
  <1>2. pc \in [Callers -> Pcs] /\ config \in [Callers -> Config]
    BY DEF IInv, TypeOK
  <1> USE <1>1, <1>2 DEF StoreKnown, Goto, Publish, serverVars, storeVars
  <1>3. ASSUME NEW p \in Callers, Start(p) PROVE StoreKnown'
    <2>1. ASSUME NEW cfg \in Config, CallStart(p, cfg) PROVE StoreKnown'
      BY <2>1 DEF CallStart
    <2>2. CASE CheckStart(p) \/ Factory(p) \/ StartServer(p) \/ ServerBinds(p) \/ ServerStarted(p)
      BY <2>2 DEF CheckStart, Factory, StartServer, ServerBinds, ServerStarted
    <2>3. CASE ServerFailed(p) \/ Cleanup(p) \/ FailStart(p) \/ RecordFailure(p)
      BY <2>3 DEF ServerFailed, Cleanup, FailStart, RecordFailure
    <2>4. CASE PublishRunning(p)
      BY <2>4 DEF PublishRunning
    <2>5. CASE Persist(p)
      BY <2>5 DEF Persist
    <2> QED
      BY <1>3, <2>1, <2>2, <2>3, <2>4, <2>5 DEF Start
  <1>4. ASSUME NEW p \in Callers, Stop(p) PROVE StoreKnown'
    BY <1>4 DEF Stop, CallStop, LockStop, CheckStop, StopServer, ServerDown, PublishStopped
  <1>5. ASSUME NEW p \in Callers, Unlock(p) PROVE StoreKnown'
    BY <1>5 DEF Unlock
  <1>6. CASE ServerWorks \/ UNCHANGED vars
    BY <1>6 DEF ServerWorks, vars
  <1>7. CASE Relaunch
    BY <1>7 DEF Relaunch
  <1> QED
    BY <1>3, <1>4, <1>5, <1>6, <1>7 DEF Next

(* What the keyring holds is the pair of the last Start that succeeded,    *)
(* unless the keyring or the process failed since.                         *)
THEOREM StoreFollows == Spec => []StoreFollowsStart
  <1>1. Init => StoreKnown
    BY DEF Init, StoreKnown
  <1>2. StoreKnown => StoreFollowsStart
    BY DEF StoreKnown, StoreFollowsStart
  <1> QED
    BY <1>1, <1>2, NextStoreKnown, Invariance, PTL DEF Spec

-----------------------------------------------------------------------------
(* Nobody waits in vain                                                    *)

(* Starting and Stopping are shown only while a caller is inside the call  *)
(* that ends them, and it finds the server in the phase in which that call *)
(* is answered: the clean-up after a failed Start, too, finds one stopped. *)
InCharge ==
  /\ state = "starting" =>
       \E p \in Callers : pc[p] \in {"factory", "start", "listening", "cleanup", "up", "failStart"}
  /\ state = "stopping" => \E p \in Callers : pc[p] \in {"stop", "stopping"}
  /\ \A p \in Callers :
       /\ pc[p] = "start" => phase = "new"
       /\ pc[p] = "listening" => phase = "starting"
       /\ pc[p] = "cleanup" => phase = "stopped"
       /\ pc[p] = "stop" => phase = "running"
       /\ pc[p] = "stopping" => phase \in {"stopping", "stopped"}

(* No command is abandoned between its two published states, for any number*)
(* of callers, and a caller that waits for the mutex waits for one that    *)
(* goes on.  What ComesToRest and StopReturns add is that server and       *)
(* keyring answer.                                                         *)
THEOREM SomebodyInCharge == Spec => []InCharge
<1>1. ASSUME IInv PROVE InCharge
  <2> USE <1>1 DEF IInv, TypeOK, Knowledge, HolderKnows, Rest, Off, Pcs
  <2>1. ASSUME state \in {"starting", "stopping"}
        PROVE  \E p \in Callers : pc[p] \notin {"idle", "lock"}
    BY <2>1
  <2>2. ASSUME NEW p \in Callers, pc[p] \notin {"idle", "lock"}
        PROVE  /\ state = "starting" =>
                    pc[p] \in {"factory", "start", "listening", "cleanup", "up", "failStart"}
               /\ state = "stopping" => pc[p] \in {"stop", "stopping"}
    BY <2>2
  <2> QED
    BY <2>1, <2>2 DEF InCharge
<1> QED
  BY <1>1, Invariance, PTL
=============================================================================
