--------------------------- MODULE ManagedListener ---------------------------
(***************************************************************************)
(* The listener that stands between the TCP port and net/http.Server       *)
(* (internal/infrastructure/network/listener.go).  It takes one slot of a  *)
(* buffered channel before it accepts, turns away connections whose source *)
(* is outside the interface's subnet, keeps a registry of the accepted     *)
(* ones and a count per client address, and gives the slot back when a     *)
(* connection is closed.                                                   *)
(*                                                                         *)
(* Processes: the goroutine of http.Server.Serve, the only caller of       *)
(* Accept; whoever closes the listener first (a sync.Once serialises the   *)
(* others); one caller of CloseConnections; and, for every connection, the *)
(* first of its closers (a sync.Once again).  A step is one operation on   *)
(* shared state: one critical section, one channel operation, or one call  *)
(* on a socket.                                                            *)
(***************************************************************************)
EXTENDS Integers, FiniteSets

CONSTANTS
  Conns,            \* connections that reach the port
  NoConn,           \* no connection in hand
  Hosts,            \* the machines that may connect
  RemoteAddr,       \* the address net.Conn.RemoteAddr reports for each
  NoAddress,        \* ... when it reports none that can be parsed
  Subnet,           \* the prefix handed to newManagedListener
  RequestedMax      \* the limit handed to newManagedListener

(* netip.Addr: the same IPv4 host can also be spelled as an IPv4-mapped    *)
(* IPv6 address and carry a zone.                                          *)
Address == [host : Hosts, mapped : BOOLEAN, zoned : BOOLEAN]

(* netip.Prefix: long says that a mapped prefix has at least 96 bits.      *)
Prefix == [valid : BOOLEAN, hosts : SUBSET Hosts, mapped : BOOLEAN, long : BOOLEAN]

ASSUME ConnsFinite == IsFiniteSet(Conns)
ASSUME NoConnOutside == NoConn \notin Conns
ASSUME AddressesOfConns == RemoteAddr \in [Conns -> Address \cup {NoAddress}]
ASSUME NoAddressOutside == NoAddress \notin Address
ASSUME SubnetIsPrefix == Subnet \in Prefix
ASSUME LimitIsInteger == RequestedMax \in Int

Capacity == IF RequestedMax < 0 THEN 0 ELSE RequestedMax

Contains(prefix, a) ==
  /\ prefix.valid
  /\ ~a.zoned
  /\ a.mapped = prefix.mapped
  /\ a.host \in prefix.hosts

NormalizeKeepsMapped(a) == [a EXCEPT !.zoned = FALSE]
NormalizeAddress(a) == [a EXCEPT !.zoned = FALSE, !.mapped = FALSE]

NormalizePrefix(prefix) ==
  IF prefix.valid /\ (prefix.mapped => prefix.long)
    THEN [prefix EXCEPT !.mapped = FALSE]
    ELSE [prefix EXCEPT !.valid = FALSE]

AllowedSubnet == NormalizePrefix(Subnet)

VARIABLES
  closed,       \* managedListener.closed
  done,         \* managedListener.done has been closed
  innerOpen,    \* the TCP listener is open
  tokens,       \* len(managedListener.capacity)
  connections,  \* managedListener.connections
  clients,      \* managedListener.clients: source -> number of connections
  acceptPc,     \* where the goroutine of Serve stands in Accept
  current,      \* the connection in its hand
  phase,        \* how far each connection has come
  sweepPc,      \* CloseConnections: not called, running, returned
  sweepLeft,    \* what is left of its snapshot
  sweepAt,      \* the connection whose Close it is inside of
  sweptClosed   \* history: the snapshot was taken from a closed listener

closeVars == <<closed, done, innerOpen>>
sweepVars == <<sweepPc, sweepLeft, sweepAt, sweptClosed>>
registryVars == <<connections, clients>>
acceptVars == <<acceptPc, current>>
vars == <<closed, done, innerOpen, tokens, connections, clients, acceptPc,
          current, phase, sweepPc, sweepLeft, sweepAt, sweptClosed>>

AcceptPcs == {"idle", "entry", "select", "recheck", "accept", "failed",
              "failedReleased", "filter", "dropped", "register", "late",
              "lateClosed", "erred", "refused", "leaving", "exited"}

(* The acceptor holds a slot of its own at these places.                   *)
HoldingPcs == {"recheck", "accept", "failed", "filter", "dropped", "register",
               "late", "lateClosed"}

Phases == {"remote", "accepted", "open", "closed", "removed", "gone"}

SourceAt(c) == NormalizeAddress(RemoteAddr[c])

Sources == {SourceAt(c) : c \in {d \in Conns : RemoteAddr[d] # NoAddress}}

AtPhase(ps) == {c \in Conns : phase[c] \in ps}

Init ==
  /\ closed = FALSE /\ done = FALSE /\ innerOpen = TRUE
  /\ tokens = 0
  /\ connections = {}
  /\ clients = [s \in {} |-> 0]
  /\ acceptPc = "idle" /\ current = NoConn
  /\ phase = [c \in Conns |-> "remote"]
  /\ sweepPc = "no" /\ sweepLeft = {} /\ sweepAt = NoConn /\ sweptClosed = FALSE

-----------------------------------------------------------------------------
(* Accept                                                                  *)

Goto(from, to) == acceptPc = from /\ acceptPc' = to

(* releaseCapacity: receiving from the channel blocks while it is empty.   *)
Release == tokens > 0 /\ tokens' = tokens - 1

(* http.Server.Serve calls Accept.                                         *)
CallAccept ==
  /\ Goto("idle", "entry")
  /\ UNCHANGED <<closeVars, tokens, registryVars, current, phase, sweepVars>>

(* acquireCapacity, first select: done wins if it is already closed.       *)
CheckDone ==
  /\ Goto("entry", IF done THEN "refused" ELSE "select")
  /\ UNCHANGED <<closeVars, tokens, registryVars, current, phase, sweepVars>>

(* acquireCapacity, second select.  Either ready case may be taken.        *)
TakeSlotUnlimited ==
  /\ Goto("select", "recheck")
  /\ tokens' = tokens + 1
  /\ UNCHANGED <<closeVars, registryVars, current, phase, sweepVars>>

TakeSlot ==
  /\ Goto("select", "recheck")
  /\ tokens < Capacity
  /\ tokens' = tokens + 1
  /\ UNCHANGED <<closeVars, registryVars, current, phase, sweepVars>>

GiveUpSlot ==
  /\ Goto("select", "refused")
  /\ done
  /\ UNCHANGED <<closeVars, tokens, registryVars, current, phase, sweepVars>>

(* acquireCapacity, third select: a slot won while done was closed goes    *)
(* back.                                                                   *)
RecheckKeepsSlot ==
  /\ Goto("recheck", IF done THEN "refused" ELSE "accept")
  /\ UNCHANGED <<closeVars, tokens, registryVars, current, phase, sweepVars>>

Recheck ==
  /\ Goto("recheck", IF done THEN "refused" ELSE "accept")
  /\ IF done THEN Release ELSE UNCHANGED tokens
  /\ UNCHANGED <<closeVars, registryVars, current, phase, sweepVars>>

(* inner.Accept delivers a connection ...                                  *)
InnerAccept(c) ==
  /\ Goto("accept", "filter")
  /\ innerOpen
  /\ phase[c] = "remote"
  /\ current' = c
  /\ phase' = [phase EXCEPT ![c] = "accepted"]
  /\ UNCHANGED <<closeVars, tokens, registryVars, sweepVars>>

(* ... or an error: at any time a system error, for certain once closed.   *)
InnerAcceptError ==
  /\ Goto("accept", "failed")
  /\ UNCHANGED <<closeVars, tokens, registryVars, current, phase, sweepVars>>

ReleaseFailed ==
  /\ Goto("failed", "failedReleased")
  /\ Release
  /\ UNCHANGED <<closeVars, registryVars, current, phase, sweepVars>>

(* isClosed decides between net.ErrClosed and the raw error.               *)
ReturnError ==
  /\ Goto("failedReleased", IF closed THEN "refused" ELSE "erred")
  /\ UNCHANGED <<closeVars, tokens, registryVars, current, phase, sweepVars>>

(* remoteIP and allowedSubnet.Contains.                                    *)
Allowed(c) ==
  /\ RemoteAddr[c] # NoAddress
  /\ Contains(AllowedSubnet, SourceAt(c))

FilterPass ==
  /\ Goto("filter", "register")
  /\ Allowed(current)
  /\ UNCHANGED <<closeVars, tokens, registryVars, current, phase, sweepVars>>

FilterDrop ==
  /\ Goto("filter", "dropped")
  /\ ~Allowed(current)
  /\ phase' = [phase EXCEPT ![current] = "gone"]
  /\ current' = NoConn
  /\ UNCHANGED <<closeVars, tokens, registryVars, sweepVars>>

(* continue: the loop starts over at acquireCapacity.                      *)
ReleaseDropped ==
  /\ Goto("dropped", "entry")
  /\ Release
  /\ UNCHANGED <<closeVars, registryVars, current, phase, sweepVars>>

(* clients[source]++ on a Go map: a missing key counts as 0.               *)
Count(source) == IF source \in DOMAIN clients THEN clients[source] ELSE 0

(* register, its critical section.                                         *)
Enter ==
  /\ connections' = connections \cup {current}
  /\ clients' = [s \in DOMAIN clients \cup {SourceAt(current)} |->
                   IF s = SourceAt(current) THEN Count(s) + 1 ELSE clients[s]]
  /\ phase' = [phase EXCEPT ![current] = "open"]

RegisterUnchecked ==
  /\ Goto("register", "idle")
  /\ Enter
  /\ current' = NoConn
  /\ UNCHANGED <<closeVars, tokens, sweepVars>>

Register ==
  /\ Goto("register", "idle")
  /\ ~closed
  /\ Enter
  /\ current' = NoConn
  /\ UNCHANGED <<closeVars, tokens, sweepVars>>

RegisterLate ==
  /\ Goto("register", "late")
  /\ closed
  /\ UNCHANGED <<closeVars, tokens, registryVars, current, phase, sweepVars>>

LateKeepsSocket ==
  /\ Goto("late", "lateClosed")
  /\ current' = NoConn
  /\ UNCHANGED <<closeVars, tokens, registryVars, phase, sweepVars>>

CloseLate ==
  /\ Goto("late", "lateClosed")
  /\ phase' = [phase EXCEPT ![current] = "gone"]
  /\ current' = NoConn
  /\ UNCHANGED <<closeVars, tokens, registryVars, sweepVars>>

ReleaseLate ==
  /\ Goto("lateClosed", "refused")
  /\ Release
  /\ UNCHANGED <<closeVars, registryVars, current, phase, sweepVars>>

(* Serve sleeps and calls Accept again after a temporary error ...         *)
ServeRetry ==
  /\ Goto("erred", "entry")
  /\ UNCHANGED <<closeVars, tokens, registryVars, current, phase, sweepVars>>

-----------------------------------------------------------------------------
(* Close: the body of closeOnce, in the order of its three effects.        *)

CloseMark ==
  /\ ~closed
  /\ closed' = TRUE
  /\ UNCHANGED <<done, innerOpen, tokens, registryVars, acceptVars, phase, sweepVars>>

CloseSignalLost ==
  /\ closed /\ ~done
  /\ innerOpen' = FALSE
  /\ UNCHANGED <<closed, done, tokens, registryVars, acceptVars, phase, sweepVars>>

CloseSignal ==
  /\ closed /\ ~done
  /\ done' = TRUE
  /\ UNCHANGED <<closed, innerOpen, tokens, registryVars, acceptVars, phase, sweepVars>>

CloseInner ==
  /\ done /\ innerOpen
  /\ innerOpen' = FALSE
  /\ UNCHANGED <<closed, done, tokens, registryVars, acceptVars, phase, sweepVars>>

(* Serve leaves on net.ErrClosed and on any error that is not temporary;   *)
(* its deferred Close runs the body of closeOnce or waits for it.          *)
ServeGiveUp ==
  /\ acceptPc \in {"erred", "refused"}
  /\ acceptPc' = "leaving"
  /\ UNCHANGED <<closeVars, tokens, registryVars, current, phase, sweepVars>>

ServeReturn ==
  /\ Goto("leaving", "exited")
  /\ ~innerOpen
  /\ UNCHANGED <<closeVars, tokens, registryVars, current, phase, sweepVars>>

-----------------------------------------------------------------------------
(* managedConn.Close: whoever comes first (the connection's own goroutine  *)
(* or the sweep) closes the socket, then unregisters.                      *)

CloseSocket(c) ==
  /\ phase[c] = "open"
  /\ phase' = [phase EXCEPT ![c] = "closed"]
  /\ UNCHANGED <<closeVars, tokens, registryVars, acceptVars, sweepVars>>

UnregisterForgetsClient(c) ==
  /\ phase[c] = "closed"
  /\ connections' = connections \ {c}
  /\ clients' = [s \in DOMAIN clients \ {SourceAt(c)} |-> clients[s]]
  /\ phase' = [phase EXCEPT ![c] = "removed"]
  /\ UNCHANGED <<closeVars, tokens, acceptVars, sweepVars>>

(* unregister, its critical section.                                       *)
Unregister(c) ==
  /\ phase[c] = "closed"
  /\ IF c \in connections
       THEN /\ connections' = connections \ {c}
            /\ clients' = IF Count(SourceAt(c)) = 1
                            THEN [s \in DOMAIN clients \ {SourceAt(c)} |-> clients[s]]
                            ELSE [clients EXCEPT ![SourceAt(c)] = @ - 1]
            /\ phase' = [phase EXCEPT ![c] = "removed"]
       ELSE /\ phase' = [phase EXCEPT ![c] = "gone"]
            /\ UNCHANGED registryVars
  /\ UNCHANGED <<closeVars, tokens, acceptVars, sweepVars>>

ReleaseConn(c) ==
  /\ phase[c] = "removed"
  /\ Release
  /\ phase' = [phase EXCEPT ![c] = "gone"]
  /\ UNCHANGED <<closeVars, registryVars, acceptVars, sweepVars>>

-----------------------------------------------------------------------------
(* CloseConnections                                                        *)

SweepStart ==
  /\ sweepPc # "running"
  /\ sweepPc' = "running"
  /\ sweepLeft' = connections
  /\ sweptClosed' = closed
  /\ UNCHANGED <<closeVars, tokens, registryVars, acceptVars, phase, sweepAt>>

SweepNext(c) ==
  /\ sweepPc = "running" /\ sweepAt = NoConn
  /\ c \in sweepLeft
  /\ sweepAt' = c
  /\ UNCHANGED <<closeVars, tokens, registryVars, acceptVars, phase, sweepPc,
                 sweepLeft, sweptClosed>>

(* connection.Close returns only after the Once has run, whoever runs it.  *)
SweepClosed(c) ==
  /\ sweepAt = c
  /\ phase[c] = "gone"
  /\ sweepAt' = NoConn
  /\ sweepLeft' = sweepLeft \ {c}
  /\ UNCHANGED <<closeVars, tokens, registryVars, acceptVars, phase, sweepPc, sweptClosed>>

SweepEnd ==
  /\ sweepPc = "running" /\ sweepLeft = {}
  /\ sweepPc' = "over"
  /\ UNCHANGED <<closeVars, tokens, registryVars, acceptVars, phase, sweepLeft,
                 sweepAt, sweptClosed>>

-----------------------------------------------------------------------------
Accept ==
  \/ CallAccept \/ CheckDone \/ TakeSlot \/ GiveUpSlot \/ Recheck
  \/ \E c \in Conns : InnerAccept(c)
  \/ InnerAcceptError \/ ReleaseFailed \/ ReturnError
  \/ FilterPass \/ FilterDrop \/ ReleaseDropped
  \/ Register \/ RegisterLate \/ CloseLate \/ ReleaseLate

Serve == Accept \/ ServeRetry \/ ServeGiveUp \/ ServeReturn

Close == CloseMark \/ CloseSignal \/ CloseInner

ConnClose(c) == CloseSocket(c) \/ Unregister(c) \/ ReleaseConn(c)

CloseConnections ==
  \/ SweepStart \/ SweepEnd
  \/ \E c \in Conns : SweepNext(c) \/ SweepClosed(c)

Next ==
  \/ Serve
  \/ Close
  \/ \E c \in Conns : ConnClose(c)
  \/ CloseConnections

(* Go runs every goroutine that can run.  Nothing obliges a caller to      *)
(* close the listener, a peer to connect, or a connection's owner to close *)
(* it; Serve does close the listener on its way out, and a sweep the       *)
(* connection it has reached.                                              *)
Fairness ==
  /\ WF_vars(Serve)
  /\ WF_vars(acceptPc = "leaving" /\ CloseMark)
  /\ WF_vars(CloseSignal) /\ WF_vars(CloseInner)
  /\ \A c \in Conns :
       /\ WF_vars(Unregister(c)) /\ WF_vars(ReleaseConn(c))
       /\ WF_vars(sweepAt = c /\ CloseSocket(c))
       /\ WF_vars(SweepNext(c)) /\ WF_vars(SweepClosed(c))
  /\ WF_vars(SweepEnd)

Spec == Init /\ [][Next]_vars

FairSpec == Spec /\ Fairness

-----------------------------------------------------------------------------
TypeOK ==
  /\ closed \in BOOLEAN /\ done \in BOOLEAN /\ innerOpen \in BOOLEAN
  /\ tokens \in 0..Capacity
  /\ connections \subseteq Conns
  /\ DOMAIN clients \subseteq Sources
  /\ \A s \in DOMAIN clients : clients[s] \in Nat \ {0}
  /\ acceptPc \in AcceptPcs
  /\ current \in Conns \cup {NoConn}
  /\ phase \in [Conns -> Phases]
  /\ sweepPc \in {"no", "running", "over"}
  /\ sweepLeft \subseteq Conns
  /\ sweepAt \in Conns \cup {NoConn}
  /\ sweptClosed \in BOOLEAN

(* Who holds a slot: the acceptor before it hands a connection over, and   *)
(* every connection from then until its Close has finished.                *)
Holders ==
  AtPhase({"open", "closed", "removed"})
    \cup (IF acceptPc \in HoldingPcs THEN {NoConn} ELSE {})

(* The slots taken are exactly the slots held: none is lost on an error    *)
(* path and none is given back twice, so a release never blocks and the    *)
(* limit never shrinks.                                                    *)
CapacityExact == tokens = Cardinality(Holders)

(* At most Capacity client sockets are open at any time, those under       *)
(* inspection included: a socket is closed before its slot is released.    *)
SocketsBounded == Cardinality(AtPhase({"accepted", "open"})) <= Capacity

(* Every socket that is open is in the acceptor's hand or in the registry: *)
(* no path loses one that a later sweep could not find.                    *)
NoLeakedSocket ==
  AtPhase({"accepted", "open"}) \subseteq connections \cup {current}

(* The client table counts the registered connections of each machine,     *)
(* whatever spelling of its address they came with, and has no other entry.*)
ClientsExact ==
  /\ DOMAIN clients = {SourceAt(c) : c \in connections}
  /\ \A h \in Hosts :
       LET ofHost == {c \in connections : RemoteAddr[c].host = h} IN
       \A s \in DOMAIN clients : s.host = h => clients[s] = Cardinality(ofHost)

(* A sweep that began after Close leaves no accepted connection open or    *)
(* registered: none slips in behind its snapshot.                          *)
LateSweepEmpties ==
  sweepPc = "over" /\ sweptClosed =>
    connections = {} /\ AtPhase({"open", "closed"}) = {}

(* Once Close has marked the listener, the registry only shrinks.          *)
NoAdmissionAfterClose == [][closed => connections' \subseteq connections]_vars

(* A closed listener lets the goroutine of Serve go, even one that waits   *)
(* for a slot or inside inner.Accept; and a goroutine that leaves after an *)
(* accept error closes the listener, so the port does not stay bound.      *)
CloseFreesServe ==
  (closed \/ acceptPc = "leaving") ~> (acceptPc = "exited" /\ ~innerOpen)

(* The connections an observer would call allowed: those of a host in the  *)
(* subnet, under any spelling of either.                                   *)
AllowedConns ==
  {c \in Conns :
     /\ RemoteAddr[c] # NoAddress
     /\ Subnet.valid /\ (Subnet.mapped => Subnet.long)
     /\ RemoteAddr[c].host \in Subnet.hosts}

Gate == INSTANCE AcceptGate WITH
          MaxConnections <- Capacity,
          live <- connections,
          past <- AtPhase({"removed", "gone"}),
          shut <- closed

(* The listener is an AcceptGate: it admits only allowed connections, only *)
(* below the limit and before Close, and turns away only foreign ones or,  *)
(* after Close, any.                                                       *)
GateSpec == Gate!Spec
=============================================================================
