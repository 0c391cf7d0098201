------------------------ MODULE ManagedListenerProofs ------------------------
(***************************************************************************)
(* Theorems about ManagedListener, for any connections, addresses, subnet  *)
(* and limit.                                                              *)
(***************************************************************************)
EXTENDS ManagedListener, FiniteSetTheorems, TLAPS

(* The acceptor has a connection in hand exactly while it inspects it, and *)
(* it has passed the filter once Accept gets to register.                  *)
HandOK ==
  /\ acceptPc \in {"filter", "register", "late"} =>
       current \in Conns /\ phase[current] = "accepted"
  /\ acceptPc \notin {"filter", "register", "late"} => current = NoConn
  /\ \A c \in Conns : phase[c] = "accepted" => c = current
  /\ acceptPc \in {"register", "late"} => Allowed(current)
  /\ acceptPc = "late" => closed

(* The registry holds what was handed over and not yet unregistered.       *)
RegistryExact ==
  \A c \in Conns : c \in connections <=> phase[c] \in {"open", "closed"}

IndType == TypeOK /\ HandOK /\ RegistryExact

LEMMA CapacityNat == Capacity \in Nat
  BY LimitIsInteger DEF Capacity

LEMMA AllowedSource ==
  ASSUME NEW c \in Conns, Allowed(c)
  PROVE  SourceAt(c) \in Sources
  BY DEF Allowed, Sources

LEMMA InitIndType == Init => IndType
  <1> SUFFICES ASSUME Init PROVE IndType
    OBVIOUS
  <1>1. TypeOK
    <2>1. DOMAIN clients = {}
      BY DEF Init
    <2>2. phase \in [Conns -> Phases] /\ acceptPc \in AcceptPcs
      BY DEF Init, AcceptPcs, Phases
    <2>3. tokens \in 0..Capacity
      BY CapacityNat DEF Init
    <2>4. DOMAIN clients \subseteq Sources /\ \A s \in DOMAIN clients : clients[s] \in Nat \ {0}
      BY <2>1
    <2> QED
      BY <2>2, <2>3, <2>4 DEF Init, TypeOK
  <1>2. HandOK
    BY DEF Init, HandOK
  <1>3. RegistryExact
    BY DEF Init, RegistryExact
  <1> QED
    BY <1>1, <1>2, <1>3 DEF IndType

LEMMA NextIndType == IndType /\ [Next]_vars => IndType'
  <1> SUFFICES ASSUME IndType, [Next]_vars PROVE IndType'
    OBVIOUS
  <1> USE CapacityNat, NoConnOutside DEF IndType, TypeOK, HandOK, RegistryExact,
          AcceptPcs, Phases, closeVars, sweepVars, registryVars, acceptVars,
          Allowed
  <1>1. CASE Serve
    <2>1. CASE CallAccept \/ CheckDone \/ GiveUpSlot \/ InnerAcceptError
                 \/ ReturnError \/ RegisterLate \/ ServeRetry \/ ServeGiveUp
                 \/ ServeReturn \/ FilterPass
      BY <2>1 DEF CallAccept, CheckDone, GiveUpSlot, InnerAcceptError, ReturnError,
                  RegisterLate, ServeRetry, ServeGiveUp, ServeReturn, FilterPass, Goto
    <2>2. CASE TakeSlot
      BY <2>2 DEF TakeSlot, Goto
    <2>3. CASE Recheck
      BY <2>3 DEF Recheck, Goto, Release
    <2>4. ASSUME NEW c \in Conns, InnerAccept(c) PROVE IndType'
      BY <2>4 DEF InnerAccept, Goto
    <2>5. CASE ReleaseFailed \/ ReleaseDropped \/ ReleaseLate
      BY <2>5 DEF ReleaseFailed, ReleaseDropped, ReleaseLate, Goto, Release
    <2>6. CASE FilterDrop
      BY <2>6 DEF FilterDrop, Goto
    <2>7. CASE CloseLate
      BY <2>7 DEF CloseLate, Goto
    <2>8. CASE Register
      <3>1. current \in Conns /\ SourceAt(current) \in Sources
        BY <2>8, AllowedSource DEF Register, Goto
      <3>2. /\ DOMAIN clients' \subseteq Sources
            /\ \A s \in DOMAIN clients' : clients'[s] \in Nat \ {0}
        BY <2>8, <3>1 DEF Register, Enter, Count
      <3> QED
        BY <2>8, <3>1, <3>2 DEF Register, Enter, Goto
    <2> QED
      BY <1>1, <2>1, <2>2, <2>3, <2>4, <2>5, <2>6, <2>7, <2>8 DEF Serve, Accept
  <1>2. CASE Close
    <2>1. CASE CloseMark
      BY <2>1 DEF CloseMark
    <2>2. CASE CloseSignal
      BY <2>2 DEF CloseSignal
    <2>3. CASE CloseInner
      BY <2>3 DEF CloseInner
    <2> QED
      BY <1>2, <2>1, <2>2, <2>3 DEF Close
  <1>3. ASSUME NEW c \in Conns, ConnClose(c) PROVE IndType'
    <2>1. CASE CloseSocket(c)
      BY <2>1 DEF CloseSocket
    <2>2. CASE Unregister(c)
      <3>1. c \in connections
        BY <2>2 DEF Unregister
      <3>2. /\ DOMAIN clients' \subseteq Sources
            /\ \A s \in DOMAIN clients' : clients'[s] \in Nat \ {0}
        BY <2>2, <3>1 DEF Unregister, Count
      <3> QED
        BY <2>2, <3>1, <3>2 DEF Unregister
    <2>3. CASE ReleaseConn(c)
      BY <2>3 DEF ReleaseConn, Release
    <2> QED
      BY <1>3, <2>1, <2>2, <2>3 DEF ConnClose
  <1>4. CASE CloseConnections
    BY <1>4 DEF CloseConnections, SweepStart, SweepEnd, SweepNext, SweepClosed
  <1>5. CASE UNCHANGED vars
    BY <1>5 DEF vars
  <1> QED
    BY <1>1, <1>2, <1>3, <1>4, <1>5 DEF Next

(* Every reachable state is well typed: the slots taken stay within the    *)
(* channel's capacity and no client is recorded with no connection.        *)
THEOREM TypeCorrect == Spec => []TypeOK
  <1>1. Spec => []IndType
    BY InitIndType, NextIndType, PTL DEF Spec
  <1>2. IndType => TypeOK
    BY DEF IndType
  <1> QED
    BY <1>1, <1>2, PTL

-----------------------------------------------------------------------------
LEMMA HoldersFinite ==
  ASSUME IndType
  PROVE  /\ IsFiniteSet(Holders) /\ Cardinality(Holders) \in Nat
         /\ IsFiniteSet(AtPhase({"open", "closed", "removed"}))
  <1>1. AtPhase({"open", "closed", "removed"}) \subseteq Conns
    BY DEF AtPhase
  <1>2. IsFiniteSet(AtPhase({"open", "closed", "removed"}))
    BY <1>1, ConnsFinite, FS_Subset
  <1>3. IsFiniteSet({NoConn}) /\ IsFiniteSet({})
    BY FS_Singleton, FS_EmptySet
  <1>4. IsFiniteSet(Holders)
    BY <1>2, <1>3, FS_Union DEF Holders
  <1> QED
    BY <1>2, <1>4, FS_CardinalityType

(* A slot taken by the acceptor, given back by it, or passed on to the     *)
(* connection it registers.                                                *)
LEMMA HoldersChange ==
  ASSUME IndType
  PROVE  /\ \A h \in Holders :
              Cardinality(Holders \ {h}) = Cardinality(Holders) - 1
         /\ NoConn \notin Holders =>
              Cardinality(Holders \cup {NoConn}) = Cardinality(Holders) + 1
         /\ \A c \in Conns \ Holders : NoConn \in Holders =>
              Cardinality((Holders \ {NoConn}) \cup {c}) = Cardinality(Holders)
  <1> USE HoldersFinite
  <1>1. \A h \in Holders : /\ IsFiniteSet(Holders \ {h})
                           /\ Cardinality(Holders \ {h}) = Cardinality(Holders) - 1
    BY FS_RemoveElement
  <1>2. NoConn \notin Holders =>
          Cardinality(Holders \cup {NoConn}) = Cardinality(Holders) + 1
    BY FS_AddElement
  <1>3. ASSUME NEW c \in Conns \ Holders, NoConn \in Holders
        PROVE  Cardinality((Holders \ {NoConn}) \cup {c}) = Cardinality(Holders)
    <2>1. c \notin Holders \ {NoConn}
      BY <1>3
    <2>2. Cardinality((Holders \ {NoConn}) \cup {c}) = Cardinality(Holders \ {NoConn}) + 1
      BY <1>1, <1>3, <2>1, FS_AddElement
    <2>3. Cardinality(Holders \ {NoConn}) = Cardinality(Holders) - 1
      BY <1>1, <1>3
    <2>4. Cardinality(Holders) \in Nat
      BY HoldersFinite
    <2> QED
      BY <2>2, <2>3, <2>4
  <1> QED
    BY <1>1, <1>2, <1>3

LEMMA InitCapacity == Init => CapacityExact
  <1> SUFFICES ASSUME Init PROVE CapacityExact
    OBVIOUS
  <1>1. Holders = {}
    BY DEF Init, Holders, AtPhase, HoldingPcs
  <1> QED
    BY <1>1, FS_EmptySet DEF Init, CapacityExact

LEMMA NextCapacity == IndType /\ CapacityExact /\ [Next]_vars => CapacityExact'
  <1> SUFFICES ASSUME IndType, CapacityExact, [Next]_vars PROVE CapacityExact'
    OBVIOUS
  <1> USE HoldersFinite, HoldersChange, NoConnOutside
      DEF IndType, TypeOK, HandOK, RegistryExact, Phases, AcceptPcs, HoldingPcs,
          CapacityExact, Holders, AtPhase,
          closeVars, sweepVars, registryVars, acceptVars
  <1>1. CASE Serve
    <2>1. CASE CallAccept \/ CheckDone \/ GiveUpSlot \/ InnerAcceptError
                 \/ ReturnError \/ RegisterLate \/ ServeRetry \/ ServeGiveUp
                 \/ ServeReturn \/ FilterPass \/ FilterDrop \/ CloseLate
                 \/ \E c \in Conns : InnerAccept(c)
      <3>1. Holders' = Holders /\ tokens' = tokens
        BY <2>1 DEF CallAccept, CheckDone, GiveUpSlot, InnerAcceptError, ReturnError,
             RegisterLate, ServeRetry, ServeGiveUp, ServeReturn, FilterPass,
             FilterDrop, CloseLate, InnerAccept, Goto
      <3> QED
        BY <3>1
    <2>2. CASE TakeSlot
      <3>1. NoConn \notin Holders /\ Holders' = Holders \cup {NoConn} /\ tokens' = tokens + 1
        BY <2>2 DEF TakeSlot, Goto
      <3> QED
        BY <3>1
    <2>3. CASE ReleaseFailed \/ ReleaseDropped \/ ReleaseLate
      <3>1. NoConn \in Holders /\ Holders' = Holders \ {NoConn} /\ tokens' = tokens - 1
        BY <2>3 DEF ReleaseFailed, ReleaseDropped, ReleaseLate, Goto, Release
      <3> QED
        BY <3>1
    <2>4. CASE Recheck
      <3>1. NoConn \in Holders
        BY <2>4 DEF Recheck, Goto
      <3>2. CASE done
        <4>1. Holders' = Holders \ {NoConn} /\ tokens' = tokens - 1
          BY <2>4, <3>2 DEF Recheck, Goto, Release
        <4> QED
          BY <3>1, <4>1
      <3>3. CASE ~done
        <4>1. Holders' = Holders /\ tokens' = tokens
          BY <2>4, <3>3 DEF Recheck, Goto
        <4> QED
          BY <4>1
      <3> QED
        BY <3>2, <3>3
    <2>5. CASE Register
      <3>1. /\ NoConn \in Holders /\ current \in Conns \ Holders
            /\ Holders' = (Holders \ {NoConn}) \cup {current} /\ tokens' = tokens
        BY <2>5 DEF Register, Enter, Goto
      <3> QED
        BY <3>1
    <2> QED
      BY <1>1, <2>1, <2>2, <2>3, <2>4, <2>5 DEF Serve, Accept
  <1>2. CASE Close \/ CloseConnections \/ UNCHANGED vars
    <2>1. Holders' = Holders /\ tokens' = tokens
      BY <1>2 DEF Close, CloseMark, CloseSignal, CloseInner, vars, CloseConnections,
                  SweepStart, SweepEnd, SweepNext, SweepClosed
    <2> QED
      BY <2>1
  <1>3. ASSUME NEW c \in Conns, ConnClose(c) PROVE CapacityExact'
    <2>1. CASE CloseSocket(c) \/ Unregister(c)
      <3>1. Holders' = Holders /\ tokens' = tokens
        BY <2>1 DEF CloseSocket, Unregister
      <3> QED
        BY <3>1
    <2>2. CASE ReleaseConn(c)
      <3>1. c \in Holders /\ Holders' = Holders \ {c} /\ tokens' = tokens - 1
        BY <2>2 DEF ReleaseConn, Release
      <3> QED
        BY <3>1
    <2> QED
      BY <1>3, <2>1, <2>2 DEF ConnClose
  <1> QED
    BY <1>1, <1>2, <1>3 DEF Next

(* A slot is held exactly by the acceptor at work and by every connection  *)
(* whose Close has not finished, whatever errors, refusals and closes have *)
(* happened: the limit of connections never leaks away nor grows.          *)
THEOREM CapacityCorrect == Spec => []CapacityExact
  <1>1. Init => IndType /\ CapacityExact
    BY InitIndType, InitCapacity
  <1>2. (IndType /\ CapacityExact) /\ [Next]_vars => (IndType /\ CapacityExact)'
    BY NextIndType, NextCapacity
  <1> QED
    BY <1>1, <1>2, PTL DEF Spec

-----------------------------------------------------------------------------
Inv == IndType /\ CapacityExact

LEMMA Invariance == Spec => []Inv
  <1>1. Init => Inv
    BY InitIndType, InitCapacity DEF Inv
  <1>2. Inv /\ [Next]_vars => Inv'
    BY NextIndType, NextCapacity DEF Inv
  <1> QED
    BY <1>1, <1>2, PTL DEF Spec

(* The connection under inspection has a slot that is not yet counted as   *)
(* its own, so with it the open sockets are still within the limit.        *)
LEMMA SocketsWithinSlots == Inv => SocketsBounded
  <1> SUFFICES ASSUME Inv PROVE SocketsBounded
    OBVIOUS
  <1> USE HoldersFinite, HoldersChange, CapacityNat DEF Inv, IndType
  <1>1. Cardinality(Holders) \in Nat /\ Cardinality(Holders) <= Capacity
    BY CapacityNat DEF CapacityExact, TypeOK
  <1>2. CASE acceptPc \in {"filter", "register", "late"}
    <2> DEFINE S == (Holders \ {NoConn}) \cup {current}
    <2>1. NoConn \in Holders /\ current \in Conns \ Holders
      BY <1>2, NoConnOutside DEF HandOK, Holders, HoldingPcs, AtPhase
    <2>2. AtPhase({"accepted", "open"}) \subseteq S
      BY <1>2, NoConnOutside DEF HandOK, Holders, AtPhase
    <2>3. Cardinality(S) = Cardinality(Holders)
      BY <2>1
    <2>4. IsFiniteSet(S)
      BY FS_Singleton, FS_Union, FS_Difference
    <2>5. Cardinality(AtPhase({"accepted", "open"})) <= Cardinality(S)
      BY <2>2, <2>4, FS_Subset
    <2>6. Cardinality(AtPhase({"accepted", "open"})) \in Nat
      BY <2>2, <2>4, FS_Subset, FS_CardinalityType
    <2> QED
      BY <1>1, <2>3, <2>5, <2>6 DEF SocketsBounded
  <1>3. CASE acceptPc \notin {"filter", "register", "late"}
    <2>1. AtPhase({"accepted", "open"}) \subseteq Holders
      BY <1>3, NoConnOutside DEF HandOK, Holders, AtPhase
    <2>2. /\ Cardinality(AtPhase({"accepted", "open"})) <= Cardinality(Holders)
          /\ Cardinality(AtPhase({"accepted", "open"})) \in Nat
      BY <2>1, FS_Subset, FS_CardinalityType
    <2> QED
      BY <1>1, <2>2 DEF SocketsBounded
  <1> QED
    BY <1>2, <1>3

(* The limit of simultaneously open client sockets holds for every number  *)
(* of connections and every limit.                                         *)
THEOREM SocketsBoundedCorrect == Spec => []SocketsBounded
  BY Invariance, SocketsWithinSlots, PTL

(* No open socket is out of reach of a later sweep.                        *)
THEOREM NoLeak == Spec => []NoLeakedSocket
  <1>1. Inv => NoLeakedSocket
    BY DEF Inv, IndType, HandOK, RegistryExact, NoLeakedSocket, AtPhase
  <1> QED
    BY <1>1, Invariance, PTL

-----------------------------------------------------------------------------
(* After Close has marked the listener no connection is registered.        *)
THEOREM NoAdmissionCorrect == Spec => NoAdmissionAfterClose
  <1>1. [Next]_vars => [closed => connections' \subseteq connections]_vars
    <2> SUFFICES ASSUME Next, closed PROVE connections' \subseteq connections
      OBVIOUS
    <2> USE DEF registryVars
    <2>1. CASE Serve
      BY <2>1 DEF Serve, Accept, CallAccept, CheckDone, TakeSlot, GiveUpSlot, Recheck,
           InnerAccept, InnerAcceptError, ReleaseFailed, ReturnError, FilterPass,
           FilterDrop, ReleaseDropped, Register, RegisterLate, CloseLate, ReleaseLate,
           ServeRetry, ServeGiveUp, ServeReturn
    <2>2. CASE Close
      BY <2>2 DEF Close, CloseMark, CloseSignal, CloseInner
    <2>3. ASSUME NEW c \in Conns, ConnClose(c) PROVE connections' \subseteq connections
      BY <2>3 DEF ConnClose, CloseSocket, Unregister, ReleaseConn
    <2>4. CASE CloseConnections
      BY <2>4 DEF CloseConnections, SweepStart, SweepEnd, SweepNext, SweepClosed
    <2> QED
      BY <2>1, <2>2, <2>3, <2>4 DEF Next
  <1> QED
    BY <1>1, PTL DEF Spec, NoAdmissionAfterClose

-----------------------------------------------------------------------------
(* While a sweep of a closed listener runs, what is still registered is in *)
(* the rest of its snapshot.                                               *)
SweepInv ==
  /\ sweepPc \in {"no", "running", "over"}
  /\ sweptClosed => closed
  /\ sweepPc = "no" => ~sweptClosed
  /\ sweepPc = "running" /\ sweptClosed => connections \subseteq sweepLeft
  /\ sweepPc = "over" /\ sweptClosed => connections = {}

LEMMA NextSweepInv == IndType /\ SweepInv /\ [Next]_vars => SweepInv'
  <1> SUFFICES ASSUME IndType, SweepInv, [Next]_vars PROVE SweepInv'
    OBVIOUS
  <1> USE DEF SweepInv, closeVars, sweepVars, registryVars, acceptVars
  <1>1. CASE Serve
    <2>1. UNCHANGED <<closeVars, sweepVars>>
      BY <1>1 DEF Serve, Accept, CallAccept, CheckDone, TakeSlot, GiveUpSlot, Recheck,
           InnerAccept, InnerAcceptError, ReleaseFailed, ReturnError, FilterPass,
           FilterDrop, ReleaseDropped, Register, RegisterLate, CloseLate, ReleaseLate,
           ServeRetry, ServeGiveUp, ServeReturn
    <2>2. closed => connections' = connections
      BY <1>1 DEF Serve, Accept, CallAccept, CheckDone, TakeSlot, GiveUpSlot, Recheck,
           InnerAccept, InnerAcceptError, ReleaseFailed, ReturnError, FilterPass,
           FilterDrop, ReleaseDropped, Register, RegisterLate, CloseLate, ReleaseLate,
           ServeRetry, ServeGiveUp, ServeReturn
    <2> QED
      BY <2>1, <2>2
  <1>2. CASE Close
    BY <1>2 DEF Close, CloseMark, CloseSignal, CloseInner
  <1>3. ASSUME NEW c \in Conns, ConnClose(c) PROVE SweepInv'
    <2>1. UNCHANGED <<closeVars, sweepVars>> /\ connections' \subseteq connections
      BY <1>3 DEF ConnClose, CloseSocket, Unregister, ReleaseConn
    <2> QED
      BY <2>1
  <1>4. CASE CloseConnections
    <2>1. CASE SweepStart
      BY <2>1 DEF SweepStart
    <2>2. CASE SweepEnd
      BY <2>2 DEF SweepEnd
    <2>3. ASSUME NEW c \in Conns, SweepNext(c) PROVE SweepInv'
      BY <2>3 DEF SweepNext
    <2>4. ASSUME NEW c \in Conns, SweepClosed(c) PROVE SweepInv'
      <3>1. c \notin connections
        BY <2>4 DEF SweepClosed, IndType, RegistryExact
      <3> QED
        BY <2>4, <3>1 DEF SweepClosed
    <2> QED
      BY <1>4, <2>1, <2>2, <2>3, <2>4 DEF CloseConnections
  <1>5. CASE UNCHANGED vars
    BY <1>5 DEF vars
  <1> QED
    BY <1>1, <1>2, <1>3, <1>4, <1>5 DEF Next

(* CloseConnections after Close is complete: no connection registers       *)
(* behind its snapshot, so when it returns none is left open.              *)
THEOREM LateSweepCorrect == Spec => []LateSweepEmpties
  <1>1. Init => SweepInv
    BY DEF Init, SweepInv
  <1>2. IndType /\ SweepInv => LateSweepEmpties
    BY DEF IndType, RegistryExact, SweepInv, LateSweepEmpties, AtPhase
  <1>3. Spec => []SweepInv
    BY <1>1, InitIndType, NextIndType, NextSweepInv, PTL DEF Spec
  <1>4. Spec => []IndType
    BY InitIndType, NextIndType, PTL DEF Spec
  <1> QED
    BY <1>2, <1>3, <1>4, PTL

-----------------------------------------------------------------------------
(* The filter, on normalised addresses and a normalised prefix, decides    *)
(* what an observer of hosts and subnets would: the spellings drop out.    *)
LEMMA FilterExact ==
  ASSUME NEW c \in Conns
  PROVE  Allowed(c) <=> c \in AllowedConns
  <1>1. CASE RemoteAddr[c] = NoAddress
    BY <1>1 DEF Allowed, AllowedConns
  <1>2. CASE RemoteAddr[c] # NoAddress
    <2>1. RemoteAddr[c] \in Address
      BY <1>2, AddressesOfConns
    <2>2. /\ SourceAt(c).host = RemoteAddr[c].host
          /\ SourceAt(c).mapped = FALSE /\ SourceAt(c).zoned = FALSE
      BY <2>1 DEF SourceAt, NormalizeAddress, Address
    <2>3. /\ AllowedSubnet.valid <=> Subnet.valid /\ (Subnet.mapped => Subnet.long)
          /\ AllowedSubnet.hosts = Subnet.hosts
          /\ AllowedSubnet.valid => AllowedSubnet.mapped = FALSE
      BY SubnetIsPrefix DEF AllowedSubnet, NormalizePrefix, Prefix
    <2> QED
      BY <1>2, <2>2, <2>3 DEF Allowed, AllowedConns, Contains
  <1> QED
    BY <1>1, <1>2

LEMMA GateCardinality ==
  ASSUME NEW S
  PROVE  Gate!Cardinality(S) = Cardinality(S)
  BY DEF Gate!Cardinality, Cardinality

LEMMA InitGate == Init => Gate!Init
  BY DEF Init, Gate!Init, AtPhase

LEMMA NextGate == Inv /\ [Next]_vars => [Gate!Next]_(Gate!gateVars)
  <1> SUFFICES ASSUME Inv, [Next]_vars
               PROVE  Gate!Next \/ UNCHANGED Gate!gateVars
    OBVIOUS
  <1> USE DEF Inv, IndType, TypeOK, HandOK, RegistryExact, AtPhase, Phases,
              closeVars, sweepVars, registryVars, acceptVars, Gate!gateVars
  <1>1. CASE Serve
    <2>1. CASE CallAccept \/ CheckDone \/ TakeSlot \/ GiveUpSlot \/ Recheck
                 \/ InnerAcceptError \/ ReleaseFailed \/ ReturnError \/ FilterPass
                 \/ ReleaseDropped \/ RegisterLate \/ ReleaseLate \/ ServeRetry
                 \/ ServeGiveUp \/ ServeReturn
      BY <2>1 DEF CallAccept, CheckDone, TakeSlot, GiveUpSlot, Recheck,
           InnerAcceptError, ReleaseFailed, ReturnError, FilterPass, ReleaseDropped,
           RegisterLate, ReleaseLate, ServeRetry, ServeGiveUp, ServeReturn
    <2>2. ASSUME NEW c \in Conns, InnerAccept(c) PROVE UNCHANGED Gate!gateVars
      BY <2>2 DEF InnerAccept
    <2>3. CASE FilterDrop
      <3>1. PICK c \in Conns : c = current /\ c \notin AllowedConns
        BY <2>3, FilterExact DEF FilterDrop, Goto
      <3>2. Gate!Refuse(c)
        BY <2>3, <3>1 DEF FilterDrop, Gate!Refuse, Goto
      <3> QED
        BY <3>2 DEF Gate!Next
    <2>4. CASE CloseLate
      <3>1. PICK c \in Conns : c = current /\ closed
        BY <2>4 DEF CloseLate, Goto
      <3>2. Gate!Refuse(c)
        BY <2>4, <3>1 DEF CloseLate, Gate!Refuse, Goto
      <3> QED
        BY <3>2 DEF Gate!Next
    <2>5. CASE Register
      <3>1. current \in AllowedConns
        BY <2>5, FilterExact DEF Register, Goto
      <3>2. NoConn \in Holders /\ connections \subseteq Holders \ {NoConn}
        BY <2>5, NoConnOutside DEF Register, Goto, Holders, HoldingPcs
      <3>3. Cardinality(Holders \ {NoConn}) = tokens - 1
        BY <3>2, HoldersChange DEF CapacityExact
      <3>4. Cardinality(connections) <= tokens - 1 /\ Cardinality(connections) \in Nat
        <4>1. IsFiniteSet(Holders \ {NoConn})
          BY HoldersFinite, FS_Difference
        <4> QED
          BY <3>2, <3>3, <4>1, FS_Subset, FS_CardinalityType
      <3>5. Cardinality(connections) < Capacity
        BY <3>4, CapacityNat
      <3>6. Gate!Admit(current)
        BY <2>5, <3>1, <3>5, GateCardinality DEF Register, Enter, Goto, Gate!Admit
      <3> QED
        BY <2>5, <3>6 DEF Gate!Next, Register, Goto
    <2> QED
      BY <1>1, <2>1, <2>2, <2>3, <2>4, <2>5 DEF Serve, Accept
  <1>2. CASE Close
    <2>1. CASE CloseMark
      BY <2>1 DEF CloseMark, Gate!Next, Gate!Shut
    <2>2. CASE CloseSignal \/ CloseInner
      BY <2>2 DEF CloseSignal, CloseInner
    <2> QED
      BY <1>2, <2>1, <2>2 DEF Close
  <1>3. ASSUME NEW c \in Conns, ConnClose(c) PROVE Gate!Next \/ UNCHANGED Gate!gateVars
    <2>1. CASE CloseSocket(c) \/ ReleaseConn(c)
      BY <2>1 DEF CloseSocket, ReleaseConn
    <2>2. CASE Unregister(c)
      <3>1. c \in connections
        BY <2>2 DEF Unregister
      <3>2. Gate!Leave(c)
        BY <2>2, <3>1 DEF Unregister, Gate!Leave
      <3> QED
        BY <3>2 DEF Gate!Next
    <2> QED
      BY <1>3, <2>1, <2>2 DEF ConnClose
  <1>4. CASE CloseConnections
    BY <1>4 DEF CloseConnections, SweepStart, SweepEnd, SweepNext, SweepClosed
  <1>5. CASE UNCHANGED vars
    BY <1>5 DEF vars
  <1> QED
    BY <1>1, <1>2, <1>3, <1>4, <1>5 DEF Next

(* The listener, with its mutex, channels and goroutines, implements the   *)
(* gate: every one of its steps is a step of the gate or invisible to it.  *)
THEOREM ListenerIsGate == Spec => GateSpec
  BY InitGate, NextGate, Invariance, PTL DEF Spec, GateSpec, Gate!Spec

-----------------------------------------------------------------------------
(* The client table.  From(s) are the registered connections of a source.  *)
From(s) == {c \in connections : SourceAt(c) = s}

CountsKnown ==
  /\ \A c \in connections : RemoteAddr[c] # NoAddress
  /\ \A s \in Sources : Count(s) = Cardinality(From(s))

LEMMA FromFinite ==
  ASSUME connections \subseteq Conns, NEW s
  PROVE  IsFiniteSet(From(s)) /\ Cardinality(From(s)) \in Nat
  <1>1. From(s) \subseteq Conns
    BY DEF From
  <1> QED
    BY <1>1, ConnsFinite, FS_Subset, FS_CardinalityType

LEMMA RegisterCounts == IndType /\ CountsKnown /\ Register => CountsKnown'
  <1> SUFFICES ASSUME IndType, CountsKnown, Register PROVE CountsKnown'
    OBVIOUS
  <1> DEFINE c == current
  <1>1. /\ c \in Conns \ connections /\ Allowed(c) /\ connections' = connections \cup {c}
        /\ connections \subseteq Conns
    BY DEF Register, Goto, Enter, IndType, TypeOK, HandOK, RegistryExact
  <1>2. \A d \in connections' : RemoteAddr[d] # NoAddress
    BY <1>1 DEF CountsKnown, Allowed
  <1>3. ASSUME NEW s \in Sources PROVE Count(s)' = Cardinality(From(s)')
    <2>1. CASE s = SourceAt(c)
      <3>1. From(s)' = From(s) \cup {c} /\ c \notin From(s)
        BY <1>1, <2>1 DEF From
      <3>2. Cardinality(From(s)') = Cardinality(From(s)) + 1
        BY <1>1, <3>1, FromFinite, FS_AddElement
      <3>3. Count(s)' = Count(s) + 1
        BY <2>1 DEF Register, Enter, Count
      <3> QED
        BY <3>2, <3>3 DEF CountsKnown
    <2>2. CASE s # SourceAt(c)
      <3>1. From(s)' = From(s)
        BY <1>1, <2>2 DEF From
      <3>2. Count(s)' = Count(s)
        BY <2>2 DEF Register, Enter, Count
      <3> QED
        BY <3>1, <3>2 DEF CountsKnown
    <2> QED
      BY <2>1, <2>2
  <1> QED
    BY <1>2, <1>3 DEF CountsKnown

LEMMA UnregisterCounts ==
  ASSUME NEW c \in Conns
  PROVE  IndType /\ CountsKnown /\ Unregister(c) => CountsKnown'
  <1> SUFFICES ASSUME IndType, CountsKnown, Unregister(c) PROVE CountsKnown'
    OBVIOUS
  <1>1. /\ c \in connections /\ connections' = connections \ {c} /\ connections \subseteq Conns
        /\ clients' = IF Count(SourceAt(c)) = 1
                        THEN [s \in DOMAIN clients \ {SourceAt(c)} |-> clients[s]]
                        ELSE [clients EXCEPT ![SourceAt(c)] = @ - 1]
    BY DEF Unregister, IndType, TypeOK, RegistryExact
  <1>2. \A d \in connections' : RemoteAddr[d] # NoAddress
    BY <1>1 DEF CountsKnown
  <1>3. ASSUME NEW s \in Sources PROVE Count(s)' = Cardinality(From(s)')
    <2>1. CASE s = SourceAt(c)
      <3>1. From(s)' = From(s) \ {c} /\ c \in From(s)
        BY <1>1, <2>1 DEF From
      <3>2. Cardinality(From(s)') = Cardinality(From(s)) - 1
        BY <1>1, <3>1, FromFinite, FS_RemoveElement
      <3>3. Count(s) # 0
        BY <1>1, <3>1, FromFinite, FS_EmptySet DEF CountsKnown
      <3>4. Count(s)' = Count(s) - 1
        BY <1>1, <2>1, <3>3 DEF Count
      <3> QED
        BY <3>2, <3>4 DEF CountsKnown
    <2>2. CASE s # SourceAt(c)
      <3>1. From(s)' = From(s)
        BY <1>1, <2>2 DEF From
      <3>2. Count(s)' = Count(s)
        BY <1>1, <2>2 DEF Count
      <3> QED
        BY <3>1, <3>2 DEF CountsKnown
    <2> QED
      BY <2>1, <2>2
  <1> QED
    BY <1>2, <1>3 DEF CountsKnown

LEMMA NextCounts == IndType /\ CountsKnown /\ [Next]_vars => CountsKnown'
  <1> SUFFICES ASSUME IndType, CountsKnown, [Next]_vars PROVE CountsKnown'
    OBVIOUS
  <1>1. ASSUME UNCHANGED registryVars PROVE CountsKnown'
    BY <1>1 DEF registryVars, CountsKnown, From, Count
  <1>2. CASE Serve
    <2>1. Register \/ UNCHANGED registryVars
      BY <1>2 DEF Serve, Accept, CallAccept, CheckDone, TakeSlot, GiveUpSlot, Recheck,
           InnerAccept, InnerAcceptError, ReleaseFailed, ReturnError, FilterPass,
           FilterDrop, ReleaseDropped, RegisterLate, CloseLate, ReleaseLate,
           ServeRetry, ServeGiveUp, ServeReturn
    <2> QED
      BY <1>1, <2>1, RegisterCounts
  <1>3. ASSUME NEW c \in Conns, ConnClose(c) PROVE CountsKnown'
    <2>1. Unregister(c) \/ UNCHANGED registryVars
      BY <1>3 DEF ConnClose, CloseSocket, ReleaseConn
    <2> QED
      BY <1>1, <2>1, UnregisterCounts
  <1>4. CASE Close \/ CloseConnections \/ UNCHANGED vars
    <2>1. UNCHANGED registryVars
      BY <1>4 DEF Close, CloseMark, CloseSignal, CloseInner, CloseConnections, SweepStart,
           SweepEnd, SweepNext, SweepClosed, vars, registryVars
    <2> QED
      BY <1>1, <2>1
  <1> QED
    BY <1>2, <1>3, <1>4 DEF Next

(* The table counts the registered connections of each machine and has no  *)
(* other entry, whatever spellings of an address they have come with.      *)
THEOREM ClientsCorrect == Spec => []ClientsExact
  <1>1. Init => CountsKnown
    <2> SUFFICES ASSUME Init, NEW s \in Sources PROVE Count(s) = Cardinality(From(s))
      BY DEF Init, CountsKnown
    <2>1. From(s) = {} /\ Count(s) = 0
      BY DEF Init, From, Count
    <2> QED
      BY <2>1, FS_EmptySet
  <1>2. ASSUME IndType, CountsKnown PROVE ClientsExact
    <2>1. /\ connections \subseteq Conns /\ DOMAIN clients \subseteq Sources
          /\ \A s \in DOMAIN clients : clients[s] \in Nat \ {0}
      BY <1>2 DEF IndType, TypeOK
    <2>2. \A c \in connections : SourceAt(c) \in Sources /\ RemoteAddr[c] \in Address
      BY <1>2, <2>1, AddressesOfConns DEF CountsKnown, Sources
    <2>3. ASSUME NEW s \in Sources PROVE s \in DOMAIN clients <=> From(s) # {}
      <3>1. s \in DOMAIN clients <=> Count(s) # 0
        BY <2>1 DEF Count
      <3>2. Count(s) # 0 <=> From(s) # {}
        BY <1>2, <2>1, FromFinite, FS_EmptySet DEF CountsKnown
      <3> QED
        BY <3>1, <3>2
    <2>4. DOMAIN clients = {SourceAt(c) : c \in connections}
      BY <2>1, <2>2, <2>3 DEF From
    <2>5. ASSUME NEW s \in DOMAIN clients
          PROVE  clients[s] = Cardinality({c \in connections : RemoteAddr[c].host = s.host})
      <3>1. PICK d \in connections : s = SourceAt(d)
        BY <2>4
      <3>2. \A c \in connections : SourceAt(c) = s <=> RemoteAddr[c].host = s.host
        BY <2>2, <3>1 DEF SourceAt, NormalizeAddress, Address
      <3>3. From(s) = {c \in connections : RemoteAddr[c].host = s.host}
        BY <3>2 DEF From
      <3>4. clients[s] = Cardinality(From(s))
        BY <1>2, <2>1 DEF CountsKnown, Count
      <3> QED
        BY <3>3, <3>4
    <2> QED
      BY <2>4, <2>5 DEF ClientsExact
  <1>3. Spec => []IndType
    BY InitIndType, NextIndType, PTL DEF Spec
  <1> QED
    BY <1>1, <1>2, <1>3, NextCounts, PTL DEF Spec

-----------------------------------------------------------------------------
(* Nobody waits in vain                                                    *)

(* Receiving from the channel of slots would block if it were empty, and   *)
(* sending if it were full: who gives a slot back finds one, and an        *)
(* acceptor that waits for one waits for connections that are there.       *)
SlotsCome ==
  /\ acceptPc \in {"recheck", "failed", "dropped", "lateClosed"} => tokens > 0
  /\ \A c \in Conns : phase[c] = "removed" => tokens > 0
  /\ acceptPc = "select" /\ 0 < Capacity /\ ~(tokens < Capacity) =>
       AtPhase({"open", "closed", "removed"}) # {}

(* No release blocks, on whatever path, and a full listener is full of     *)
(* connections that can end: no slot is held by nobody.                    *)
THEOREM NobodyBlocks == Spec => []SlotsCome
  <1>1. ASSUME Inv PROVE SlotsCome
    <2> USE <1>1, CapacityNat DEF Inv, IndType, TypeOK
    <2>1. ASSUME NEW h \in Holders PROVE tokens > 0
      BY <2>1, HoldersFinite, FS_EmptySet DEF CapacityExact
    <2>2. acceptPc \in HoldingPcs => NoConn \in Holders
      BY DEF Holders
    <2>3. \A c \in Conns : phase[c] = "removed" => c \in Holders
      BY DEF Holders, AtPhase
    <2>4. ASSUME acceptPc = "select", 0 < Capacity, ~(tokens < Capacity)
          PROVE  AtPhase({"open", "closed", "removed"}) # {}
      <3>1. Holders = AtPhase({"open", "closed", "removed"})
        BY <2>4 DEF Holders, HoldingPcs
      <3>2. Cardinality(Holders) # 0
        BY <2>4 DEF CapacityExact
      <3> QED
        BY <3>1, <3>2, FS_EmptySet
    <2> QED
      BY <2>1, <2>2, <2>3, <2>4 DEF SlotsCome, HoldingPcs
  <1> QED
    BY <1>1, Invariance, PTL
=============================================================================
