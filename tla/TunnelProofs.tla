----------------------------- MODULE TunnelProofs -----------------------------
(***************************************************************************)
(* Proofs about Tunnel.  The point is what deadlineMutex is for: flag and  *)
(* timer may disagree only while somebody is between the two, and he who   *)
(* clears a deadline does it when nobody reads.                            *)
(***************************************************************************)
EXTENDS Tunnel, TLAPS

(* A Read is under way only where one can have begun, and only there a copy*)
(* is running.                                                             *)
ReaderPlace ==
  /\ reader # "off" =>
       \/ pc \in {"readHeader", "readNext", "handler", "abort", "wait"}
       \/ pc = "tunnel" /\ up = "read"
  /\ up \in {"read", "write", "ending"} => pc = "tunnel"
  /\ up = "ended" => pc \in {"tunnel", "over"}

(* What the flag is, by the place of the server.                           *)
FlagPlace ==
  /\ marked => flag = Sets[pc]
  /\ pc \in {"readHeader", "readNext"} => flag = "soon"
  /\ pc \in {"handler", "dial", "tunnel"} => flag = "none"
  /\ pc = "wait" => flag = "past"

(* The socket has the deadline of the flag, or an idle one if there is none*)
TimerFollows ==
  /\ ~marked /\ flag # "none" => timer = flag
  /\ reader = "refreshing" => flag = "none"
  /\ reader = "reading" /\ flag = "none" => timer = "idle"

IInv == TypeOK /\ ReaderPlace /\ FlagPlace /\ TimerFollows

LEMMA InitInv == Init => IInv
  BY DEF Init, IInv, TypeOK, ReaderPlace, FlagPlace, TimerFollows, Deadlines, Sets

(* The two halves of SetReadDeadline.                                      *)
LEMMA MarkInv == IInv /\ Mark => IInv'
  BY DEF Mark, IInv, TypeOK, ReaderPlace, FlagPlace, TimerFollows, Deadlines, Sets,
         socketVars, peerVars, copyVars

LEMMA SetTimerInv == IInv /\ SetTimer => IInv'
<1> SUFFICES ASSUME IInv, SetTimer PROVE IInv'
  OBVIOUS
<1> USE DEF SetTimer, socketVars, peerVars, copyVars
<1>1. /\ pc \in DOMAIN Sets /\ flag = Sets[pc]
      /\ pc' = After(pc) /\ timer' = Sets[pc] /\ marked' = FALSE
  BY DEF IInv, TypeOK, FlagPlace
<1>2. /\ pc = "header" => flag = "soon" /\ pc' = "readHeader"
      /\ pc = "body" => flag = "none" /\ pc' = "handler"
      /\ pc = "abort" => flag = "past" /\ pc' = "wait"
      /\ pc = "aborted" => flag = "none" /\ pc' \in {"hijack", "keepAlive"}
      /\ pc = "hijack" => flag = "none" /\ pc' = "dial"
      /\ pc = "keepAlive" => flag = "soon" /\ pc' = "readNext"
      /\ pc = "awake" => flag = "none" /\ pc' = "header"
      /\ pc \in {"header", "body", "abort", "aborted", "hijack", "keepAlive", "awake"}
  BY <1>1 DEF Sets, After
<1>3. TypeOK'
  <2>1. pc' \in DOMAIN Sets
                \cup {"readHeader", "handler", "wait", "dial", "readNext", "tunnel", "over"}
    BY <1>2 DEF Sets
  <2>2. timer' \in Deadlines
    BY <1>1 DEF IInv, TypeOK
  <2>3. marked' \in BOOLEAN /\ (marked' => pc' \in DOMAIN Sets)
    BY <1>1
  <2>4. flag' \in Deadlines /\ timer' \in Deadlines \cup {"idle"}
    BY <2>2 DEF IInv, TypeOK
  <2> QED
    BY <2>1, <2>3, <2>4 DEF IInv, TypeOK
<1>4. ReaderPlace'
  BY <1>1, <1>2 DEF IInv, ReaderPlace
<1>5. FlagPlace' /\ TimerFollows'
  BY <1>1, <1>2 DEF IInv, ReaderPlace, FlagPlace, TimerFollows
<1> QED
  BY <1>3, <1>4, <1>5 DEF IInv

LEMMA ReadInv == IInv /\ (Read \/ ReadBytes \/ ReadEnds) => IInv'
<1> USE DEF IInv, TypeOK, ReaderPlace, FlagPlace, TimerFollows, Deadlines, Sets,
            serverVars, socketVars, peerVars, copyVars
<1>1. IInv /\ BeginRead => IInv'
  BY DEF BeginRead
<1>2. IInv /\ Check => IInv'
  BY DEF Check
<1>3. IInv /\ Refresh => IInv'
  BY DEF Refresh
<1>4. IInv /\ ReadBytes => IInv'
  BY DEF ReadBytes
<1>5. IInv /\ ReadEnds => IInv'
  BY DEF ReadEnds
<1> QED
  BY <1>1, <1>2, <1>3, <1>4, <1>5 DEF Read

LEMMA HandlerInv ==
  IInv /\ (HandlerEnds \/ ReadAborted \/ TunnelOpens \/ DialFails \/ Sweep) => IInv'
<1> USE DEF IInv, TypeOK, ReaderPlace, FlagPlace, TimerFollows, Deadlines, Sets,
            serverVars, deadlineVars, socketVars, peerVars, copyVars
<1>1. IInv /\ HandlerEnds => IInv'
  BY DEF HandlerEnds
<1>2. IInv /\ ReadAborted => IInv'
  BY DEF ReadAborted
<1>3. IInv /\ TunnelOpens => IInv'
  BY DEF TunnelOpens
<1>4. IInv /\ DialFails => IInv'
  BY DEF DialFails
<1>5. IInv /\ Sweep => IInv'
  BY DEF Sweep
<1> QED
  BY <1>1, <1>2, <1>3, <1>4, <1>5

LEMMA CopyInv ==
  IInv /\ (Upload \/ UploadWritten \/ Download \/ DownloadBytes \/ TunnelEnds) => IInv'
<1> USE DEF IInv, TypeOK, ReaderPlace, FlagPlace, TimerFollows, Deadlines, Sets,
            serverVars, deadlineVars, socketVars, peerVars, copyVars, CopyUnchanged
<1>1. IInv /\ UploadWritten => IInv'
  BY DEF UploadWritten
<1>2. IInv /\ UploadFails => IInv'
  BY DEF UploadFails
<1>3. IInv /\ UploadEnds => IInv'
  BY DEF UploadEnds
<1>4. IInv /\ DownloadBytes => IInv'
  BY DEF DownloadBytes
<1>5. IInv /\ DownloadOver => IInv'
  BY DEF DownloadOver
<1>6. IInv /\ DownloadWrite => IInv'
  BY DEF DownloadWrite
<1>7. IInv /\ DownloadEnds => IInv'
  BY DEF DownloadEnds
<1>8. IInv /\ TunnelEnds => IInv'
  BY DEF TunnelEnds
<1> QED
  BY <1>1, <1>2, <1>3, <1>4, <1>5, <1>6, <1>7, <1>8 DEF Upload, Download

LEMMA PeerInv == IInv /\ (ClientLeaves \/ TargetLeaves \/ TargetIsPolite) => IInv'
<1> SUFFICES ASSUME IInv, ClientLeaves \/ TargetLeaves \/ TargetIsPolite
             PROVE  IInv'
  OBVIOUS
<1>1. PeerUnchanged
  BY DEF ClientLeaves, TargetLeaves, TargetIsPolite
<1>2. clientPeer' \in {"up", "finished", "gone"} /\ targetPeer' \in {"up", "finished", "gone"}
  BY DEF ClientLeaves, TargetLeaves, TargetIsPolite, Leaves, IInv, TypeOK
<1> QED
  BY <1>1, <1>2 DEF PeerUnchanged, IInv, TypeOK, ReaderPlace, FlagPlace, TimerFollows, Sets,
                    serverVars, deadlineVars, socketVars, copyVars

LEMMA StepInv == IInv /\ [Next]_vars => IInv'
<1>1. IInv /\ UNCHANGED vars => IInv'
  BY DEF IInv, TypeOK, ReaderPlace, FlagPlace, TimerFollows, Deadlines, Sets, vars,
         serverVars, deadlineVars, socketVars, peerVars, copyVars
<1> QED
  BY <1>1, MarkInv, SetTimerInv, ReadInv, HandlerInv, CopyInv, PeerInv DEF Next, Server

LEMMA Invariant == Spec => []IInv
<1> QED
  BY InitInv, StepInv, PTL DEF Spec

(* The places, flags and timers of a connection are always what they can   *)
(* be: nobody waits inside SetReadDeadline where nothing is set.           *)
THEOREM TypeCorrect == Spec => []TypeOK
<1>1. IInv => TypeOK
  BY DEF IInv
<1> QED
  BY Invariant, <1>1, PTL

(* managedConn: no Read of a client blocks without a deadline, and in a    *)
(* tunnel the deadline is the idle timeout.                                *)
THEOREM ReadsAreTimedCorrect == Spec => []ReadsAreTimed
<1>1. IInv => ReadsAreTimed
  BY DEF IInv, TypeOK, ReaderPlace, FlagPlace, TimerFollows, ReadsAreTimed, Effective,
         Deadlines, Sets
<1> QED
  BY Invariant, <1>1, PTL

(* refreshReadDeadline never undoes the deadline with which http.Server    *)
(* wakes the background read.                                              *)
THEOREM AbortWakesReadCorrect == Spec => []AbortWakesRead
<1>1. IInv => AbortWakesRead
  BY DEF IInv, TypeOK, FlagPlace, TimerFollows, AbortWakesRead, Sets
<1> QED
  BY Invariant, <1>1, PTL

(* CloseRead and CloseWrite of managedHalfCloseConn leave the other half   *)
(* and the slot alone.                                                     *)
THEOREM HalfCloseCorrect == Spec => HalfCloseSparesOther
<1> DEFINE A == pc = "tunnel" /\ client # "closed" /\ client' = "closed"
                  => stopped' \/ (up = "ended" /\ down = "ended")
<1>1. Next => [A]_vars
  <2> USE DEF serverVars, deadlineVars, socketVars, peerVars, copyVars
  <2>1. Server \/ HandlerEnds \/ TunnelOpens \/ DialFails \/ Sweep => A
    BY DEF Server, Mark, SetTimer, ReadAborted, TunnelEnds, HandlerEnds, TunnelOpens, DialFails,
           Sweep
  <2>2. Read \/ ReadBytes \/ ReadEnds => A
    BY DEF Read, BeginRead, Check, Refresh, ReadBytes, ReadEnds
  <2>3. Upload \/ UploadWritten \/ Download \/ DownloadBytes => A
    BY DEF Upload, UploadFails, UploadEnds, UploadWritten, Download, DownloadOver,
           DownloadWrite, DownloadEnds, DownloadBytes
  <2>4. ClientLeaves \/ TargetLeaves \/ TargetIsPolite => A
    BY DEF ClientLeaves, TargetLeaves, TargetIsPolite, PeerUnchanged
  <2> QED
    BY <2>1, <2>2, <2>3, <2>4 DEF Next
<1>2. [Next]_vars => [A]_vars
  BY <1>1
<1> QED
  BY <1>2, PTL DEF Spec, HalfCloseSparesOther

-----------------------------------------------------------------------------
(* Neither socket is forgotten                                             *)

(* As long as there is a tunnel, a copy that has ended has told the socket *)
(* it wrote to, and only such a copy has; without one, the target's socket,*)
(* which no registry has, is closed, and in the end the client's is, too.  *)
Halves ==
  /\ pc = "tunnel" =>
       /\ up # "off" /\ down # "off"
       /\ target = IF up = "ended" THEN "shut" ELSE "open"
       /\ down = "ended" => client # "open"
  /\ pc # "tunnel" => target = "closed" /\ up \in {"off", "ended"} /\ down \in {"off", "ended"}
  /\ pc = "over" => client = "closed"

LEMMA HalvesStep == IInv /\ Halves /\ [Next]_vars => Halves'
<1> SUFFICES ASSUME IInv, Halves, [Next]_vars PROVE Halves'
  OBVIOUS
<1> USE DEF IInv, TypeOK, ReaderPlace, Halves, Sets, serverVars, deadlineVars, socketVars,
            peerVars, copyVars, CopyUnchanged, PeerUnchanged
<1>1. CASE Mark \/ ReadAborted \/ TunnelEnds
  BY <1>1 DEF Mark, ReadAborted, TunnelEnds
<1>2. CASE SetTimer
  <2>1. pc # "tunnel" /\ pc' \notin {"tunnel", "over"} /\ UNCHANGED <<socketVars, copyVars>>
    <3>1. pc \in {"header", "body", "abort", "aborted", "hijack", "keepAlive", "awake"}
      BY <1>2 DEF SetTimer
    <3> QED
      BY <1>2, <3>1 DEF SetTimer, After
  <2> QED
    BY <2>1
<1>3. CASE HandlerEnds \/ TunnelOpens \/ DialFails \/ Sweep
  BY <1>3 DEF HandlerEnds, TunnelOpens, DialFails, Sweep
<1>4. CASE Read \/ ReadBytes \/ ReadEnds
  BY <1>4 DEF Read, BeginRead, Check, Refresh, ReadBytes, ReadEnds
<1>5. CASE Upload \/ UploadWritten
  BY <1>5 DEF Upload, UploadWritten, UploadFails, UploadEnds
<1>6. CASE Download \/ DownloadBytes
  BY <1>6 DEF Download, DownloadBytes, DownloadOver, DownloadWrite, DownloadEnds
<1>7. CASE ClientLeaves \/ TargetLeaves \/ TargetIsPolite
  BY <1>7 DEF ClientLeaves, TargetLeaves, TargetIsPolite
<1>8. CASE UNCHANGED vars
  BY <1>8 DEF vars
<1> QED
  BY <1>1, <1>2, <1>3, <1>4, <1>5, <1>6, <1>7, <1>8 DEF Next, Server

(* The target's socket is open only inside a tunnel, hears of the end of   *)
(* the upload, and is closed with the tunnel; no connection is over with a *)
(* socket left.  What SlotComesBack adds is that tunnels end.              *)
THEOREM NoSocketForgotten == Spec => []Halves
<1>1. Init => Halves
  BY DEF Init, Halves
<1> QED
  BY <1>1, HalvesStep, Invariant, PTL DEF Spec
=============================================================================
