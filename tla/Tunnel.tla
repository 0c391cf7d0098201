-------------------------------- MODULE Tunnel --------------------------------
(***************************************************************************)
(* One accepted connection (managedConn of                                 *)
(* internal/infrastructure/network/listener.go) from its first request to  *)
(* the end of a CONNECT tunnel.  Every Read starts a new idle timeout of   *)
(* its own, unless somebody has set a deadline; deadlineMutex orders the   *)
(* two.  Those who set deadlines are net/http.Server, for the header, for  *)
(* a kept connection and to wake its background read when the connection   *)
(* is hijacked, and nobody after that: goproxy copies in both directions   *)
(* and closes halves, and Stop closes the whole thing from outside.        *)
(*                                                                         *)
(* All of these call a managedConn from their own goroutines.  A step is   *)
(* one critical section of deadlineMutex or one call on a socket.  Writes  *)
(* are timed in the same way, but nobody ever sets a deadline for them.    *)
(***************************************************************************)
EXTENDS Naturals

VARIABLES
  pc,       \* the goroutine of http.Server, later of goproxy
  marked,   \* it is in SetReadDeadline or SetDeadline, behind the mutex
  connect,  \* the request is a CONNECT
  reader,   \* where the Read stands that is under way on the client's socket
  flag,     \* managedConn.readDeadline
  timer,    \* the read deadline of the client's socket
  client, target,          \* the two sockets: "open", "shut" for writing, "closed"
  clientPeer, targetPeer,  \* their other ends: "up", "finished" writing, "gone"
  up, down, \* goproxy's copies from client to target and from target to client
  stopped,  \* CloseConnections has come by
  polite    \* the target reads what it is sent, and goes when it has seen the end

serverVars == <<pc, marked, connect>>
deadlineVars == <<reader, flag, timer>>
socketVars == <<client, target>>
peerVars == <<clientPeer, targetPeer>>
copyVars == <<up, down>>
vars == <<serverVars, deadlineVars, socketVars, peerVars, copyVars, stopped, polite>>

(* "soon" is a deadline of http.Server, "past" its aLongTimeAgo.           *)
Deadlines == {"none", "soon", "past"}

(* Where the server sets a deadline, which, and where it is afterwards.    *)
Sets == [header |-> "soon", body |-> "none", abort |-> "past", aborted |-> "none",
         hijack |-> "none", keepAlive |-> "soon", awake |-> "none"]

After(at) ==
  CASE at = "header" -> "readHeader"
    [] at = "body" -> "handler"
    [] at = "abort" -> "wait"
    [] at = "aborted" -> IF connect THEN "hijack" ELSE "keepAlive"
    [] at = "hijack" -> "dial"
    [] at = "keepAlive" -> "readNext"
    [] at = "awake" -> "header"

Init ==
  /\ pc = "header" /\ marked = FALSE /\ connect = FALSE
  /\ reader = "off" /\ flag = "none" /\ timer = "none"
  /\ client = "open" /\ target = "closed"
  /\ clientPeer = "up" /\ targetPeer = "gone"
  /\ up = "off" /\ down = "off"
  /\ stopped = FALSE /\ polite \in BOOLEAN

-----------------------------------------------------------------------------
(* Deadlines                                                               *)

MarkKeepsOld ==
  /\ pc \in DOMAIN Sets /\ ~marked /\ reader # "refreshing"
  /\ flag' = IF Sets[pc] = "none" THEN flag ELSE Sets[pc]
  /\ marked' = TRUE
  /\ UNCHANGED <<pc, connect, reader, timer, socketVars, peerVars, copyVars, stopped, polite>>

(* SetReadDeadline and SetDeadline: the flag under the mutex ...           *)
Mark ==
  /\ pc \in DOMAIN Sets /\ ~marked /\ reader # "refreshing"
  /\ flag' = Sets[pc]
  /\ marked' = TRUE
  /\ UNCHANGED <<pc, connect, reader, timer, socketVars, peerVars, copyVars, stopped, polite>>

(* ... and then, without it, the socket.                                   *)
SetTimer ==
  /\ marked
  /\ timer' = Sets[pc]
  /\ marked' = FALSE
  /\ pc' = After(pc)
  /\ UNCHANGED <<connect, reader, flag, socketVars, peerVars, copyVars, stopped, polite>>

(* Who reads: the server for a header or the next request, a handler for a *)
(* body or the background read, goproxy for the upload.                    *)
BeginRead ==
  /\ reader = "off"
  /\ pc \in {"readHeader", "readNext", "handler"} \/ up = "read"
  /\ reader' = "called"
  /\ UNCHANGED <<serverVars, flag, timer, socketVars, peerVars, copyVars, stopped, polite>>

CheckBlindly ==
  /\ reader = "called"
  /\ reader' = "refreshing"
  /\ UNCHANGED <<serverVars, flag, timer, socketVars, peerVars, copyVars, stopped, polite>>

CheckInverted ==
  /\ reader = "called"
  /\ reader' = "reading"
  /\ UNCHANGED <<serverVars, flag, timer, socketVars, peerVars, copyVars, stopped, polite>>

(* refreshReadDeadline takes the mutex and looks at the flag ...           *)
Check ==
  /\ reader = "called"
  /\ reader' = IF flag = "none" THEN "refreshing" ELSE "reading"
  /\ UNCHANGED <<serverVars, flag, timer, socketVars, peerVars, copyVars, stopped, polite>>

(* ... and sets the socket before it gives the mutex back.                 *)
Refresh ==
  /\ reader = "refreshing"
  /\ timer' = "idle"
  /\ reader' = "reading"
  /\ UNCHANGED <<serverVars, flag, socketVars, peerVars, copyVars, stopped, polite>>

-----------------------------------------------------------------------------
(* What becomes of a Read                                                  *)

CanEnd == client = "closed" \/ clientPeer # "up" \/ timer # "none"

(* Bytes.  A header may need more of them.                                 *)
ReadBytes ==
  /\ reader = "reading" /\ reader' = "off"
  /\ client # "closed" /\ clientPeer = "up" /\ timer # "past"
  /\ \/ pc = "readHeader" /\ pc' = "body" /\ connect' \in BOOLEAN /\ UNCHANGED up
     \/ pc = "readNext" /\ pc' = "awake" /\ UNCHANGED <<connect, up>>
     \/ pc = "tunnel" /\ up' = "write" /\ UNCHANGED <<pc, connect>>
     \/ pc \notin {"readNext", "tunnel"} /\ UNCHANGED <<pc, connect, up>>
  /\ UNCHANGED <<marked, flag, timer, socketVars, peerVars, down, stopped, polite>>

(* The end, an error or a timeout: the server closes the connection, the   *)
(* background read tells the handler, the copy is over.                    *)
ReadEnds ==
  /\ reader = "reading" /\ reader' = "off"
  /\ CanEnd
  /\ IF pc \in {"readHeader", "readNext"} THEN pc' = "over" /\ client' = "closed"
                                          ELSE UNCHANGED <<pc, client>>
  /\ up' = IF pc = "tunnel" THEN "ending" ELSE up
  /\ UNCHANGED <<marked, connect, flag, timer, target, peerVars, down, stopped, polite>>

-----------------------------------------------------------------------------
(* The server                                                              *)

(* The end of a handler, or its Hijack: abortPendingRead has nothing to do *)
(* if no Read is under way.                                                *)
HandlerEnds ==
  /\ pc = "handler"
  /\ pc' = IF reader # "off" THEN "abort" ELSE IF connect THEN "hijack" ELSE "keepAlive"
  /\ UNCHANGED <<marked, connect, deadlineVars, socketVars, peerVars, copyVars, stopped, polite>>

(* It waits for that Read.                                                 *)
ReadAborted ==
  /\ pc = "wait" /\ reader = "off"
  /\ pc' = "aborted"
  /\ UNCHANGED <<marked, connect, deadlineVars, socketVars, peerVars, copyVars, stopped, polite>>

(* goproxy reaches the target (SafeDialer) and starts to copy ...          *)
TunnelOpens ==
  /\ pc = "dial" /\ pc' = "tunnel"
  /\ target' = "open" /\ targetPeer' = "up"
  /\ up' = "read" /\ down' = "read"
  /\ UNCHANGED <<marked, connect, deadlineVars, client, clientPeer, stopped, polite>>

(* ... or does not.                                                        *)
DialFails ==
  /\ pc = "dial" /\ pc' = "over"
  /\ client' = "closed"
  /\ UNCHANGED <<marked, connect, deadlineVars, target, peerVars, copyVars, stopped, polite>>

SweepShuts ==
  /\ ~stopped /\ stopped' = TRUE
  /\ client' = IF client = "open" THEN "shut" ELSE client
  /\ UNCHANGED <<serverVars, deadlineVars, target, peerVars, copyVars, polite>>

(* managedConn.Close, called by CloseConnections.  The target's socket is  *)
(* in no registry.                                                         *)
Sweep ==
  /\ ~stopped /\ stopped' = TRUE
  /\ client' = "closed"
  /\ UNCHANGED <<serverVars, deadlineVars, target, peerVars, copyVars, polite>>

-----------------------------------------------------------------------------
(* The copies                                                              *)

CopyUnchanged == UNCHANGED <<serverVars, deadlineVars, peerVars, stopped, polite>>

(* To the target, without a deadline.                                      *)
UploadWritten ==
  /\ up = "write" /\ targetPeer # "gone"
  /\ up' = "read"
  /\ CopyUnchanged /\ UNCHANGED <<socketVars, down>>

UploadFails ==
  /\ up = "write" /\ targetPeer = "gone"
  /\ up' = "ending"
  /\ CopyUnchanged /\ UNCHANGED <<socketVars, down>>

(* target.CloseWrite, client.CloseRead                                     *)
UploadEnds ==
  /\ up = "ending" /\ up' = "ended"
  /\ target' = "shut"
  /\ CopyUnchanged /\ UNCHANGED <<client, down>>

(* From the target, without a deadline.                                    *)
DownloadBytes ==
  /\ down = "read" /\ targetPeer = "up"
  /\ down' = "write"
  /\ CopyUnchanged /\ UNCHANGED <<socketVars, up>>

DownloadOver ==
  /\ down = "read" /\ targetPeer # "up"
  /\ down' = "ending"
  /\ CopyUnchanged /\ UNCHANGED <<socketVars, up>>

(* To the client, who may be too slow for refreshWriteDeadline.            *)
DownloadWrite ==
  /\ down = "write"
  /\ \/ client = "open" /\ clientPeer # "gone" /\ down' = "read"
     \/ down' = "ending"
  /\ CopyUnchanged /\ UNCHANGED <<socketVars, up>>

DownloadEndsCloses ==
  /\ down = "ending" /\ down' = "ended"
  /\ client' = "closed"
  /\ CopyUnchanged /\ UNCHANGED <<target, up>>

(* client.CloseWrite, target.CloseRead: managedHalfCloseConn leaves the    *)
(* connection registered.                                                  *)
DownloadEnds ==
  /\ down = "ending" /\ down' = "ended"
  /\ client' = IF client = "open" THEN "shut" ELSE client
  /\ CopyUnchanged /\ UNCHANGED <<target, up>>

TunnelEnds ==
  /\ pc = "tunnel" /\ up = "ended" /\ down = "ended"
  /\ pc' = "over"
  /\ client' = "closed" /\ target' = "closed"
  /\ UNCHANGED <<marked, connect, deadlineVars, peerVars, copyVars, stopped, polite>>

-----------------------------------------------------------------------------
(* The other ends                                                          *)

Leaves(peer) == \/ peer = "up" /\ peer' \in {"finished", "gone"}
                \/ peer = "finished" /\ peer' = "gone"

PeerUnchanged == UNCHANGED <<serverVars, deadlineVars, socketVars, copyVars, stopped, polite>>

ClientLeaves == Leaves(clientPeer) /\ PeerUnchanged /\ UNCHANGED targetPeer

TargetLeaves == Leaves(targetPeer) /\ PeerUnchanged /\ UNCHANGED clientPeer

TargetIsPolite ==
  /\ polite /\ target = "shut" /\ targetPeer # "gone"
  /\ targetPeer' = "gone"
  /\ PeerUnchanged /\ UNCHANGED clientPeer

-----------------------------------------------------------------------------
Server == Mark \/ SetTimer \/ ReadAborted \/ TunnelEnds

Read == BeginRead \/ Check \/ Refresh

Upload == UploadFails \/ UploadEnds \/ (polite /\ UploadWritten)

Download == DownloadOver \/ DownloadWrite \/ DownloadEnds

Next ==
  \/ Server \/ HandlerEnds \/ TunnelOpens \/ DialFails \/ Sweep
  \/ Read \/ ReadBytes \/ ReadEnds
  \/ Upload \/ UploadWritten \/ Download \/ DownloadBytes
  \/ ClientLeaves \/ TargetLeaves \/ TargetIsPolite

(* Goroutines run and clocks too.  Handlers and peers may take for ever,   *)
(* but for a polite target.                                                *)
Fairness ==
  /\ WF_vars(Server) /\ WF_vars(Read) /\ WF_vars(ReadEnds)
  /\ WF_vars(Upload) /\ WF_vars(Download) /\ WF_vars(TargetIsPolite)

Spec == Init /\ [][Next]_vars

FairSpec == Spec /\ Fairness

-----------------------------------------------------------------------------
TypeOK ==
  /\ pc \in DOMAIN Sets
            \cup {"readHeader", "handler", "wait", "dial", "readNext", "tunnel", "over"}
  /\ marked \in BOOLEAN /\ (marked => pc \in DOMAIN Sets) /\ connect \in BOOLEAN
  /\ reader \in {"off", "called", "refreshing", "reading"}
  /\ flag \in Deadlines /\ timer \in Deadlines \cup {"idle"}
  /\ client \in {"open", "shut", "closed"} /\ target \in {"open", "shut", "closed"}
  /\ clientPeer \in {"up", "finished", "gone"} /\ targetPeer \in {"up", "finished", "gone"}
  /\ up \in {"off", "read", "write", "ending", "ended"}
  /\ down \in {"off", "read", "write", "ending", "ended"}
  /\ stopped \in BOOLEAN /\ polite \in BOOLEAN

(* The deadline that a blocked Read has, or gets in the next step of the   *)
(* server.                                                                 *)
Effective == IF marked THEN Sets[pc] ELSE timer

(* No Read of a client blocks without a deadline, whoever reads and whoever*)
(* sets deadlines meanwhile, and in a tunnel it is the idle timeout, fresh *)
(* with every Read: nothing of the server's deadlines is left there.       *)
ReadsAreTimed ==
  /\ reader = "reading" => Effective # "none"
  /\ reader = "reading" /\ pc = "tunnel" => timer = "idle"

(* Hijack waits for the background read: that Read is awake, however late  *)
(* it has begun and whatever refresh it was in.  Otherwise a CONNECT would *)
(* hang for the idle timeout.                                              *)
AbortWakesRead == pc = "wait" /\ reader = "reading" => timer = "past"

(* The end of one direction neither closes the tunnel nor gives its slot   *)
(* back while the other one is alive.                                      *)
HalfCloseSparesOther ==
  [][pc = "tunnel" /\ client # "closed" /\ client' = "closed"
       => stopped' \/ (up = "ended" /\ down = "ended")]_vars

(* The connection and its slot come back when the target has gone, or the  *)
(* client if the target is polite, even if the other one stays silent.     *)
SlotComesBack ==
  pc = "tunnel" /\ (targetPeer = "gone" \/ (polite /\ clientPeer = "gone"))
    ~> client = "closed"

(* Stop ends a tunnel to a polite target, at both ends.                    *)
StopEndsTunnel ==
  stopped /\ pc = "tunnel" /\ polite ~> client = "closed" /\ target = "closed"
=============================================================================
