----------------------------- MODULE Connections -----------------------------
(***************************************************************************)
(* The core's process from Start to Stop: the packet listener, the boot    *)
(* restore, the background loops, the socket, its connections and the      *)
(* order Stop takes them down in.  Start and Stop run on different         *)
(* goroutines, and a signal may come at any moment of the start.  A peer   *)
(* that says nothing holds its connection; the console's own connections   *)
(* have no place in the queue of the others.                               *)
(***************************************************************************)
EXTENDS Naturals, FiniteSets

CONSTANTS
  Conn,
  Console,   \* the connections whose peer is root
  Silent,    \* those whose peer never completes a request
  MaxConns,
  MaxQueued

ASSUME ConnectionsAssumption ==
  /\ IsFiniteSet(Conn) /\ Console \subseteq Conn /\ Silent \subseteq Conn
  /\ MaxConns \in Nat \ {0} /\ MaxQueued \in Nat

VARIABLES
  starter,     \* where Start is
  stopper,     \* where Stop is
  quit,        \* closed
  packets,     \* the NFLOG listener: whether bound, and whether Stop can find it
  socket,      \* the listening socket: whether open, and whether Stop can find it
  loops,       \* reconcileDockerBridges, collectUsagePeriodically, pingWatchdog
  accepted,    \* the connection Accept returned and track has not seen, as a set
  conns,
  peerWait,
  shut         \* connections closed by Stop

connVars == <<starter, stopper, quit, packets, socket, loops, accepted, conns, peerWait, shut>>

Waiting == {"queued", "serving", "reading", "dispatch", "answer", "writing"}
Handled == {c \in Conn : conns[c] \in Waiting \cup {"started"}}
Serving == {c \in Conn \ Console : conns[c] \in Waiting \ {"queued"}}
Admitted == {c \in Conn \ Console : conns[c] \in Waiting}

\* The wait group.
Tracked == Cardinality(Handled) + (IF starter = "restoring" THEN 1 ELSE 0) + (IF loops = "running" THEN 1 ELSE 0)

ConnInit ==
  /\ starter = "begin" /\ stopper = "idle" /\ quit = FALSE /\ loops = "none"
  /\ packets = [bound |-> FALSE, known |-> FALSE] /\ socket = [open |-> FALSE, known |-> FALSE]
  /\ conns = [c \in Conn |-> "away"] /\ accepted = {} /\ peerWait = {} /\ shut = {}

-----------------------------------------------------------------------------
\* Start.

Goto(pc) == starter' = pc
SameConns == UNCHANGED <<accepted, conns, peerWait, shut>>

BeginStart ==
  /\ starter = "begin" /\ Goto(IF quit THEN "returned" ELSE "packets")
  /\ UNCHANGED <<stopper, quit, packets, socket, loops>> /\ SameConns

\* startPacketLog binds the group, or reports that it could not.
BindPackets ==
  /\ starter = "packets"
  /\ \/ packets' = [packets EXCEPT !.bound = TRUE] /\ Goto("publish packets")
     \/ UNCHANGED packets /\ Goto("track")
  /\ UNCHANGED <<stopper, quit, socket, loops>> /\ SameConns

\* Faulty: the listener is handed over without a look at quit.
BugHandOver == packets' = [packets EXCEPT !.known = TRUE]

\* Under the lock: handed to Stop, or stopped here when Stop has begun.
HandOver ==
  packets' = IF quit THEN [packets EXCEPT !.bound = FALSE] ELSE [packets EXCEPT !.known = TRUE]

PublishPackets ==
  /\ starter = "publish packets" /\ HandOver /\ Goto("track")
  /\ UNCHANGED <<stopper, quit, socket, loops>> /\ SameConns

\* track: nothing joins the wait group once quit is closed.
Track == ~quit

TrackRestore ==
  /\ starter = "track" /\ Goto(IF Track THEN "restoring" ELSE "returned")
  /\ UNCHANGED <<stopper, quit, packets, socket, loops>> /\ SameConns

\* RestoreCurrent returns, and the loops start where they are still let in.
Restored ==
  /\ starter = "restoring" /\ Goto("listen") /\ loops' = (IF Track THEN "running" ELSE loops)
  /\ UNCHANGED <<stopper, quit, packets, socket>> /\ SameConns

Listen ==
  /\ starter = "listen" /\ socket' = [socket EXCEPT !.open = TRUE] /\ Goto("publish socket")
  /\ UNCHANGED <<stopper, quit, packets, loops>> /\ SameConns

PublishSocket ==
  /\ starter = "publish socket"
  /\ \/ ~quit /\ socket' = [socket EXCEPT !.known = TRUE] /\ Goto("accept")
     \/ quit /\ socket' = [socket EXCEPT !.open = FALSE] /\ Goto("returned")
  /\ UNCHANGED <<stopper, quit, packets, loops>> /\ SameConns

\* Accept fails once the socket is closed; the loop ends when quit is.
AcceptConn(c) ==
  /\ starter = "accept" /\ socket.open /\ accepted = {} /\ conns[c] = "dialled" /\ accepted' = {c}
  /\ UNCHANGED <<starter, stopper, quit, packets, socket, loops, conns, peerWait, shut>>

TrackConn(c) ==
  /\ c \in accepted /\ accepted' = {} /\ conns' = [conns EXCEPT ![c] = IF Track THEN "started" ELSE "gone"]
  /\ UNCHANGED <<starter, stopper, quit, packets, socket, loops, peerWait, shut>>

AcceptFails ==
  /\ starter = "accept" /\ ~socket.open /\ accepted = {} /\ quit /\ Goto("returned")
  /\ UNCHANGED <<stopper, quit, packets, socket, loops>> /\ SameConns

LoopsEnd ==
  /\ loops = "running" /\ quit /\ loops' = "none"
  /\ UNCHANGED <<starter, stopper, quit, packets, socket>> /\ SameConns

-----------------------------------------------------------------------------
\* A connection's goroutine.

Becomes(c, pc) ==
  /\ conns' = [conns EXCEPT ![c] = pc]
  /\ UNCHANGED <<starter, stopper, quit, packets, socket, loops, accepted, shut>>

Dial(c) ==
  /\ conns[c] = "away" /\ socket.open /\ Becomes(c, "dialled") /\ UNCHANGED peerWait

\* A peer still in the backlog when the socket closes is cut off.
CutOff(c) ==
  /\ conns[c] = "dialled" /\ ~socket.open /\ c \notin accepted /\ Becomes(c, "gone") /\ UNCHANGED peerWait

IsConsolePeer(c) == c \in Console

\* The console goes straight on; another is admitted or refused.
Admit(c) ==
  /\ conns[c] = "started" /\ UNCHANGED peerWait
  /\ \/ IsConsolePeer(c) /\ Becomes(c, "serving")
     \/ /\ ~IsConsolePeer(c)
        /\ Becomes(c, IF Cardinality(Admitted) < MaxConns + MaxQueued THEN "queued" ELSE "gone")

\* A place to be served in, or quit while waiting for one; Go's select takes either.
Serve(c) ==
  /\ conns[c] = "queued" /\ UNCHANGED peerWait
  /\ \/ Cardinality(Serving) < MaxConns /\ Becomes(c, "serving")
     \/ quit /\ Becomes(c, "gone")

\* Faulty: the connection is registered whether or not Stop has been through.
BugMayWait == TRUE

\* waitOnPeer.
MayWait == ~quit

ReadRequest(c) ==
  /\ conns[c] = "serving"
  /\ IF MayWait THEN Becomes(c, "reading") /\ peerWait' = peerWait \cup {c}
     ELSE Becomes(c, "gone") /\ UNCHANGED peerWait

\* The request is read; one that is no command, too long, or not the peer's to
\* give is answered with an error and closed.
RequestRead(c) ==
  /\ conns[c] = "reading" /\ peerWait' = peerWait \ {c}
  /\ \/ c \in shut /\ Becomes(c, "gone")
     \/ c \notin Silent /\ \E pc \in {"dispatch", "gone"} : Becomes(c, pc)

\* The deadline of a silent peer.
ReadTimeout(c) ==
  /\ conns[c] = "reading" /\ c \in Silent
  /\ Becomes(c, "gone") /\ peerWait' = peerWait \ {c}

Dispatched(c) ==
  /\ conns[c] = "dispatch" /\ Becomes(c, "answer") /\ UNCHANGED peerWait

\* The reply is written also when Stop has been through, unregistered then.
WriteReply(c) ==
  /\ conns[c] = "answer" /\ Becomes(c, "writing")
  /\ peerWait' = IF MayWait THEN peerWait \cup {c} ELSE peerWait

\* The reply is taken, the deadline passes, or Stop closed the connection.
ReplyWritten(c) ==
  /\ conns[c] = "writing" /\ Becomes(c, "gone") /\ peerWait' = peerWait \ {c}

-----------------------------------------------------------------------------
\* Stop.

StopStep(from, to) == stopper = from /\ stopper' = to /\ UNCHANGED <<starter, loops, accepted, conns, peerWait>>

CloseQuit ==
  /\ StopStep("idle", "listener") /\ quit' = TRUE /\ UNCHANGED <<packets, socket, shut>>

CloseListener ==
  /\ StopStep("listener", "sweep")
  /\ socket' = (IF socket.known THEN [open |-> FALSE, known |-> FALSE] ELSE socket)
  /\ UNCHANGED <<quit, packets, shut>>

\* Under one lock: every registered connection is closed, the packet listener taken.
SweepPeers ==
  /\ StopStep("sweep", "wait") /\ shut' = shut \cup peerWait
  /\ packets' = (IF packets.known THEN [bound |-> FALSE, known |-> FALSE] ELSE packets)
  /\ UNCHANGED <<quit, socket>>

\* ShutdownAcceptance, and the wait group is empty.
StopReturn ==
  /\ Tracked = 0 /\ StopStep("wait", "stopped") /\ UNCHANGED <<quit, packets, socket, shut>>

ConnSteps(c) ==
  \/ AcceptConn(c) \/ TrackConn(c) \/ CutOff(c) \/ Admit(c) \/ Serve(c) \/ ReadRequest(c)
  \/ RequestRead(c) \/ Dispatched(c) \/ WriteReply(c) \/ ReplyWritten(c)
StartSteps ==
  \/ BeginStart \/ BindPackets \/ PublishPackets \/ TrackRestore \/ Restored \/ Listen
  \/ PublishSocket \/ AcceptFails \/ LoopsEnd
StopSteps == CloseListener \/ SweepPeers \/ StopReturn

ConnNext ==
  \/ StartSteps \/ CloseQuit \/ StopSteps
  \/ \E c \in Conn : Dial(c) \/ ConnSteps(c) \/ ReadTimeout(c)

\* Goroutines run and commands end; nothing is assumed of a peer, of the deadline
\* of a silent one, or of a stop being asked for.
ConnFairness ==
  /\ WF_connVars(StartSteps) /\ WF_connVars(StopSteps)
  /\ \A c \in Conn : WF_connVars(ConnSteps(c))

ConnSpec == ConnInit /\ [][ConnNext]_connVars /\ ConnFairness

-----------------------------------------------------------------------------
\* NothingAfterStop: once Stop has returned, no handler, loop or restore of this
\* process is running or starts, and once Start has returned too neither the
\* socket nor the NFLOG group is held (track, startPacketLog, Start).
NothingAfterStop ==
  stopper = "stopped" =>
    Tracked = 0 /\ (starter = "returned" => ~socket.open /\ ~packets.bound)

\* StopReturns: a stop is not held up by a peer that says nothing, whatever
\* moment of the start or of a connection it came at (waitOnPeer, Stop).
StopReturns == quit ~> stopper = "stopped"
=============================================================================
