-------------------------- MODULE ServicesProofs ------------------------------
(***************************************************************************)
(* Services of the daemon, each with its own variables and its own         *)
(* theorems: the acceptance window, the usage counters, and the            *)
(* connections Stop ends.                                                  *)
(***************************************************************************)
EXTENDS AcceptanceWindow, Usage, Connections, FiniteSetTheorems, TLAPS

-------------------------------------------------------------------------------

\* The acceptance window. The inductive invariant says what the flags of the
\* controller and the answers given so far have to do with each other at every
\* moment of a window, not only at its end.

\* A window is open exactly while the goroutine of apply is in it.
OpenInv == Pending <=> pc # "out"

\* Wait returns only from a decided window.
WokenInv == pc = "woken" => Decided

\* The flags of an open window are the answers that were given on it.
AnswerInv ==
  /\ Pending /\ acc.accepted => ~acc.cancelled /\ granted = {"accept"}
  /\ Pending /\ acc.cancelled =>
       \/ acc.reason \in CancelReasons /\ granted = {acc.reason}
       \/ acc.reason = "stopped" /\ acc.stopping /\ granted = {}
  /\ Pending /\ ~acc.accepted /\ ~acc.cancelled => granted = {} /\ acc.reason = "timeout"

\* ... and the outcome of a closed one.
OutcomeInv ==
  /\ acc.status = "idle" => granted = {}
  /\ acc.status = "accepted" => granted = {"accept"}
  /\ acc.status = "rolled_back" =>
       \/ acc.reason \in CancelReasons /\ granted = {acc.reason}
       \/ acc.reason = "stopped" /\ acc.stopping /\ granted = {}
       \/ acc.reason = "timeout" /\ acc.expired /\ granted = {}

WindowIInv == WindowTypeOK /\ OpenInv /\ WokenInv /\ AnswerInv /\ OutcomeInv

\* NewAcceptance establishes the invariant.
LEMMA WindowInvInit == WindowInit => WindowIInv
BY DEF WindowInit, WindowIInv, WindowTypeOK, OpenInv, WokenInv, AnswerInv, OutcomeInv, AccInit,
       AcceptanceType, WindowStatus, WindowReasons, CancelReasons, Pending

\* Every call on the controller preserves it.
LEMMA WindowInvNext == WindowIInv /\ [WindowNext]_windowVars => WindowIInv'
<1> SUFFICES ASSUME WindowIInv, [WindowNext]_windowVars PROVE WindowIInv'
  OBVIOUS
<1> USE DEF WindowIInv, WindowTypeOK, OpenInv, WokenInv, AnswerInv, OutcomeInv, AcceptanceType,
            WindowStatus, WindowReasons, CancelReasons, Pending, Decided
<1>1. CASE OpenWindow
  BY <1>1, Zenon DEF OpenWindow, WindowStart
<1>2. CASE AbandonWindow
  BY <1>2 DEF AbandonWindow, WindowReset
<1>3. CASE EnterWait
  BY <1>3 DEF EnterWait
<1>4. CASE Wake
  BY <1>4, Zenon DEF Wake
<1>5. CASE Conclude
  BY <1>5 DEF Conclude, WindowConclude
<1>6. CASE Accept
  BY <1>6, Zenon DEF Accept, WindowAccept, Acceptable
<1>7. ASSUME NEW why \in {"operator", "panic"}, Cancel(why) PROVE WindowIInv'
  BY <1>7, Zenon DEF Cancel, WindowCancel, Cancellable
<1>8. CASE ShutdownLatch
  BY <1>8, Zenon DEF ShutdownLatch, WindowLatchStopping
<1>9. CASE ShutdownCancel
  <2>1. CASE Cancellable
    <3>1. /\ acc' = [acc EXCEPT !.cancelled = TRUE, !.reason = "stopped"] /\ pc' = pc /\ pc # "out"
          /\ granted' = {"stopped"} /\ stop' = "cancelled" /\ Pending /\ ~acc.accepted
      BY <1>9, <2>1, Zenon DEF ShutdownCancel, WindowCancelIfOpen, WindowCancel, Cancellable
    <3>2. acc' \in AcceptanceType
      BY ONLY WindowIInv, <3>1, Zenon DEF WindowIInv, WindowTypeOK, AcceptanceType, WindowReasons, CancelReasons
    <3>3. /\ acc'.status = "pending" /\ acc'.cancelled /\ ~acc'.accepted /\ acc'.reason = "stopped"
      BY ONLY WindowIInv, <3>1, Zenon DEF WindowIInv, WindowTypeOK, AcceptanceType, Pending
    <3> QED
      BY <3>1, <3>2, <3>3, Zenon
  <2>2. CASE ~Cancellable
    BY <1>9, <2>2, Zenon DEF ShutdownCancel, WindowCancelIfOpen
  <2> QED
    BY <2>1, <2>2, Zenon
<1>10. CASE Expire
  BY <1>10, Zenon DEF Expire, WindowExpire
<1>11. CASE ReportUnclosed
  BY <1>11, Zenon DEF ReportUnclosed, WindowRecordRolledBack
<1>12. CASE UNCHANGED windowVars
  BY <1>12 DEF windowVars
<1> QED
  BY <1>1, <1>2, <1>3, <1>4, <1>5, <1>6, <1>7, <1>8, <1>9, <1>10, <1>11, <1>12, Zenon
  DEF WindowNext, ApplySteps

\* Every reachable state of the controller satisfies the invariant.
THEOREM WindowInvariance == WindowSpec => []WindowIInv
BY WindowInvInit, WindowInvNext, PTL DEF WindowSpec

\* The fields of the controller and the program counters keep their ranges.
THEOREM WindowTypeCorrect == WindowSpec => []WindowTypeOK
<1>1. WindowIInv => WindowTypeOK
  BY DEF WindowIInv
<1> QED
  BY <1>1, WindowInvariance, PTL

\* Accept and the cancels: at most one of them is ever told it decided.
THEOREM AnswersExclude == WindowSpec => []OneAnswer
<1>1. WindowIInv => OneAnswer
  BY DEF WindowIInv, OneAnswer, WindowTypeOK, AnswerInv, OutcomeInv, Pending, AcceptanceType, WindowStatus
<1> QED
  BY <1>1, WindowInvariance, PTL

\* Wait: what it records is what Accept or cancel answered.
THEOREM OutcomeFollowsAnswer == WindowSpec => []OutcomeIsTheAnswer
<1>1. WindowIInv => OutcomeIsTheAnswer
  BY DEF WindowIInv, OutcomeIsTheAnswer, OutcomeInv, CancelReasons
<1> QED
  BY <1>1, WindowInvariance, PTL

\* Reason: what the audit line says is what ended the window.
THEOREM ReasonFollowsCause == WindowSpec => []ReasonIsTheCause
<1>1. WindowIInv => ReasonIsTheCause
  BY DEF WindowIInv, ReasonIsTheCause, OutcomeInv
<1> QED
  BY <1>1, WindowInvariance, PTL

\* The controller implements Decision: every step of it is a step of the
\* abstract window or leaves the judgement as it was.
THEOREM Refinement == WindowSpec => ImplementsDecision
<1>1. WindowInit => Abstract!Init
  BY DEF WindowInit, Abstract!Init, Judgement, AccInit
<1>2. WindowIInv /\ [WindowNext]_windowVars => [Abstract!Next]_Judgement
  <2> SUFFICES ASSUME WindowIInv, [WindowNext]_windowVars PROVE [Abstract!Next]_Judgement
    OBVIOUS
  <2> USE DEF WindowIInv, WindowTypeOK, OpenInv, WokenInv, AnswerInv, AcceptanceType, WindowStatus,
              WindowReasons, CancelReasons, Pending, Decided, Judgement, Abstract!Next,
              Abstract!Closed, Abstract!Judged
  <2>1. CASE OpenWindow
    BY <2>1 DEF OpenWindow, WindowStart, Abstract!Open
  <2>2. CASE AbandonWindow
    BY <2>2 DEF AbandonWindow, WindowReset, Abstract!Abandon
  <2>3. CASE EnterWait \/ Wake \/ UNCHANGED windowVars
    BY <2>3 DEF EnterWait, Wake, windowVars
  <2>4. CASE Conclude
    BY <2>4 DEF Conclude, WindowConclude, Abstract!Publish
  <2>5. CASE Accept
    BY <2>5 DEF Accept, WindowAccept, Acceptable, Abstract!Judge
  <2>6. ASSUME NEW why \in {"operator", "panic"}, Cancel(why)
        PROVE [Abstract!Next]_Judgement
    BY <2>6 DEF Cancel, WindowCancel, Cancellable, Abstract!Judge
  <2>7. CASE ShutdownLatch
    BY <2>7 DEF ShutdownLatch, WindowLatchStopping
  <2>8. CASE ShutdownCancel
    BY <2>8, Zenon DEF ShutdownCancel, WindowCancelIfOpen, WindowCancel, Cancellable,
                Abstract!Judge
  <2>9. CASE Expire
    BY <2>9 DEF Expire, WindowExpire, Abstract!Judge
  <2>10. CASE ReportUnclosed
    BY <2>10 DEF ReportUnclosed, WindowRecordRolledBack, Abstract!Report
  <2> QED
    BY <2>1, <2>2, <2>3, <2>4, <2>5, <2>6, <2>7, <2>8, <2>9, <2>10, Zenon DEF WindowNext, ApplySteps
<1> QED
  BY <1>1, <1>2, WindowInvariance, PTL DEF WindowSpec, ImplementsDecision, Abstract!Spec

-------------------------------------------------------------------------------

\* The usage counters (CountsOnce). The sum alone is not inductive: a collector
\* that has read carries a value from before the packets that follow, and
\* between the write and the reset the baseline is one of a table that is gone.

UsageTypes ==
  /\ counter \in Nat /\ carried \in Int
  /\ entry \in [total : Nat, kernel : Nat]
  /\ ticker \in [pc : {"idle", "read"}, read : Nat]
  /\ write \in [pc : {"idle", "collect", "apply", "reset"}, read : Nat]
  /\ ration \in [packets : Nat, writes : Nat, ticks : Nat, fails : Nat, flushes : Nat]

\* Nothing is lost or counted twice so far.
Level == entry.total + (counter - entry.kernel) = carried

\* What the total and the counter amount to, by where a collector is.
Booked ==
  /\ ticker.pc = "idle" \/ write.pc = "idle"
  /\ write.pc \in {"idle", "collect", "apply"} => entry.kernel <= counter /\ Level
  /\ ticker.pc = "read" => entry.kernel <= ticker.read /\ ticker.read <= counter
  /\ write.pc = "collect" => entry.kernel <= write.read /\ write.read <= counter
  /\ write.pc = "apply" => entry.kernel = write.read /\ write.read <= counter
  /\ write.pc = "reset" => entry.total + counter = carried

UsageInv == UsageTypes /\ (crossed \/ Booked)

\* The initial state satisfies the invariant.
LEMMA UsageStart == UsageInit => UsageInv
BY UsageAssumption DEF UsageAssumption, UsageInit, UsageInv, UsageTypes, Booked, Level, Nothing

\* Every step of the ticker, a write, the traffic or a flush keeps it.
LEMMA UsageStep == UsageInv /\ [UsageNext]_usageVars => UsageInv'
<1> SUFFICES ASSUME UsageInv, [UsageNext]_usageVars PROVE UsageInv'
  BY Zenon
<1> USE DEF UsageInv, UsageTypes, Nothing, Take
<1>1. CASE Packet
  BY <1>1 DEF Packet, Booked, Level
<1>2. CASE TickerReads
  <2>1. UsageTypes'
    BY <1>2 DEF TickerReads
  <2>2. CASE crossed
    BY <1>2, <2>1, <2>2, Zenon DEF TickerReads
  <2>3. CASE write.pc # "idle"
    BY <1>2, <2>1, <2>3, Zenon DEF TickerReads
  <2>4. CASE ~crossed /\ write.pc = "idle"
    BY <1>2, <2>1, <2>4 DEF TickerReads, Booked, Level
  <2> QED
    BY <2>2, <2>3, <2>4
<1>3. CASE TickerCollects
  BY <1>3 DEF TickerCollects, Collect, Delta, Booked, Level
<1>4. CASE WriteReads
  <2>1. UsageTypes'
    BY <1>4 DEF WriteReads
  <2>2. CASE crossed
    BY <1>4, <2>1, <2>2, Zenon DEF WriteReads
  <2>3. CASE ticker.pc # "idle"
    BY <1>4, <2>1, <2>3, Zenon DEF WriteReads
  <2>4. CASE ~crossed /\ ticker.pc = "idle"
    BY <1>4, <2>1, <2>4 DEF WriteReads, Booked, Level
  <2> QED
    BY <2>2, <2>3, <2>4
<1>5. CASE WriteCollects
  BY <1>5 DEF WriteCollects, Collect, Delta, Booked, Level
<1>6. CASE WriteApplies
  BY <1>6 DEF WriteApplies, Booked, Level
<1>7. CASE WriteResets
  BY <1>7 DEF WriteResets, Reset, Booked, Level
<1>8. CASE HandFlush
  BY <1>8 DEF HandFlush
<1>9. CASE UNCHANGED usageVars
  BY <1>9 DEF usageVars, Booked, Level
<1> QED
  BY <1>1, <1>2, <1>3, <1>4, <1>5, <1>6, <1>7, <1>8, <1>9 DEF UsageNext

\* UsageCountsOnce: however many packets, writes and ticks there are, a packet
\* that survived to a read is booked once (Collect, ResetBaselines), as long as
\* the ticker and a write do not overlap and no step fails.
THEOREM UsageCountsOnce == UsageSpec => []CountsOnce
<1>1. UsageInv => CountsOnce
  BY DEF UsageInv, UsageTypes, Booked, Level, CountsOnce, Nothing
<1> QED
  BY <1>1, UsageStart, UsageStep, PTL DEF UsageSpec

-------------------------------------------------------------------------------

\* Start and Stop (NothingAfterStop). Three facts make it inductive: what is
\* held is held by Start or known to Stop; what Stop can find is found before it
\* waits; and what Stop saw end cannot begin again, since track looks at quit.

\* A connection nobody serves.
Quiet == {"away", "dialled", "gone"}

ConnTypes ==
  /\ stopper \in {"idle", "listener", "sweep", "wait", "stopped"}
  /\ quit <=> stopper # "idle"
  /\ packets \in [bound : BOOLEAN, known : BOOLEAN]
  /\ socket \in [open : BOOLEAN, known : BOOLEAN]
  /\ conns \in [Conn -> Waiting \cup Quiet \cup {"started"}]

\* Who answers for the NFLOG group and for the socket.
Answerable ==
  /\ packets.bound => packets.known \/ starter = "publish packets"
  /\ packets.known => stopper \in {"idle", "listener", "sweep"}
  /\ socket.open => socket.known \/ starter = "publish socket"
  /\ socket.known => stopper \in {"idle", "listener"}

\* What Stop saw end stays ended.
Ended ==
  stopper = "stopped" =>
    /\ starter # "restoring" /\ loops # "running"
    /\ \A c \in Conn : conns[c] \in Quiet

ConnInv == ConnTypes /\ Answerable /\ Ended

\* The initial state holds nothing and has not been stopped.
LEMMA ConnStart == ConnInit => ConnInv
BY DEF ConnInit, ConnInv, ConnTypes, Answerable, Ended, Quiet

\* The wait group is empty exactly when no handler, restore or loop is in it.
LEMMA TrackedNone ==
  ASSUME conns \in [Conn -> Waiting \cup Quiet \cup {"started"}]
  PROVE  Tracked = 0 <=> /\ starter # "restoring" /\ loops # "running"
                         /\ \A c \in Conn : conns[c] \in Quiet
<1>1. IsFiniteSet(Handled) /\ Cardinality(Handled) \in Nat
  BY ConnectionsAssumption, FS_Subset, FS_CardinalityType DEF ConnectionsAssumption, Handled
<1>2. Cardinality(Handled) = 0 <=> Handled = {}
  BY <1>1, FS_EmptySet
<1>3. Handled = {} <=> \A c \in Conn : conns[c] \in Quiet
  BY DEF Handled, Quiet, Waiting
<1> QED
  BY <1>1, <1>2, <1>3 DEF Tracked

\* A step of Start keeps the invariant.
LEMMA StartKeeps == ConnInv /\ StartSteps => ConnInv'
<1> SUFFICES ASSUME ConnInv, StartSteps PROVE ConnInv'
  BY Zenon
<1> USE DEF ConnInv, ConnTypes, Answerable, Ended, Goto, SameConns
<1>1. CASE BeginStart
  BY <1>1 DEF BeginStart
<1>2. CASE BindPackets
  BY <1>2, Zenon DEF BindPackets
<1>3. CASE PublishPackets
  BY <1>3, Zenon DEF PublishPackets, HandOver
<1>4. CASE TrackRestore
  BY <1>4, Zenon DEF TrackRestore, Track
<1>5. CASE Restored
  BY <1>5, Zenon DEF Restored, Track
<1>6. CASE Listen
  BY <1>6, Zenon DEF Listen
<1>7. CASE PublishSocket
  BY <1>7, Zenon DEF PublishSocket
<1>8. CASE AcceptFails
  BY <1>8 DEF AcceptFails
<1>9. CASE LoopsEnd
  BY <1>9, Zenon DEF LoopsEnd
<1> QED
  BY <1>1, <1>2, <1>3, <1>4, <1>5, <1>6, <1>7, <1>8, <1>9, Zenon DEF StartSteps

\* A step of Stop keeps the invariant.
LEMMA StopKeeps == ConnInv /\ (CloseQuit \/ StopSteps) => ConnInv'
<1> SUFFICES ASSUME ConnInv, CloseQuit \/ StopSteps PROVE ConnInv'
  OBVIOUS
<1> USE DEF ConnInv, ConnTypes, Answerable, Ended, StopStep
<1>1. CASE CloseQuit
  BY <1>1, Zenon DEF CloseQuit
<1>2. CASE CloseListener
  BY <1>2, Zenon DEF CloseListener
<1>3. CASE SweepPeers
  BY <1>3, Zenon DEF SweepPeers
<1>4. CASE StopReturn
  BY <1>4, TrackedNone, Zenon DEF StopReturn
<1> QED
  BY <1>1, <1>2, <1>3, <1>4, Zenon DEF StopSteps

\* What a connection's step leaves alone, and where it may take it once Stop has
\* returned: nowhere that track would have had to count.
LEMMA ConnMoves ==
  ASSUME ConnInv, NEW c \in Conn, Dial(c) \/ ConnSteps(c) \/ ReadTimeout(c)
  PROVE  /\ UNCHANGED <<starter, stopper, quit, packets, socket, loops>>
         /\ \/ UNCHANGED conns
            \/ \E place \in Waiting \cup Quiet \cup {"started"} :
                 /\ conns' = [conns EXCEPT ![c] = place]
                 /\ place \in Quiet \/ conns[c] \notin Quiet \/ ~quit
<1> USE DEF ConnInv, ConnTypes, Waiting, Quiet, Becomes
<1>1. CASE Dial(c)
  BY <1>1, Zenon DEF Dial
<1>2. CASE AcceptConn(c) \/ TrackConn(c) \/ CutOff(c)
  BY <1>2 DEF AcceptConn, TrackConn, Track, CutOff
<1>3. CASE Admit(c) \/ Serve(c)
  BY <1>3, Zenon DEF Admit, Serve
<1>4. CASE ReadRequest(c) \/ RequestRead(c) \/ ReadTimeout(c)
  BY <1>4, Zenon DEF ReadRequest, RequestRead, ReadTimeout
<1>5. CASE Dispatched(c) \/ WriteReply(c) \/ ReplyWritten(c)
  BY <1>5 DEF Dispatched, WriteReply, ReplyWritten
<1> QED
  BY <1>1, <1>2, <1>3, <1>4, <1>5 DEF ConnSteps

\* Every step keeps the invariant.
LEMMA ConnStep == ConnInv /\ [ConnNext]_connVars => ConnInv'
<1> SUFFICES ASSUME ConnInv, [ConnNext]_connVars PROVE ConnInv'
  OBVIOUS
<1>1. CASE StartSteps
  BY <1>1, StartKeeps
<1>2. CASE CloseQuit \/ StopSteps
  BY <1>2, StopKeeps
<1>3. ASSUME NEW c \in Conn, Dial(c) \/ ConnSteps(c) \/ ReadTimeout(c) PROVE ConnInv'
  <2>1. UNCHANGED <<starter, stopper, quit, packets, socket, loops>>
    BY <1>3, ConnMoves
  <2>2. CASE UNCHANGED conns
    BY <2>1, <2>2, Zenon DEF ConnInv, ConnTypes, Answerable, Ended
  <2>3. CASE ~UNCHANGED conns
    <3>1. PICK place \in Waiting \cup Quiet \cup {"started"} :
            /\ conns' = [conns EXCEPT ![c] = place]
            /\ place \in Quiet \/ conns[c] \notin Quiet \/ ~quit
      BY <1>3, <2>3, ConnMoves
    <3>2. ConnTypes' /\ Answerable'
      BY <2>1, <3>1, Zenon DEF ConnInv, ConnTypes, Answerable
    <3>3. Ended'
      BY <2>1, <3>1 DEF ConnInv, ConnTypes, Ended
    <3> QED
      BY <3>2, <3>3, Zenon DEF ConnInv
  <2> QED
    BY <2>2, <2>3, Zenon
<1>4. CASE UNCHANGED connVars
  BY <1>4, Zenon DEF connVars, ConnInv, ConnTypes, Answerable, Ended
<1> QED
  BY <1>1, <1>2, <1>3, <1>4 DEF ConnNext

\* ConnectionsEnd: when Stop has returned, nothing it had to wait for runs or
\* starts, and once Start has returned too no socket and no NFLOG group is held,
\* whatever moment of the start or of any number of connections it came at.
THEOREM ConnectionsEnd == ConnSpec => []NothingAfterStop
<1>1. ConnInv => NothingAfterStop
  BY TrackedNone, Zenon DEF ConnInv, ConnTypes, Answerable, Ended, NothingAfterStop
<1> QED
  BY <1>1, ConnStart, ConnStep, PTL DEF ConnSpec
===============================================================================
