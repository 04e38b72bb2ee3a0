------------------------- MODULE AcceptanceWindow -------------------------
(***************************************************************************)
(* The acceptance controller with everyone who calls it: the goroutine of  *)
(* Firewall.apply that opens the window and waits in it, the operator who  *)
(* accepts or cancels, the console's panic, the daemon's Stop, the restore *)
(* that reports a window an earlier run left open, and the clock.          *)
(*                                                                         *)
(* pc is where the apply goroutine is, stop how far Stop has got through   *)
(* CancelForShutdown.  granted is a history variable: the calls on this    *)
(* window that were answered true ("accept", or the reason of a cancel).   *)
(***************************************************************************)
EXTENDS Acceptance

VARIABLES pc, stop, granted

windowVars == <<acc, pc, stop, granted>>

WindowTypeOK ==
  /\ acc \in AcceptanceType
  /\ pc \in {"out", "opened", "waiting", "woken"}
  /\ stop \in {"no", "latched", "cancelled"}
  /\ granted \in SUBSET ({"accept"} \cup CancelReasons)

WindowInit ==
  /\ acc = AccInit
  /\ pc = "out"
  /\ stop = "no"
  /\ granted = {}

\* apply opens the window before it writes the kernel.
OpenWindow ==
  /\ pc = "out"
  /\ WindowStart
  /\ pc' = "opened" /\ granted' = {}
  /\ UNCHANGED stop

\* The kernel write failed, or panic mode landed in it: apply gives the window up.
AbandonWindow ==
  /\ pc = "opened"
  /\ WindowReset
  /\ pc' = "out" /\ granted' = {}
  /\ UNCHANGED stop

\* Wait reads the channels and the deadline ...
EnterWait ==
  /\ pc = "opened"
  /\ pc' = "waiting"
  /\ UNCHANGED <<acc, stop, granted>>

\* ... its select returns ...
Wake ==
  /\ pc = "waiting" /\ Decided
  /\ pc' = "woken"
  /\ UNCHANGED <<acc, stop, granted>>

\* ... and it takes the lock again to record the outcome.
Conclude ==
  /\ pc = "woken"
  /\ WindowConclude
  /\ pc' = "out"
  /\ UNCHANGED <<stop, granted>>

ApplySteps == OpenWindow \/ AbandonWindow \/ EnterWait \/ Wake \/ Conclude

Accept ==
  /\ WindowAccept
  /\ granted' = granted \cup {"accept"}
  /\ UNCHANGED <<pc, stop>>

Cancel(why) ==
  /\ WindowCancel(why)
  /\ granted' = granted \cup {why}
  /\ UNCHANGED <<pc, stop>>

\* CancelForShutdown gives the lock back between the latch and the cancel.
ShutdownLatch ==
  /\ stop = "no"
  /\ WindowLatchStopping
  /\ stop' = "latched"
  /\ UNCHANGED <<pc, granted>>

ShutdownCancel ==
  /\ stop = "latched"
  /\ WindowCancelIfOpen("stopped")
  /\ stop' = "cancelled"
  /\ granted' = IF Cancellable THEN granted \cup {"stopped"} ELSE granted
  /\ UNCHANGED pc

Expire == WindowExpire /\ UNCHANGED <<pc, stop, granted>>

\* A restore runs with the apply slot held, so no window is open.
ReportUnclosed ==
  /\ pc = "out"
  /\ WindowRecordRolledBack("stopped")
  /\ granted' = {"stopped"}
  /\ UNCHANGED <<pc, stop>>

WindowNext ==
  \/ ApplySteps
  \/ Accept
  \/ Cancel("operator") \/ Cancel("panic")
  \/ ShutdownLatch \/ ShutdownCancel
  \/ Expire
  \/ ReportUnclosed

WindowSpec == WindowInit /\ [][WindowNext]_windowVars

(***************************************************************************)
(* Fairness.  The goroutine in Wait runs whenever its select is ready, and *)
(* Stop gets through CancelForShutdown.  The clock is not fair: a property *)
(* that needs the timer says so.                                           *)
(***************************************************************************)
WindowFairness ==
  /\ WF_windowVars(EnterWait) /\ WF_windowVars(Wake) /\ WF_windowVars(Conclude)
  /\ WF_windowVars(ShutdownCancel)
---------------------------------------------------------------------------
\* At most one of the calls on a window is answered true: an Accept and a
\* cancel never both report success, and neither do two different cancels.
OneAnswer == \A a, b \in granted : a = b

\* The outcome Wait records is the answer that was given: accepted exactly
\* when an Accept answered true, and never over a cancel that answered true.
OutcomeIsTheAnswer ==
  /\ acc.status = "accepted" => granted = {"accept"}
  /\ acc.status = "rolled_back" => "accept" \notin granted

\* The reason the audit line carries is the cause: the cancel that was
\* answered true; without one, the deadline that passed, or the shutdown that
\* was latched before the window opened.
ReasonIsTheCause ==
  acc.status = "rolled_back" =>
    \/ acc.reason \in granted
    \/ granted = {} /\ acc.reason = "timeout" /\ acc.expired
    \/ granted = {} /\ acc.reason = "stopped" /\ acc.stopping

\* A core that is stopping never waits for the timer: once CancelForShutdown
\* has run, any window that is open, or opens later, ends by itself.
ShutdownNeedsNoTimer == (stop = "cancelled" /\ pc # "out") ~> pc = "out"

\* The abstract view of the controller.
Judgement ==
  IF acc.status # "pending" THEN acc.status
  ELSE IF acc.accepted THEN "confirmed"
  ELSE IF acc.cancelled \/ acc.expired THEN "refused"
  ELSE "open"

Abstract == INSTANCE Decision WITH decision <- Judgement

\* The controller implements Decision: a window is judged once, the judgement
\* is never revised, and the published outcome is the judgement.
ImplementsDecision == Abstract!Spec
===========================================================================
