---------------------------- MODULE Acceptance ----------------------------
(***************************************************************************)
(* The acceptance controller of the core: internal/core/acceptance.go.     *)
(*                                                                         *)
(* acc is the Acceptance struct.  Every operation below runs under a.mu in *)
(* the code and is one atomic change of acc here.  What is abstracted:     *)
(*   - the deadline: only the test !time.Now().Before(a.deadline) is ever  *)
(*     made of it, so it is the flag "expired", which Expire raises at an  *)
(*     arbitrary moment of an open window and Start lowers;                *)
(*   - acceptCh and cancelCh: a token is in acceptCh exactly from the      *)
(*     first successful Accept on, and cancelCh is closed exactly when     *)
(*     cancelled is set, so the select of Wait is ready when Decided holds.*)
(***************************************************************************)
VARIABLE acc

WindowStatus == {"idle", "pending", "accepted", "rolled_back"}
CancelReasons == {"operator", "panic", "stopped"}
WindowReasons == CancelReasons \cup {"none", "timeout"}

AcceptanceType == [status: WindowStatus, accepted: BOOLEAN, cancelled: BOOLEAN,
                   expired: BOOLEAN, stopping: BOOLEAN, reason: WindowReasons]

\* NewAcceptance
AccInit == [status |-> "idle", accepted |-> FALSE, cancelled |-> FALSE,
            expired |-> FALSE, stopping |-> FALSE, reason |-> "none"]

Pending == acc.status = "pending"

\* Faulty: a window that opens after the shutdown was latched is not cancelled.
BugStartForgetsStopping ==
  acc' = IF Pending THEN acc
         ELSE [acc EXCEPT !.status = "pending", !.accepted = FALSE, !.expired = FALSE,
                          !.cancelled = FALSE, !.reason = "timeout"]

\* Start: a second Start inside a window changes nothing, and a window that
\* opens after the shutdown was latched opens already cancelled.
WindowStart ==
  acc' = IF Pending THEN acc
         ELSE [acc EXCEPT !.status = "pending", !.accepted = FALSE,
                          !.expired = FALSE, !.cancelled = acc.stopping,
                          !.reason = IF acc.stopping THEN "stopped" ELSE "timeout"]

\* Faulty: a window whose deadline has passed is still accepted.
BugAcceptExpired == Pending /\ ~acc.cancelled

\* Accept answers true, and decides, exactly when this holds.
Acceptable == Pending /\ ~acc.cancelled /\ ~acc.expired

WindowAccept ==
  /\ Acceptable
  /\ acc' = [acc EXCEPT !.accepted = TRUE]

\* cancel answers true, and decides, exactly when this holds.
Cancellable == Pending /\ ~acc.cancelled /\ ~acc.accepted /\ ~acc.expired

WindowCancel(why) ==
  /\ Cancellable
  /\ acc' = [acc EXCEPT !.cancelled = TRUE, !.reason = why]

\* A cancel whose answer nobody looks at: CancelForPanic, CancelForShutdown.
WindowCancelIfOpen(why) == IF Cancellable THEN WindowCancel(why) ELSE UNCHANGED acc

\* The first critical section of CancelForShutdown; the second is a cancel.
WindowLatchStopping == acc' = [acc EXCEPT !.stopping = TRUE]

\* The deadline of the open window passes.
WindowExpire ==
  /\ Pending /\ ~acc.expired
  /\ acc' = [acc EXCEPT !.expired = TRUE]

\* Faulty: Wait has no timer.
BugWaitWithoutTimer == acc.accepted \/ acc.cancelled

\* One of the three cases of Wait's select is ready.
Decided == acc.accepted \/ acc.cancelled \/ acc.expired

\* Faulty: whatever was not cancelled is accepted, a timeout included.
BugConcludeByCancel ==
  acc' = [acc EXCEPT !.status = IF acc.cancelled THEN "rolled_back" ELSE "accepted"]

\* The second critical section of Wait: the outcome is the flag, not the case.
WindowConclude ==
  acc' = [acc EXCEPT !.status = IF acc.accepted THEN "accepted" ELSE "rolled_back"]

WindowReset == acc' = [acc EXCEPT !.status = "idle"]

WindowRecordRolledBack(why) ==
  acc' = [acc EXCEPT !.status = "rolled_back", !.reason = why]
===========================================================================
