----------------------------- MODULE Decision -----------------------------
(***************************************************************************)
(* What an acceptance window promises, with no lock, channel or timer in   *)
(* sight: a window is judged once, the judgement is never revised, and the *)
(* outcome that is published is the judgement that was made.               *)
(*                                                                         *)
(* "open", "confirmed" and "refused" are the states of an open window;     *)
(* "accepted" and "rolled_back" are published outcomes and stand until the *)
(* next window opens; "idle" is no outcome.                                *)
(***************************************************************************)
VARIABLE decision

Closed == {"idle", "accepted", "rolled_back"}
Judged == {"confirmed", "refused"}

Init == decision = "idle"

\* A window opens undecided, or already refused when the core is stopping.
Open == decision \in Closed /\ decision' \in {"open", "refused"}

Judge == decision = "open" /\ decision' \in Judged

Publish ==
  \/ decision = "confirmed" /\ decision' = "accepted"
  \/ decision = "refused" /\ decision' = "rolled_back"

\* The apply that owns the window failed before it could be judged by Wait.
Abandon == decision \in Judged \cup {"open"} /\ decision' = "idle"

\* A restart reports the window the previous run never closed.
Report == decision \in Closed /\ decision' = "rolled_back"

Next == Open \/ Judge \/ Publish \/ Abandon \/ Report

Spec == Init /\ [][Next]_decision
===========================================================================
