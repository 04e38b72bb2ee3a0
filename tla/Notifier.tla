------------------------------- MODULE Notifier -------------------------------
(***************************************************************************)
(* Notifications of what the firewall did.  The web process asks for the   *)
(* core's status every fifteen seconds and compares it with the last one   *)
(* it saw; the outcome of a window stands in the status until the next     *)
(* window.  Status reads the time of the last apply well before the        *)
(* outcome: between the two it waits for the nft lock.  The two-second     *)
(* cache of the status is shorter than a tick and left out, and so are the *)
(* messages about panic mode.                                              *)
(***************************************************************************)
EXTENDS Naturals, FiniteSets

CONSTANT NewsBounds  \* bounds of the runs

ASSUME NotifierAssumption ==
  NewsBounds \subseteq [windows : Nat, plain : Nat, webboots : Nat, coreboots : Nat, nils : Nat]

VARIABLES
  accState, lastApply,    \* the core's status
  recording,              \* an accepted apply that has not set lastApply yet
  seen,                   \* notifyState
  asked,                  \* a tick's GetStatus: whether under way, and the lastApply it read
  quota,
  window,                 \* history: windows opened
  told                    \* history: the window current at the last message of each outcome

newsVars == <<accState, lastApply, recording, seen, asked, quota, window, told>>
coreVars == <<accState, lastApply, recording, window>>
tellerVars == <<seen, asked, told>>

Outcome == {"accepted", "rolled_back"}
NotAsked == [on |-> FALSE, last |-> 0]
Unseen == [seeded |-> FALSE, last |-> 0, acc |-> "idle"]
UseUp(what) == quota[what] > 0 /\ quota' = [quota EXCEPT ![what] = @ - 1]

NewsInit ==
  /\ accState = "idle" /\ lastApply = 0 /\ recording = FALSE
  /\ seen = Unseen /\ asked = NotAsked /\ quota \in NewsBounds
  /\ window = 0
  /\ told = [o \in Outcome |-> 0]

-----------------------------------------------------------------------------
\* The core, as its status shows it.

CoreOpensWindow ==
  /\ accState # "pending" /\ ~recording /\ UseUp("windows") /\ accState' = "pending" /\ window' = window + 1
  /\ UNCHANGED <<lastApply, recording, tellerVars>>

\* Wait returns; an accepted apply then sets lastApply.
EndWindow(o) ==
  /\ accState = "pending" /\ accState' = o /\ recording' = (o = "accepted")
  /\ UNCHANGED <<lastApply, quota, window, tellerVars>>

RecordApply ==
  /\ recording /\ recording' = FALSE /\ lastApply' = lastApply + 1
  /\ UNCHANGED <<accState, quota, window, tellerVars>>

\* An apply whose kernel write failed.
ResetWindow ==
  /\ accState = "pending" /\ accState' = "idle"
  /\ UNCHANGED <<lastApply, recording, quota, window, tellerVars>>

\* An apply with the window switched off leaves the last outcome in the status.
ApplyWithoutWindow ==
  /\ accState # "pending" /\ ~recording /\ UseUp("plain") /\ lastApply' = lastApply + 1
  /\ UNCHANGED <<accState, recording, window, tellerVars>>

\* A core that finds an open window at its start rolls it back and says so.
CoreBoot ==
  /\ UseUp("coreboots") /\ recording' = FALSE
  /\ accState' = IF accState = "pending" THEN "rolled_back" ELSE "idle"
  /\ UNCHANGED <<lastApply, window, tellerVars>>

-----------------------------------------------------------------------------
\* The web process.

WebBoot ==
  /\ UseUp("webboots") /\ seen' = Unseen /\ asked' = NotAsked
  /\ UNCHANGED <<coreVars, told>>

TickAsks ==
  /\ ~asked.on /\ asked' = [on |-> TRUE, last |-> lastApply]
  /\ UNCHANGED <<coreVars, seen, quota, told>>

\* The outcome a status announces, if any.
OutcomeNews(status) ==
  {o \in Outcome : status.acc = o /\ (status.last # seen.last \/ status.acc # seen.acc)}

\* observe, for a status that was read.
Observe(status) ==
  /\ seen' = status
  /\ told' = IF seen.seeded
             THEN [o \in Outcome |-> IF o \in OutcomeNews(status) THEN window ELSE told[o]]
             ELSE told

TickObserves ==
  /\ asked.on /\ asked' = NotAsked
  /\ Observe([seeded |-> TRUE, last |-> asked.last, acc |-> accState])
  /\ UNCHANGED <<coreVars, quota>>

\* Faulty: after an outage the notifier starts afresh.
BugOutage == seen' = Unseen

\* No status is unknown, not a change.
Outage == UNCHANGED seen

TickFails ==
  /\ asked.on /\ UseUp("nils") /\ asked' = NotAsked /\ Outage
  /\ UNCHANGED <<coreVars, told>>

NewsNext ==
  \/ CoreOpensWindow \/ RecordApply \/ ResetWindow \/ ApplyWithoutWindow \/ CoreBoot
  \/ WebBoot \/ TickAsks \/ TickObserves \/ TickFails \/ \E o \in Outcome : EndWindow(o)

\* The ticker runs and the core answers in the end; no apply or confirmation is
\* assumed to come.
NewsFairness == WF_newsVars(TickAsks) /\ WF_newsVars(TickObserves) /\ WF_newsVars(RecordApply)

-----------------------------------------------------------------------------
\* OutcomeHeard: a window the notifier saw open is reported when it ends, though
\* the core could not be asked for a while, unless another window, an outcome
\* gone with the core's process or a restart of the web process comes first
\* (observe, runNotifier).
OutcomeHeard ==
  \A b \in 0..1 :
    (seen.seeded /\ seen.acc = "pending" /\ accState \in Outcome /\ quota.webboots = b)
      ~> (accState \in Outcome /\ told[accState] = window) \/ accState \notin Outcome \/ quota.webboots # b
=============================================================================
