------------------------------ MODULE FirstRun -------------------------------
(***************************************************************************)
(* The first-run wizard.  Each browser answers a form, is shown a secret   *)
(* to pair, and confirms it with a code or, after a code that did not      *)
(* match, through the recovery escape; only then is the account written,   *)
(* and its firewall choices staged with two calls to the core.  Nothing is *)
(* stored before that, so several browsers may be half way at once.        *)
(***************************************************************************)
EXTENDS Naturals

CONSTANTS
  Browser,
  WizardLifetime, \* firstRunPendingLifetime
  WizardBounds    \* bounds of the runs: ticks, forms, failures, restarts

ASSUME FirstRunAssumption ==
  /\ WizardLifetime \in Nat /\ "nobody" \notin Browser
  /\ WizardBounds \subseteq [ticks : Nat, forms : Nat, failures : Nat, restarts : Nat]

VARIABLES
  clock,
  owner,   \* web.toml: the account written, with its secret and codes
  setups,  \* firstRunPending, and which one each browser's session names
  page,    \* what each browser was last shown
  wizard,  \* the request each browser has in flight
  choices, \* the initial rules and settings as staged in the core
  spare    \* what the run may still do

wizardVars == <<clock, owner, setups, page, wizard, choices, spare>>

NoSetup == [secret |-> 0]
Nobody == [by |-> "nobody", secret |-> 0]
Waiting == [pc |-> "waiting", secret |-> 0]

Use(what) == spare[what] > 0 /\ spare' = [spare EXCEPT ![what] = @ - 1]

WizardInit ==
  /\ clock = 0 /\ owner = Nobody
  /\ setups = [b \in Browser |-> NoSetup]
  /\ page = [b \in Browser |-> "form"]
  /\ wizard = [b \in Browser |-> Waiting]
  /\ choices = [tcp |-> "nobody", ipv6 |-> "nobody"]
  /\ spare \in WizardBounds

IsFirstRun == owner = Nobody

\* firstRunPendingLookup.
PendingFirstRun(b) == setups[b] # NoSetup /\ clock - setups[b].issued <= WizardLifetime

WizardTick ==
  /\ Use("ticks") /\ clock' = clock + 1
  /\ UNCHANGED <<owner, setups, page, wizard, choices>>

\* handleFirstRunPOST and beginFirstRunTOTP: a form with the token, a name, a
\* password that meets the policy and a port gets a secret to pair; anything
\* else is the form again.
FirstRunPOST(b) ==
  /\ wizard[b] = Waiting /\ Use("forms")
  /\ IF IsFirstRun
     THEN \/ /\ setups' = [setups EXCEPT ![b] = [secret |-> spare.forms, issued |-> clock,
                                                 failed |-> FALSE]]
             /\ page' = [page EXCEPT ![b] = "pair"]
          \/ UNCHANGED setups /\ page' = [page EXCEPT ![b] = "form"]
     ELSE UNCHANGED setups /\ page' = [page EXCEPT ![b] = "login"]
  /\ UNCHANGED <<clock, owner, wizard, choices>>

\* renderFirstRunSetup shows the secret again and extends the setup's life.
ShowAgain(b, s) ==
  /\ setups' = [setups EXCEPT ![b] = IF PendingFirstRun(b) THEN [s EXCEPT !.issued = clock] ELSE @]
  /\ page' = [page EXCEPT ![b] = "pair"]

\* A code that does not match, or a clock too far off, unlocks the escape.
ConfirmWrong(b) ==
  /\ wizard[b] = Waiting /\ page[b] = "pair" /\ Use("failures")
  /\ IF PendingFirstRun(b)
     THEN ShowAgain(b, [setups[b] EXCEPT !.failed = TRUE])
     ELSE UNCHANGED setups /\ page' = [page EXCEPT ![b] = "form"]
  /\ UNCHANGED <<clock, owner, wizard, choices>>

\* handleFirstRunConfirm with the right code, and handleFirstRunRecover with
\* the acknowledgement: both go on to write the account.
Finish(b) ==
  /\ wizard[b] = Waiting /\ page[b] = "pair"
  /\ IF PendingFirstRun(b)
     THEN /\ wizard' = [wizard EXCEPT ![b] = [pc |-> "save", secret |-> setups[b].secret]]
          /\ UNCHANGED <<setups, page>>
     ELSE UNCHANGED <<wizard, setups>> /\ page' = [page EXCEPT ![b] = "form"]
  /\ UNCHANGED <<clock, owner, choices, spare>>

RecoverEarly(b) ==
  /\ wizard[b] = Waiting /\ page[b] = "pair" /\ PendingFirstRun(b) /\ ~setups[b].failed
  /\ ShowAgain(b, setups[b])
  /\ UNCHANGED <<clock, owner, wizard, choices, spare>>

\* SaveFirstRun refuses once a password is set.
NotSetUp == IsFirstRun

\* Faulty: a setup that lost the race goes on to stage its choices.
BugLoserStages(b) == wizard' = [wizard EXCEPT ![b].pc = "stage"] /\ UNCHANGED page

\* ErrAlreadySetUp: the browser is sent to the login and nothing else happens.
AlreadySetUp(b) ==
  wizard' = [wizard EXCEPT ![b] = Waiting] /\ page' = [page EXCEPT ![b] = "login"]

\* SaveFirstRun in completeFirstRun; a failed write keeps the setup and shows
\* the same secret again.
SaveFirstRun(b) ==
  /\ wizard[b].pc = "save"
  /\ \/ ~NotSetUp /\ AlreadySetUp(b) /\ UNCHANGED <<owner, setups, spare>>
     \/ /\ NotSetUp /\ Use("failures") /\ UNCHANGED owner
        /\ ShowAgain(b, setups[b]) /\ wizard' = [wizard EXCEPT ![b] = Waiting]
     \/ /\ NotSetUp /\ UNCHANGED <<setups, page, spare>>
        /\ owner' = [by |-> b, secret |-> wizard[b].secret]
        /\ wizard' = [wizard EXCEPT ![b].pc = "stage"]
  /\ UNCHANGED <<clock, choices>>

\* The end of finishFirstRunEnrolled: the setup is dropped, the codes shown.
ShowCodes(b) ==
  /\ wizard' = [wizard EXCEPT ![b] = Waiting]
  /\ setups' = [setups EXCEPT ![b] = NoSetup]
  /\ page' = [page EXCEPT ![b] = "codes"]

\* applyFirstRunChoices: the ports, then the IPv6 mode; a failure in between
\* leaves the rest unstaged and the page says so.
StagePorts(b) ==
  /\ wizard[b].pc = "stage"
  /\ \/ Use("failures") /\ ShowCodes(b) /\ UNCHANGED choices
     \/ /\ choices' = [choices EXCEPT !.tcp = b]
        /\ wizard' = [wizard EXCEPT ![b].pc = "settings"] /\ UNCHANGED <<setups, page, spare>>
  /\ UNCHANGED <<clock, owner>>

StageSettings(b) ==
  /\ wizard[b].pc = "settings" /\ ShowCodes(b)
  /\ \/ Use("failures") /\ UNCHANGED choices
     \/ choices' = [choices EXCEPT !.ipv6 = b] /\ UNCHANGED spare
  /\ UNCHANGED <<clock, owner>>

\* A restart forgets the setups; the account and the core's choices stay.
WizardRestart ==
  /\ Use("restarts")
  /\ setups' = [b \in Browser |-> NoSetup] /\ wizard' = [b \in Browser |-> Waiting]
  /\ UNCHANGED <<clock, owner, page, choices>>

WizardNext ==
  \/ WizardTick \/ WizardRestart
  \/ \E b \in Browser :
       \/ FirstRunPOST(b) \/ ConfirmWrong(b) \/ Finish(b) \/ RecoverEarly(b)
       \/ SaveFirstRun(b) \/ StagePorts(b) \/ StageSettings(b)

WizardSpec == WizardInit /\ [][WizardNext]_wizardVars

-----------------------------------------------------------------------------
\* CodesAreTheOwners: only the browser whose setup became the account is shown
\* recovery codes, and only its choices are staged, whichever of several
\* wizards finishes first (completeFirstRun).
CodesAreTheOwners ==
  /\ \A b \in Browser : page[b] = "codes" \/ wizard[b].pc \in {"stage", "settings"} => owner.by = b
  /\ choices.tcp \in {"nobody", owner.by} /\ choices.ipv6 \in {"nobody", choices.tcp}

\* AccountStands: once written, the account is never written again
\* (SaveFirstRun's ErrAlreadySetUp).
AccountStands == [][owner = Nobody \/ owner' = owner]_wizardVars
=============================================================================
