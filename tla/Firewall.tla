----------------------------- MODULE Firewall -----------------------------
(***************************************************************************)
(* The apply cycle of easywall-core and everything that can meet it: the   *)
(* web interface's requests, the console's panic and resume, the restore   *)
(* at boot, after a resume and after a late Docker bridge, a graceful      *)
(* stop, the death of the process or of the machine, and the console       *)
(* command that acts by itself when no daemon answers.                     *)
(*                                                                         *)
(* Data are abstracted to what the properties tell apart.  A rule set is a *)
(* member of Rules, an options-and-network configuration a member of       *)
(* Configs, and table inet easywall is either NoTable (absent, or present  *)
(* and empty, which Enforcing() reports alike) or the rule set and the     *)
(* configuration it was built from.                                        *)
(***************************************************************************)
EXTENDS Acceptance

CONSTANTS
  Rules,        \* rule sets
  Empty,        \* the rule set of a fresh installation
  Configs,      \* firewall options with network settings
  NoConfig,     \* no configuration is recorded
  NoMarker,     \* the unconfirmed marker is absent
  NoTable,      \* the kernel enforces nothing
  Installs,     \* the installations considered: "fresh", "running", "upgraded"
  Windows,      \* the values acceptance.enabled can be given
  Faults,       \* the calls that can fail (see FaultKinds)
  Events        \* what can happen around the apply cycle (see EventKinds)

FaultKinds == {
  "read",       \* reading rules.json
  "backup",     \* BackupCurrent
  "mark",       \* markUnconfirmed
  "promote",    \* PromoteStaged
  "reread",     \* reading rules.json again after the promote
  "revert",     \* RulesStore.Rollback
  "unmark",     \* clearUnconfirmed
  "record",     \* recordAppliedConfig, writeLastApply
  "snapshot",   \* reading applied-config.json, or the snapshot in the marker
  "refused",    \* an nftables transaction the kernel refuses whole
  "late",       \* ApplyWithFeeds fails after its transaction was committed
  "reset",      \* Reset reports an error
  "delete",     \* Reset's delete fails, its error is dropped, and it reports success
  "panicread",  \* the panic marker cannot be read
  "panicmark",  \* the panic marker cannot be placed or removed
  "slotwait"}   \* the apply slot stays taken for restoreSlotWait

EventKinds == {"save", "configure", "panic", "stop", "kill", "powercut",
               "bridge", "clipanic", "cliresume"}

ASSUME ConstantsAssumption ==
  /\ Empty \in Rules
  /\ NoConfig \notin Configs
  /\ NoMarker \notin Configs \cup {NoConfig}
  /\ NoTable \notin [rules: Rules, cfg: Configs]
  /\ Installs \subseteq {"fresh", "running", "upgraded"}
  /\ Windows \subseteq BOOLEAN
  /\ Faults \subseteq FaultKinds
  /\ Events \subseteq EventKinds

VARIABLES
  \* On disk.
  current, staged, backup,  \* rules.json
  marker,       \* the unconfirmed marker: NoMarker or the snapshot inside it
  panic,        \* the panic marker
  applied,      \* applied-config.json
  lastFile,     \* last_apply exists
  \* In the kernel.
  table,
  \* In the core's memory.
  live,         \* the configuration in force for the next apply (f.cfg)
  window,       \* acceptance.enabled
  lastApply,    \* f.lastApply is set
  applying,     \* the apply slot
  daemon,       \* "down", "boot", "up", "closing", "latched", "draining"
  request,      \* an APPLY_RULES was read and is not dispatched yet
  console,      \* PANIC or RESUME under panicMu, then what RESUME answers
  pc, loc,      \* the goroutines that hold or want the slot, and their locals
  \* Another process.
  cli,          \* easywall-core panic without a daemon
  \* History: what an operator has approved.
  okRules, okConfigs

disk == <<current, staged, backup, marker, panic, applied, lastFile>>
memory == <<live, window, lastApply, applying, daemon, request, console>>
ghost == <<okRules, okConfigs>>
vars == <<disk, table, acc, memory, pc, loc, cli, ghost>>

Procs == {"apply", "boot", "resume", "bridge"}
Restorers == Procs \ {"apply"}

Snapshots == Configs \cup {NoConfig}
Tables == [rules: Rules, cfg: Configs] \cup {NoTable}

ApplyLabels == {"check", "backup", "mark", "promote", "reread", "kernel", "failed",
  "failtear", "written", "landtear", "wait", "confirm", "final",
  "revert", "unmark", "decide", "rewrite", "rewritten", "rewritefailed", "rewritetear"}
RestoreLabels == {"enter", "slot", "recheck", "undo", "undone", "load", "write",
  "writefailed", "wrote", "errtear", "tear"}
Labels == {"idle", "armed"} \cup ApplyLabels \cup RestoreLabels

(***************************************************************************)
(* prev, new, before, opts, on: state.Current, updatedState.Current,       *)
(* before, opts with nets, and acceptanceOn of apply.  new, before, opts,  *)
(* undone: state.Current, before, opts with nets, and reverted of          *)
(* RestoreCurrent.  claim: configured of Resume.                           *)
(***************************************************************************)
Locals == [prev: Rules, new: Rules, before: Snapshots, opts: Snapshots,
           on: BOOLEAN, undone: BOOLEAN, claim: BOOLEAN]
NoLocal == [prev |-> Empty, new |-> Empty, before |-> NoConfig, opts |-> NoConfig,
            on |-> FALSE, undone |-> FALSE, claim |-> FALSE]

TypeOK ==
  /\ current \in Rules /\ staged \in Rules /\ backup \in Rules
  /\ marker \in Snapshots \cup {NoMarker}
  /\ panic \in BOOLEAN /\ applied \in Snapshots /\ lastFile \in BOOLEAN
  /\ table \in Tables
  /\ acc \in AcceptanceType
  /\ live \in Configs /\ window \in BOOLEAN /\ lastApply \in BOOLEAN
  /\ applying \in BOOLEAN
  /\ daemon \in {"down", "boot", "up", "closing", "latched", "draining"}
  /\ request \in BOOLEAN
  /\ console \in {"idle", "mark", "cancel", "reset", "clear", "state", "restore",
                  "restored", "nothing", "error"}
  /\ pc \in [Procs -> Labels]
  /\ loc \in [Procs -> Locals]
  /\ cli \in {"idle", "tear"}
  /\ okRules \subseteq Rules /\ okConfigs \subseteq Configs

Fresh ==
  /\ current = Empty /\ applied = NoConfig /\ lastFile = FALSE /\ okRules = {}

\* A host with a confirmed set and the record of what went in with it.
Running ==
  /\ current \in Rules /\ applied = live /\ lastFile = TRUE /\ okRules = {current}

\* The same host as a core before 2.10 left it: nothing was recorded.
Upgraded ==
  /\ current \in Rules /\ applied = NoConfig /\ lastFile = TRUE /\ okRules = {current}

Init ==
  /\ live \in Configs /\ window \in Windows
  /\ \/ "fresh" \in Installs /\ Fresh
     \/ "running" \in Installs /\ Running
     \/ "upgraded" \in Installs /\ Upgraded
  /\ staged = current /\ backup = current
  /\ marker = NoMarker /\ panic = FALSE
  /\ table = NoTable
  /\ acc = AccInit
  /\ lastApply = FALSE /\ applying = FALSE
  /\ daemon = "down" /\ request = FALSE /\ console = "idle"
  /\ pc = [p \in Procs |-> "idle"] /\ loc = [p \in Procs |-> NoLocal]
  /\ cli = "idle"
  /\ okConfigs = {live}
---------------------------------------------------------------------------
(***************************************************************************)
(* Helpers.                                                                *)
(***************************************************************************)
Goto(p, label) == pc' = [pc EXCEPT ![p] = label]

\* Faulty: an empty rule set that was applied on purpose does not count.
BugOnlyRulesCount(rules) == rules # Empty

\* Faulty: an empty rule set on a fresh host is enforced like any other.
BugAlwaysConfigured(rules) == TRUE

EverConfigured(rules) == rules # Empty \/ lastApply

\* Faulty: every restore is built with what is configured now.
BugRestoreLive(snapshot) == live

\* configToRestore, and the restore that finds no record.
Recorded(snapshot) == IF snapshot # NoConfig THEN snapshot ELSE live

\* An installation with no record has nothing else to enforce than what is
\* configured now, and the code says so: falling back to it is approved.
Fallback(snapshot) == IF snapshot # NoConfig THEN {} ELSE {live}

\* What a read of a recorded configuration can return.
SnapshotReads(recorded) ==
  {recorded} \cup (IF "snapshot" \in Faults THEN {NoConfig} ELSE {})

\* What PanicEngaged can answer: a marker that cannot be read is engaged.
PanicEngaged == {panic} \cup (IF "panicread" \in Faults THEN {TRUE} ELSE {})

\* What engaged && known of PanicState can be.
PanicKnown == {panic} \cup (IF "panicread" \in Faults THEN {FALSE} ELSE {})

EngagePanic == panic' = TRUE
ClearPanic == panic' = FALSE

\* The three moves of the rules file.
BackupCurrent == backup' = current
PromoteStaged == current' = staged
RollbackRules == current' = backup

MarkUnconfirmed(before) == marker' = before

\* clearUnconfirmed logs an error and leaves the marker.
ClearUnconfirmed ==
  \/ marker' = NoMarker
  \/ "unmark" \in Faults /\ UNCHANGED marker

\* recordAppliedConfig logs an error and leaves the record.
RecordApplied(config) ==
  \/ applied' = config
  \/ "record" \in Faults /\ UNCHANGED applied

\* ApplyWithFeeds swaps the table in one transaction.
KernelApply(rules, config, ok) ==
  \/ ok /\ table' = [rules |-> rules, cfg |-> config]
  \/ ~ok /\ "refused" \in Faults /\ UNCHANGED table
  \/ ~ok /\ "late" \in Faults /\ table' = [rules |-> rules, cfg |-> config]

\* reset drops the error of its first flush, the delete.
KernelReset(ok) ==
  \/ ok /\ table' = NoTable
  \/ ~ok /\ "reset" \in Faults /\ table' \in {table, NoTable}
  \/ ok /\ "delete" \in Faults /\ UNCHANGED table

\* panicLandedDuringWrite takes the table down again.
TearDown == \E ok \in BOOLEAN : KernelReset(ok)

\* setLastApply: the field, then the file, whose error is only logged.
SetLastApply ==
  /\ lastApply' = TRUE
  /\ lastFile' \in {TRUE} \cup (IF "record" \in Faults THEN {lastFile} ELSE {})

ReadLastApply == lastApply' = lastFile

\* The apply slot is taken when it is free ...
BeginApply == ~applying /\ applying' = TRUE

\* ... and given back when apply or RestoreCurrent returns: its locals are gone.
Leave(p) == Goto(p, "idle") /\ loc' = [loc EXCEPT ![p] = NoLocal]

EndApply(p) == Leave(p) /\ applying' = FALSE
---------------------------------------------------------------------------
(***************************************************************************)
(* Firewall.apply, run by the goroutine that APPLY_RULES started with the  *)
(* slot already claimed.                                                   *)
(***************************************************************************)
cycle == loc["apply"]

\* Panic mode refuses the apply; otherwise it reads the state it would restore.
ApplyCheck ==
  /\ pc["apply"] = "check"
  /\ \/ (TRUE \in PanicEngaged \/ "read" \in Faults) /\ EndApply("apply")
     \/ /\ FALSE \in PanicEngaged
        /\ loc' = [loc EXCEPT !["apply"].prev = current]
        /\ Goto("apply", "backup")
        /\ UNCHANGED applying
  /\ UNCHANGED <<disk, table, acc, live, window, lastApply, daemon, request, console,
                 cli, ghost>>

\* Faulty: the backup is left out.
BugNoBackup ==
  /\ pc["apply"] = "backup"
  /\ Goto("apply", "mark")
  /\ UNCHANGED <<disk, table, acc, memory, loc, cli, ghost>>

ApplyBackup ==
  /\ pc["apply"] = "backup"
  /\ \/ "backup" \in Faults /\ EndApply("apply") /\ UNCHANGED backup
     \/ BackupCurrent /\ Goto("apply", "mark") /\ UNCHANGED <<loc, applying>>
  /\ UNCHANGED <<current, staged, marker, panic, applied, lastFile, table, acc, live,
                 window, lastApply, daemon, request, console, cli, ghost>>

\* Faulty: the apply is not marked before it is promoted.
BugUnmarked ==
  /\ pc["apply"] = "mark"
  /\ loc' = [loc EXCEPT !["apply"].opts = live, !["apply"].on = window,
                        !["apply"].before = applied]
  /\ Goto("apply", "promote")
  /\ UNCHANGED <<disk, table, acc, memory, cli, ghost>>

\* The one reading of the configuration for the whole cycle, and the marker.
ApplyMark ==
  /\ pc["apply"] = "mark"
  /\ \/ window /\ "mark" \in Faults /\ EndApply("apply") /\ UNCHANGED marker
     \/ \E before \in SnapshotReads(applied) :
          /\ loc' = [loc EXCEPT !["apply"].opts = live, !["apply"].on = window,
                                !["apply"].before = before]
          /\ IF window THEN MarkUnconfirmed(before) ELSE UNCHANGED marker
          /\ Goto("apply", "promote") /\ UNCHANGED applying
  /\ UNCHANGED <<current, staged, backup, panic, applied, lastFile, table, acc, live,
                 window, lastApply, daemon, request, console, cli, ghost>>

\* Without a window the operator's APPLY_RULES is itself the approval.
ApplyPromote ==
  /\ pc["apply"] = "promote"
  /\ \/ /\ "promote" \in Faults /\ ClearUnconfirmed
        /\ EndApply("apply")
        /\ UNCHANGED <<current, ghost>>
     \/ /\ PromoteStaged
        /\ Goto("apply", "reread")
        /\ okRules' = IF cycle.on THEN okRules ELSE okRules \cup {staged}
        /\ okConfigs' = IF cycle.on THEN okConfigs ELSE okConfigs \cup {cycle.opts}
        /\ UNCHANGED <<marker, loc, applying>>
  /\ UNCHANGED <<staged, backup, panic, applied, lastFile, table, acc, live, window,
                 lastApply, daemon, request, console, cli>>

\* The window opens before the kernel write.
ApplyReread ==
  /\ pc["apply"] = "reread"
  /\ \/ "reread" \in Faults /\ EndApply("apply") /\ UNCHANGED acc
     \/ /\ loc' = [loc EXCEPT !["apply"].new = current]
        /\ IF cycle.on THEN WindowStart ELSE UNCHANGED acc
        /\ Goto("apply", "kernel") /\ UNCHANGED applying
  /\ UNCHANGED <<disk, table, live, window, lastApply, daemon, request, console,
                 cli, ghost>>

ApplyKernel ==
  /\ pc["apply"] = "kernel"
  /\ \E ok \in BOOLEAN :
       /\ KernelApply(cycle.new, cycle.opts, ok)
       /\ Goto("apply", IF ok THEN "written" ELSE "failed")
  /\ UNCHANGED <<disk, acc, memory, loc, cli, ghost>>

\* The write failed: the window is given up and the marker looked at.
ApplyFailed ==
  /\ pc["apply"] = "failed"
  /\ WindowReset
  /\ \E engaged \in PanicEngaged : Goto("apply", IF engaged THEN "failtear" ELSE "revert")
  /\ UNCHANGED <<disk, table, memory, loc, cli, ghost>>

ApplyFailTear ==
  /\ pc["apply"] = "failtear"
  /\ TearDown
  /\ Goto("apply", "revert")
  /\ UNCHANGED <<disk, acc, memory, loc, cli, ghost>>

\* The marker once more; what was written is recorded only if it stays.
ApplyWritten ==
  /\ pc["apply"] = "written"
  /\ \E engaged \in PanicEngaged :
       IF engaged
       THEN Goto("apply", "landtear") /\ UNCHANGED applied
       ELSE Goto("apply", IF cycle.on THEN "wait" ELSE "final") /\ RecordApplied(cycle.opts)
  /\ UNCHANGED <<current, staged, backup, marker, panic, lastFile, table, acc, memory,
                 loc, cli, ghost>>

ApplyLandTear ==
  /\ pc["apply"] = "landtear"
  /\ TearDown
  /\ WindowReset
  /\ Goto("apply", "revert")
  /\ UNCHANGED <<disk, memory, loc, cli, ghost>>

\* Wait: AcceptanceWindow models its two critical sections apart.
ApplyWait ==
  /\ pc["apply"] = "wait"
  /\ Decided /\ WindowConclude
  /\ Goto("apply", IF acc.accepted THEN "confirm" ELSE "revert")
  /\ UNCHANGED <<disk, table, memory, loc, cli, ghost>>

ApplyConfirm ==
  /\ pc["apply"] = "confirm"
  /\ ClearUnconfirmed
  /\ Goto("apply", "final")
  /\ UNCHANGED <<current, staged, backup, panic, applied, lastFile, table, acc, memory,
                 loc, cli, ghost>>

ApplyFinal ==
  /\ pc["apply"] = "final"
  /\ SetLastApply
  /\ EndApply("apply")
  /\ UNCHANGED <<current, staged, backup, marker, panic, applied, table, acc, live,
                 window, daemon, request, console, cli, ghost>>
---------------------------------------------------------------------------
(***************************************************************************)
(* Firewall.rollback.                                                      *)
(***************************************************************************)
\* The rules file goes back first, whatever the panic marker says.
ApplyRevert ==
  /\ pc["apply"] = "revert"
  /\ \/ "revert" \in Faults /\ Goto("apply", "decide") /\ UNCHANGED current
     \/ RollbackRules /\ Goto("apply", "unmark")
  /\ UNCHANGED <<staged, backup, marker, panic, applied, lastFile, table, acc, memory,
                 loc, cli, ghost>>

ApplyUnmark ==
  /\ pc["apply"] = "unmark"
  /\ ClearUnconfirmed
  /\ Goto("apply", "decide")
  /\ UNCHANGED <<current, staged, backup, panic, applied, lastFile, table, acc, memory,
                 loc, cli, ghost>>

\* Only a marker known to be there keeps the kernel from being rewritten.
ApplyDecide ==
  /\ pc["apply"] = "decide"
  /\ \E engaged \in PanicKnown :
       IF engaged THEN EndApply("apply")
       ELSE Goto("apply", "rewrite") /\ UNCHANGED <<loc, applying>>
  /\ UNCHANGED <<disk, table, acc, live, window, lastApply, daemon, request, console,
                 cli, ghost>>

\* The first apply of an installation goes back to no table at all.
ApplyRewrite ==
  /\ pc["apply"] = "rewrite"
  /\ LET first == ~EverConfigured(cycle.prev)
         opts == IF first THEN live ELSE Recorded(cycle.before)
     IN /\ loc' = [loc EXCEPT !["apply"].opts = opts]
        /\ \E ok \in BOOLEAN :
             /\ IF first THEN KernelReset(ok) ELSE KernelApply(cycle.prev, opts, ok)
             /\ Goto("apply", IF ok THEN "rewritten" ELSE "rewritefailed")
        /\ okConfigs' = IF first THEN okConfigs ELSE okConfigs \cup Fallback(cycle.before)
  /\ UNCHANGED <<disk, acc, memory, cli, okRules>>

ApplyRewritten ==
  /\ pc["apply"] \in {"rewritten", "rewritefailed"}
  /\ \E engaged \in PanicKnown :
       IF engaged
       THEN Goto("apply", "rewritetear") /\ UNCHANGED <<loc, applying, applied>>
       ELSE /\ EndApply("apply")
            /\ IF pc["apply"] = "rewritten" THEN RecordApplied(cycle.opts) ELSE UNCHANGED applied
  /\ UNCHANGED <<current, staged, backup, marker, panic, lastFile, table, acc, live,
                 window, lastApply, daemon, request, console, cli, ghost>>

ApplyRewriteTear ==
  /\ pc["apply"] = "rewritetear"
  /\ TearDown
  /\ EndApply("apply")
  /\ UNCHANGED <<disk, acc, live, window, lastApply, daemon, request, console,
                 cli, ghost>>

ApplySteps ==
  \/ ApplyCheck \/ ApplyBackup \/ ApplyMark \/ ApplyPromote \/ ApplyReread
  \/ ApplyKernel \/ ApplyFailed \/ ApplyFailTear \/ ApplyWritten \/ ApplyLandTear
  \/ ApplyWait \/ ApplyConfirm \/ ApplyFinal
  \/ ApplyRevert \/ ApplyUnmark \/ ApplyDecide
  \/ ApplyRewrite \/ ApplyRewritten \/ ApplyRewriteTear
---------------------------------------------------------------------------
(***************************************************************************)
(* RestoreCurrent, run at boot, by RESUME and by the Docker reconciler.    *)
(***************************************************************************)
\* What Resume answers when its RestoreCurrent returns.
Return(r, err) ==
  console' = IF r # "resume" THEN console
             ELSE IF err THEN "error"
             ELSE IF loc[r].claim THEN "restored" ELSE "nothing"

RestoreEnter(r) ==
  /\ pc[r] = "enter"
  /\ \E engaged \in PanicEngaged :
       IF engaged THEN Leave(r) /\ Return(r, FALSE)
       ELSE Goto(r, "slot") /\ UNCHANGED <<loc, console>>
  /\ UNCHANGED <<disk, table, acc, live, window, lastApply, applying, daemon, request,
                 cli, ghost>>

\* waitForApplySlot
RestoreSlot(r) ==
  /\ pc[r] = "slot"
  /\ \/ /\ BeginApply
        /\ Goto(r, "recheck") /\ UNCHANGED <<loc, console>>
     \/ /\ applying /\ "slotwait" \in Faults
        /\ Leave(r) /\ Return(r, TRUE) /\ UNCHANGED applying
  /\ UNCHANGED <<disk, table, acc, live, window, lastApply, daemon, request, cli, ghost>>

RestoreRecheck(r) ==
  /\ pc[r] = "recheck"
  /\ \E engaged \in PanicEngaged :
       IF engaged THEN EndApply(r) /\ Return(r, FALSE)
       ELSE Goto(r, "undo") /\ UNCHANGED <<loc, applying, console>>
  /\ UNCHANGED <<disk, table, acc, live, window, lastApply, daemon, request, cli, ghost>>

\* Faulty: a window an earlier run left open is not looked for.
BugNoRevert(r) ==
  /\ pc[r] = "undo"
  /\ Goto(r, "load")
  /\ UNCHANGED <<disk, table, acc, memory, loc, cli, ghost>>

\* revertUnconfirmed: the rules file ...
RestoreUndo(r) ==
  /\ pc[r] = "undo"
  /\ \/ /\ marker = NoMarker
        /\ Goto(r, "load") /\ UNCHANGED <<current, loc, applying, console>>
     \/ /\ marker # NoMarker /\ "revert" \in Faults
        /\ EndApply(r) /\ Return(r, TRUE) /\ UNCHANGED current
     \/ /\ marker # NoMarker
        /\ RollbackRules
        /\ \E before \in SnapshotReads(marker) :
             loc' = [loc EXCEPT ![r].before = before, ![r].undone = TRUE]
        /\ Goto(r, "undone") /\ UNCHANGED <<applying, console>>
  /\ UNCHANGED <<staged, backup, marker, panic, applied, lastFile, table, acc, live,
                 window, lastApply, daemon, request, cli, ghost>>

\* ... then the marker.
RestoreUndone(r) ==
  /\ pc[r] = "undone"
  /\ ClearUnconfirmed
  /\ WindowRecordRolledBack("stopped")
  /\ Goto(r, "load")
  /\ UNCHANGED <<current, staged, backup, panic, applied, lastFile, table, memory, loc,
                 cli, ghost>>

\* What to write: the stored rules, with the configuration they went in with.
RestoreLoad(r) ==
  /\ pc[r] = "load"
  /\ \/ "read" \in Faults /\ EndApply(r) /\ Return(r, TRUE) /\ UNCHANGED okConfigs
     \/ /\ ~EverConfigured(current)
        /\ EndApply(r) /\ Return(r, FALSE) /\ UNCHANGED okConfigs
     \/ /\ EverConfigured(current)
        /\ \E snapshot \in IF loc[r].undone THEN {loc[r].before} ELSE SnapshotReads(applied) :
             /\ loc' = [loc EXCEPT ![r].new = current, ![r].opts = Recorded(snapshot)]
             /\ okConfigs' = okConfigs \cup Fallback(snapshot)
        /\ Goto(r, "write") /\ UNCHANGED <<applying, console>>
  /\ UNCHANGED <<disk, table, acc, live, window, lastApply, daemon, request, cli, okRules>>

RestoreWrite(r) ==
  /\ pc[r] = "write"
  /\ \E ok \in BOOLEAN :
       /\ KernelApply(loc[r].new, loc[r].opts, ok)
       /\ Goto(r, IF ok THEN "wrote" ELSE "writefailed")
  /\ UNCHANGED <<disk, acc, memory, loc, cli, ghost>>

RestoreWriteFailed(r) ==
  /\ pc[r] = "writefailed"
  /\ \E engaged \in PanicEngaged :
       IF engaged THEN Goto(r, "errtear") /\ UNCHANGED <<loc, applying, console>>
       ELSE EndApply(r) /\ Return(r, TRUE)
  /\ UNCHANGED <<disk, table, acc, live, window, lastApply, daemon, request, cli, ghost>>

\* Faulty: the panic marker is only read before the write.
BugNoCheckAfterWrite(r) ==
  /\ pc[r] = "wrote"
  /\ EndApply(r) /\ Return(r, FALSE) /\ RecordApplied(loc[r].opts)
  /\ UNCHANGED <<current, staged, backup, marker, panic, lastFile, table, acc, live,
                 window, lastApply, daemon, request, cli, ghost>>

RestoreWrote(r) ==
  /\ pc[r] = "wrote"
  /\ \E engaged \in PanicEngaged :
       IF engaged THEN Goto(r, "tear") /\ UNCHANGED <<applied, loc, applying, console>>
       ELSE EndApply(r) /\ Return(r, FALSE) /\ RecordApplied(loc[r].opts)
  /\ UNCHANGED <<current, staged, backup, marker, panic, lastFile, table, acc, live,
                 window, lastApply, daemon, request, cli, ghost>>

\* A restore the console overtook is not an error; a failed one still is.
RestoreTear(r) ==
  /\ pc[r] \in {"tear", "errtear"}
  /\ TearDown
  /\ EndApply(r) /\ Return(r, pc[r] = "errtear")
  /\ UNCHANGED <<disk, acc, live, window, lastApply, daemon, request, cli, ghost>>

RestoreSteps(r) ==
  \/ RestoreEnter(r) \/ RestoreSlot(r) \/ RestoreRecheck(r) \/ RestoreUndo(r)
  \/ RestoreUndone(r) \/ RestoreLoad(r) \/ RestoreWrite(r) \/ RestoreWriteFailed(r)
  \/ RestoreWrote(r) \/ RestoreTear(r)
---------------------------------------------------------------------------
(***************************************************************************)
(* Requests from the web interface.  A connection whose request was read   *)
(* before Stop is served to its end, so requests still arrive while the    *)
(* core is stopping.                                                       *)
(***************************************************************************)
Serving == daemon \in {"up", "closing", "latched", "draining"}

SaveRules ==
  /\ "save" \in Events /\ Serving
  /\ staged' \in Rules
  /\ UNCHANGED <<current, backup, marker, panic, applied, lastFile, table, acc, memory,
                 pc, loc, cli, ghost>>

\* SAVE_OPTIONS and SAVE_SETTINGS
SaveOptions ==
  /\ "configure" \in Events /\ Serving
  /\ live' \in Configs
  /\ UNCHANGED <<disk, table, acc, window, lastApply, applying, daemon, request, console,
                 pc, loc, cli, ghost>>

SaveSystem ==
  /\ "configure" \in Events /\ Serving
  /\ window' \in Windows
  /\ UNCHANGED <<disk, table, acc, live, lastApply, applying, daemon, request, console,
                 pc, loc, cli, ghost>>

ReceiveApply ==
  /\ daemon = "up" /\ ~request
  /\ request' = TRUE
  /\ UNCHANGED <<disk, table, acc, live, window, lastApply, applying, daemon, console,
                 pc, loc, cli, ghost>>

\* APPLY_RULES is refused, or claims the slot and starts the goroutine.
DispatchApply ==
  /\ request /\ request' = FALSE
  /\ \/ (TRUE \in PanicEngaged \/ applying) /\ UNCHANGED <<applying, pc>>
     \/ /\ FALSE \in PanicEngaged /\ BeginApply
        /\ Goto("apply", "check")
  /\ UNCHANGED <<disk, table, acc, live, window, lastApply, daemon, console, loc, cli,
                 ghost>>

\* ACCEPT answered true approves the set on trial and its configuration.
Accept ==
  /\ Serving /\ WindowAccept
  /\ okRules' = okRules \cup {current}
  /\ okConfigs' = okConfigs \cup {cycle.opts}
  /\ UNCHANGED <<disk, table, memory, pc, loc, cli>>

CancelAcceptance ==
  /\ Serving /\ WindowCancel("operator")
  /\ UNCHANGED <<disk, table, memory, pc, loc, cli, ghost>>

Expire ==
  /\ WindowExpire
  /\ UNCHANGED <<disk, table, memory, pc, loc, cli, ghost>>

Requests ==
  \/ SaveRules \/ SaveOptions \/ SaveSystem \/ ReceiveApply
  \/ Accept \/ CancelAcceptance
---------------------------------------------------------------------------
(***************************************************************************)
(* PANIC and RESUME, one at a time under panicMu.                          *)
(***************************************************************************)
ConsoleCommand ==
  /\ "panic" \in Events /\ daemon = "up" /\ console = "idle"
  /\ console' \in {"mark", "clear"}
  /\ UNCHANGED <<disk, table, acc, live, window, lastApply, applying, daemon, request,
                 pc, loc, cli, ghost>>

\* Panic: the marker first, so that the rollback a cancel wakes up sees it.
PanicMark ==
  /\ console = "mark"
  /\ \/ EngagePanic /\ console' = "cancel"
     \/ "panicmark" \in Faults /\ UNCHANGED panic /\ console' = "idle"
  /\ UNCHANGED <<current, staged, backup, marker, applied, lastFile, table, acc, live,
                 window, lastApply, applying, daemon, request, pc, loc, cli, ghost>>

PanicCancel ==
  /\ console = "cancel"
  /\ WindowCancelIfOpen("panic")
  /\ console' = "reset"
  /\ UNCHANGED <<disk, table, live, window, lastApply, applying, daemon, request,
                 pc, loc, cli, ghost>>

PanicReset ==
  /\ console = "reset"
  /\ TearDown
  /\ console' = "idle"
  /\ UNCHANGED <<disk, acc, live, window, lastApply, applying, daemon, request,
                 pc, loc, cli, ghost>>

\* Resume: the marker, then whether there is anything to restore, then the restore.
ResumeClear ==
  /\ console = "clear"
  /\ \/ ClearPanic /\ console' = "state"
     \/ "panicmark" \in Faults /\ UNCHANGED panic /\ console' = "error"
  /\ UNCHANGED <<current, staged, backup, marker, applied, lastFile, table, acc, live,
                 window, lastApply, applying, daemon, request, pc, loc, cli, ghost>>

ResumeState ==
  /\ console = "state"
  /\ \E configured \in {EverConfigured(current)} \cup (IF "read" \in Faults THEN {FALSE} ELSE {}) :
       loc' = [loc EXCEPT !["resume"].claim = configured]
  /\ Goto("resume", "enter")
  /\ console' = "restore"
  /\ UNCHANGED <<disk, table, acc, live, window, lastApply, applying, daemon, request,
                 cli, ghost>>

ResumeReply ==
  /\ console \in {"restored", "nothing", "error"}
  /\ console' = "idle"
  /\ UNCHANGED <<disk, table, acc, live, window, lastApply, applying, daemon, request,
                 pc, loc, cli, ghost>>

ConsoleSteps ==
  PanicMark \/ PanicCancel \/ PanicReset \/ ResumeClear \/ ResumeState \/ ResumeReply
---------------------------------------------------------------------------
(***************************************************************************)
(* The console command with no daemon accepting: the socket is absent      *)
(* before Listen and after Stop closed the listener.                       *)
(***************************************************************************)
CliPanic ==
  /\ "clipanic" \in Events /\ daemon # "up" /\ cli = "idle"
  /\ EngagePanic
  /\ cli' = "tear"
  /\ UNCHANGED <<current, staged, backup, marker, applied, lastFile, table, acc, memory,
                 pc, loc, ghost>>

CliTear ==
  /\ cli = "tear"
  /\ TearDown
  /\ cli' = "idle"
  /\ UNCHANGED <<disk, acc, memory, pc, loc, ghost>>

CliResume ==
  /\ "cliresume" \in Events /\ daemon # "up" /\ cli = "idle"
  /\ ClearPanic
  /\ UNCHANGED <<current, staged, backup, marker, applied, lastFile, table, acc, memory,
                 pc, loc, cli, ghost>>
---------------------------------------------------------------------------
(***************************************************************************)
(* The daemon, its end and the machine's.                                  *)
(***************************************************************************)
StartDaemon ==
  /\ daemon = "down"
  /\ daemon' = "boot"
  /\ ReadLastApply
  /\ Goto("boot", "enter")
  /\ UNCHANGED <<disk, table, acc, live, window, applying, request, console, loc, cli,
                 ghost>>

\* The boot restore has returned; the Docker reconciler may have a bridge to wait for.
Listen ==
  /\ daemon = "boot" /\ pc["boot"] = "idle"
  /\ daemon' = "up"
  /\ \/ UNCHANGED pc
     \/ "bridge" \in Events /\ FALSE \in PanicEngaged /\ Goto("bridge", "armed")
  /\ UNCHANGED <<disk, table, acc, live, window, lastApply, applying, request, console,
                 loc, cli, ghost>>

\* reconcileDockerBridges finds a bridge, or gives up at its deadline or at quit.
Reconcile ==
  /\ pc["bridge"] = "armed"
  /\ Goto("bridge", "enter") \/ Goto("bridge", "idle")
  /\ UNCHANGED <<disk, table, acc, memory, loc, cli, ghost>>

\* Stop closes the listener ...
StopDaemon ==
  /\ "stop" \in Events /\ daemon \in {"boot", "up"}
  /\ daemon' = "closing"
  /\ UNCHANGED <<disk, table, acc, live, window, lastApply, applying, request, console,
                 pc, loc, cli, ghost>>

\* Faulty: only a window that is already open learns of the stop.
BugStopNotLatched ==
  /\ daemon = "closing"
  /\ daemon' = "latched"
  /\ UNCHANGED <<disk, table, acc, live, window, lastApply, applying, request, console,
                 pc, loc, cli, ghost>>

\* ... latches the stop in the acceptance controller ...
ShutdownLatch ==
  /\ daemon = "closing"
  /\ WindowLatchStopping
  /\ daemon' = "latched"
  /\ UNCHANGED <<disk, table, live, window, lastApply, applying, request, console, pc,
                 loc, cli, ghost>>

\* ... cancels an open window ...
ShutdownCancel ==
  /\ daemon = "latched"
  /\ WindowCancelIfOpen("stopped")
  /\ daemon' = "draining"
  /\ UNCHANGED <<disk, table, live, window, lastApply, applying, request, console, pc,
                 loc, cli, ghost>>

\* What a process loses with its memory.  live and window are read back from the
\* configuration file they are saved in.
MemoryLost ==
  /\ acc' = AccInit
  /\ lastApply' = FALSE /\ applying' = FALSE
  /\ daemon' = "down" /\ request' = FALSE /\ console' = "idle"
  /\ pc' = [p \in Procs |-> "idle"] /\ loc' = [p \in Procs |-> NoLocal]

\* ... and waits for every goroutine before the process ends.
ExitDaemon ==
  /\ daemon = "draining"
  /\ \A p \in Procs : pc[p] = "idle"
  /\ ~request /\ console = "idle"
  /\ MemoryLost
  /\ UNCHANGED <<disk, table, live, window, cli, ghost>>

ShutdownSteps == ShutdownLatch \/ ShutdownCancel \/ ExitDaemon

\* SIGKILL, the OOM killer or the watchdog: the kernel keeps the table.
Kill ==
  /\ "kill" \in Events /\ daemon # "down"
  /\ MemoryLost
  /\ UNCHANGED <<disk, table, live, window, cli, ghost>>

PowerCut ==
  /\ "powercut" \in Events
  /\ MemoryLost
  /\ table' = NoTable /\ cli' = "idle"
  /\ UNCHANGED <<disk, live, window, ghost>>
---------------------------------------------------------------------------
Next ==
  \/ ApplySteps
  \/ \E r \in Restorers : RestoreSteps(r)
  \/ Requests \/ DispatchApply \/ Expire
  \/ ConsoleCommand \/ ConsoleSteps
  \/ CliPanic \/ CliTear \/ CliResume
  \/ StartDaemon \/ Listen \/ Reconcile \/ StopDaemon \/ ShutdownSteps
  \/ Kill \/ PowerCut

Spec == Init /\ [][Next]_vars

(***************************************************************************)
(* Fairness: a goroutine that can run does.  waitForApplySlot polls, so a  *)
(* restore that finds the slot free again and again takes it or gives up.  *)
(* The clock is not fair: a property that needs the timer says so.         *)
(***************************************************************************)
Fairness ==
  /\ WF_vars(ApplySteps) /\ WF_vars(DispatchApply)
  /\ \A r \in Restorers : WF_vars(RestoreSteps(r))
  /\ WF_vars(ConsoleSteps) /\ WF_vars(Reconcile) /\ WF_vars(ShutdownSteps)

FairSpec == Spec /\ Fairness
---------------------------------------------------------------------------
\* The goroutines that hold the apply slot.
Holds(p) == pc[p] \notin {"idle", "armed", "enter", "slot"}

\* Nobody is in the middle of anything.
Quiet ==
  /\ \A p \in Procs : pc[p] \in {"idle", "armed"}
  /\ console \in {"idle", "restored", "nothing", "error"}
  /\ cli = "idle"

\* The core is serving and should be filtering.
Enforcing == Serving /\ ~panic /\ Quiet

\* apply and RestoreCurrent never write table inet easywall, rules.json or the
\* marker at the same time: the slot is taken exactly when one of them runs.
SlotExclusion ==
  /\ \A p, q \in Procs : Holds(p) /\ Holds(q) => p = q
  /\ applying <=> \E p \in Procs : Holds(p)

\* What a core that starts now would put back in force.
NextStart == IF marker # NoMarker THEN backup ELSE current

\* Whenever the process dies, the rule set the next start puts in force is one
\* an operator approved: confirmed in a window, or applied with the window off.
NextStartApproved ==
  (NextStart # Empty \/ lastFile) => NextStart \in okRules

\* Where an apply that was not confirmed is still going to be undone.
Undoing ==
  \/ pc["apply"] \in {"written", "failed", "failtear", "landtear", "revert", "unmark",
                      "decide", "rewrite"}
  \/ pc["apply"] = "wait" /\ Pending

\* There is a table, and no start or resume is about to replace it.
InForce ==
  /\ Serving /\ ~panic /\ table # NoTable
  /\ pc["boot"] = "idle" /\ console \notin {"state", "restore"}

\* Rules nobody approved are never in force outside an apply that will take
\* them back unless they are confirmed.
KernelApproved ==
  InForce => table.rules \in okRules \/ Undoing

\* The same of the options and network settings the table was built with.
ConfigApproved ==
  InForce => table.cfg \in okConfigs \/ Undoing

\* Panic mode means no table: once everybody who was writing has finished, the
\* kernel is empty as long as the panic marker is there.
PanicDown == panic /\ Quiet => table = NoTable

\* A host that has been configured and is not in panic mode is never left open.
NeverLeftOpen ==
  Enforcing /\ (NextStart # Empty \/ lastApply) => table # NoTable

\* An installation whose first apply has not been confirmed is not left
\* enforcing anything, least of all the empty rule set, once the apply is over.
FirstApplyUndone ==
  Serving /\ Quiet /\ okRules = {} => table = NoTable

\* An apply that ends without confirmation leaves what it found: the previous
\* rule set in the file and, unless panic mode emptied it, in the kernel, with
\* the configuration that was on record when the apply began (some configuration,
\* if none could be read); and no table where there was no rule set.
RollbackStep ==
  (/\ pc["apply"] \in {"decide", "rewritten", "rewritefailed", "rewritetear"}
   /\ pc'["apply"] = "idle" /\ daemon' # "down")
  => /\ current' = cycle.prev /\ marker' = NoMarker
     /\ ~panic' => table' \in IF EverConfigured(cycle.prev)
                              THEN [rules : {cycle.prev},
                                    cfg : IF cycle.before = NoConfig THEN Configs ELSE {cycle.before}]
                              ELSE {NoTable}

\* RESUME reports "the stored rules are back in force" only when they are.
ResumeTruthful ==
  [][console # "restored" /\ console' = "restored" => table' # NoTable \/ panic']_vars

\* Every apply ends once the clock runs.
ApplyEnds == WF_vars(Expire) => (pc["apply"] # "idle" ~> pc["apply"] = "idle")

\* A stop ends without the clock: no window, no slot and no request holds it.
StopEnds == daemon = "closing" ~> daemon = "down"
===========================================================================
