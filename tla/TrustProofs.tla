----------------------------- MODULE TrustProofs -----------------------------
(***************************************************************************)
(* What table inet easywall may hold, proved for every set of rules and    *)
(* configurations: approved rules, approved options, and something on      *)
(* every configured host outside panic mode.  The three need to know of    *)
(* each process what the rules it loads or writes next are, and who will   *)
(* fill a table that was torn down.                                        *)
(***************************************************************************)
EXTENDS KernelProofs

-----------------------------------------------------------------------------
(***************************************************************************)
(* Rules in force.                                                         *)
(***************************************************************************)
\* Where the rules in force are always approved: a kernel that takes what it is
\* given, and no first apply that is killed, no marker that two consoles fight
\* over, no last_apply that is not written on a host that has none.
KernelObeyed ==
  /\ Benign /\ Faults \cap {"refused", "reset", "delete", "panicread"} = {}
  /\ "kill" \in Events => "fresh" \notin Installs /\ "read" \notin Faults
  /\ "panic" \in Events => Events \cap {"clipanic", "cliresume"} = {}
  /\ "fresh" \in Installs => "record" \notin Faults

\* What is remembered of an earlier confirmed apply.
LastInv ==
  /\ lastApply => lastFile
  /\ "fresh" \notin Installs => lastFile /\ (daemon # "down" => lastApply)

\* Who is there to engage panic mode.
ActorsInv ==
  /\ console # "idle" => "panic" \in Events
  /\ cli # "idle" => "clipanic" \in Events

\* What a goroutine is going to write, or has written.
NewInv ==
  /\ pc["apply"] \in {"kernel", "written", "wait"} => cycle.new = current
  /\ pc["apply"] \in {"written", "wait"} => table = NoTable \/ table.rules = current
  /\ \A r \in Restorers : pc[r] = "write" => loc[r].new \in okRules

\* A restore that has not written yet.
Restoring == {"enter", "slot", "recheck", "undo", "undone", "load", "write"}

\* Rules nobody approved have somebody left who replaces them or takes them down.
TrustInv ==
  \/ table = NoTable \/ table.rules \in okRules
  \/ pc["apply"] \in Taken
  \/ panic /\ (console \in {"cancel", "reset"} \/ cli = "tear")
  \/ "kill" \in Events /\ (daemon = "down" \/ pc["boot"] \in Restoring)

\* last_apply is written by the first confirmed apply and never removed.
LEMMA NextLast ==
  ASSUME "fresh" \in Installs => "record" \notin Faults, StructInv, LastInv, [Next]_vars
  PROVE  LastInv'
<1> USE DEF LastInv
<1>1. CASE ApplySteps
  BY <1>1, ApplyEffects DEF ApplyEffect, ApplyRecords
<1>2. CASE \E r \in Restorers : RestoreSteps(r)
  BY <1>2, RestoreEffects, Zenon DEF RestoreEffect
<1>3. CASE Bystanders \/ UNCHANGED vars
  BY <1>3, BystanderEffects DEF BystanderEffect
<1>4. CASE Starts
  BY <1>4, StartsFrame
<1>5. CASE ExitDaemon \/ Kill \/ PowerCut
  BY <1>5, EndsFrame
<1> QED
  BY <1>1, <1>2, <1>3, <1>4, <1>5, StepKinds

\* Only PANIC and RESUME occupy the console, only easywall-core panic the CLI.
LEMMA NextActors == ASSUME StructInv, ActorsInv, [Next]_vars PROVE ActorsInv'
<1> USE DEF ActorsInv
<1>1. CASE ApplySteps
  BY <1>1, ApplyEffects DEF ApplyEffect
<1>2. CASE \E r \in Restorers : RestoreSteps(r)
  BY <1>2, RestoreKeeps, RestoreEffects, Zenon DEF RestoreEffect
<1>3. CASE Bystanders \/ UNCHANGED vars
  BY <1>3, BystanderEffects DEF BystanderEffect, ConsoleEffect, CliEffect
<1>4. CASE Starts
  BY <1>4, StartsFrame
<1>5. CASE ExitDaemon \/ Kill \/ PowerCut
  BY <1>5, EndsFrame
<1> QED
  BY <1>1, <1>2, <1>3, <1>4, <1>5, StepKinds

\* What rollback or a restore puts back once the marker is gone is approved.
LEMMA StoredApproved ==
  ASSUME StartInv, LastInv, marker = NoMarker, EverConfigured(current) PROVE current \in okRules
BY DEF StartInv, NextStartApproved, NextStart, LastInv, EverConfigured

\* Apply leaves a set nobody approved in the kernel only where it goes on to
\* replace it, or where the console that engaged panic mode takes it down.
LEMMA ApplyTrust ==
  ASSUME KernelObeyed, StructInv, StartInv, DownInv, PrevInv, LastInv, NewInv, TrustInv, ApplySteps
  PROVE  NewInv' /\ TrustInv'
<1>a. /\ "panicread" \notin Faults /\ (Torn => table' = NoTable)
      /\ \A rules, config : Swapped(rules, config) => table'.rules = rules /\ table'.cfg = config
  BY DEF KernelObeyed, Torn, Swapped
<1>b. pc["boot"] = "idle" /\ daemon # "down"
  BY ApplyAlone DEF StartInv
<1>c. pc["apply"] = "rewrite" /\ EverConfigured(cycle.prev) => cycle.prev \in okRules
  BY StoredApproved DEF PrevInv, Unwinding
<1>d. /\ pc["apply"] \in {"confirm", "final"} => current \in okRules
      /\ pc["apply"] = "written" /\ ~cycle.on => current \in okRules
      /\ pc["apply"] = "wait" /\ acc.accepted => current \in okRules
  BY DEF StartInv, ConfirmInv, WaitInv, Trial
<1>e. \/ table = NoTable \/ table.rules \in okRules \/ pc["apply"] \in Taken
      \/ panic /\ (console \in {"cancel", "reset"} \/ cli = "tear")
  BY <1>b DEF TrustInv, Restoring
<1>1. /\ pc'["apply"] \in {"kernel", "written", "wait"} => loc'["apply"].new = current'
      /\ pc'["apply"] \in {"written", "wait"} => table' = NoTable \/ table'.rules = current'
  <2>1. pc'["apply"] \in {"kernel", "written", "wait"} => loc'["apply"].new = current'
    BY ApplyEffects, Zenon DEF ApplyEffect, ApplyFlow, ApplyFiles, ApplyKeeps, NewInv
  <2>2. pc'["apply"] = "written" => table'.rules = current'
    BY <1>a, ApplyEffects, Zenon DEF ApplyEffect, ApplyFlow, ApplyFiles, ApplyTable, NewInv
  <2>3. pc'["apply"] = "wait" => table' = NoTable \/ table'.rules = current'
    BY ApplyEffects, Zenon DEF ApplyEffect, ApplyFlow, ApplyFiles, ApplyTable, NewInv
  <2> QED
    BY <2>1, <2>2, <2>3, Zenon
<1>2. \/ table' = NoTable \/ table'.rules \in okRules' \/ pc'["apply"] \in Taken
      \/ panic /\ (console \in {"cancel", "reset"} \/ cli = "tear")
  <2>1. CASE pc["apply"] \in {"kernel", "rewrite", "failtear", "landtear", "rewritetear"}
    BY <1>a, <1>c, <2>1, ApplyEffects, Zenon DEF ApplyEffect, ApplyFlow, ApplyTable, ApplyWindow, Taken
  <2>2. CASE pc["apply"] \notin {"kernel", "rewrite", "failtear", "landtear", "rewritetear"}
    <3>1. table' = table /\ okRules \subseteq okRules'
      BY <2>2, ApplyEffects, Zenon DEF ApplyEffect, ApplyTable, ApplyWindow
    <3>2. ASSUME pc["apply"] \in Taken
          PROVE  \/ pc'["apply"] \in Taken \/ table = NoTable \/ table.rules \in okRules
                 \/ panic /\ (console \in {"cancel", "reset"} \/ cli = "tear")
      BY <1>a, <1>d, <2>2, <3>2, DecideDown, ApplyEffects, Zenon
         DEF ApplyEffect, ApplyFlow, ApplyLooks, NewInv, Taken
    <3> QED
      BY <1>e, <3>1, <3>2, Zenon
  <2> QED
    BY <2>1, <2>2, Zenon
<1>3. UNCHANGED <<panic, console, cli>> /\ okRules \subseteq okRules'
  BY ApplyEffects, Zenon DEF ApplyEffect, ApplyWindow
<1> QED
  BY <1>1, <1>2, <1>3, ApplyFrame, Zenon DEF NewInv, TrustInv, cycle

\* A restore writes approved rules; the one at boot does not end before it has,
\* if a kill can have left others.
LEMMA RestoreTrust ==
  ASSUME KernelObeyed, NEW r \in Restorers, StructInv, StartInv, LastInv, NewInv, TrustInv, RestoreSteps(r)
  PROVE  NewInv' /\ TrustInv'
<1>a. /\ "panicread" \notin Faults /\ "revert" \notin Faults /\ (Torn => table' = NoTable)
      /\ \A rules, config : Swapped(rules, config) => table'.rules = rules /\ table'.cfg = config
  BY DEF KernelObeyed, Benign, Torn, Swapped
<1>b. pc[r] = "load" /\ EverConfigured(current) => current \in okRules
  BY LoadUnmarked, StoredApproved, Zenon
<1>c. /\ pc'[r] = "write" => loc'[r].new \in okRules
      /\ table' = table \/ table' = NoTable \/ table'.rules \in okRules
      /\ UNCHANGED <<panic, cli, okRules, daemon>>
  <2>1. pc'[r] = "write" => loc'[r].new \in okRules
    BY <1>b, RestoreEffects, Zenon DEF RestoreEffect, RestoreFlow, RestoreKnows
  <2>2. table' = table \/ table' = NoTable \/ table'.rules \in okRules
    <3>1. RestoreTable(pc[r], loc[r])
      BY RestoreEffects, Zenon DEF RestoreEffect
    <3>2. pc[r] = "write" => loc[r].new \in okRules
      BY Zenon DEF NewInv
    <3> QED
      BY <1>a, <3>1, <3>2, Zenon DEF RestoreTable
  <2>3. UNCHANGED <<panic, cli, okRules, daemon>>
    BY RestoreEffects, Zenon DEF RestoreEffect
  <2> QED
    BY <2>1, <2>2, <2>3, Zenon
<1>d. ASSUME "kill" \in Events, r = "boot", pc[r] \in Restoring
      PROVE  pc'[r] \in Restoring \/ table'.rules \in okRules
  <2>1. pc[r] = "slot" => pc'[r] = "recheck"
    <3>1. pc[r] = "slot" => ~applying
      BY <1>d, Zenon DEF StartInv, BootInv, StructInv, SlotExclusion, Holds, Procs
    <3>2. pc[r] = "slot" => RestoreSlot(r)
      BY Zenon DEF RestoreSteps, RestoreEnter, RestoreRecheck, RestoreUndo, RestoreUndone, RestoreLoad, RestoreWrite,
             RestoreWriteFailed, RestoreWrote, RestoreTear
    <3> QED
      BY <3>1, <3>2, Zenon DEF RestoreSlot, Goto, StructInv, TypeOK, Restorers
  <2>2. ~panic /\ EverConfigured(current) /\ "read" \notin Faults
    BY <1>d, Zenon DEF StartInv, PanicInv, KernelObeyed, Benign, CrashPossible, LastInv, StructInv, LifeInv, Procs,
                Restoring, EverConfigured
  <2> QED
    BY <1>a, <1>d, <2>1, <2>2, RestoreEffects, Zenon
       DEF RestoreEffect, RestoreFlow, RestoreLooks, RestoreTable, NewInv, Restoring
<1>1. NewInv'
  BY <1>c, RestoreKeeps, RestoreAlone DEF NewInv, cycle, Procs, Restorers
<1>2. TrustInv'
  <2>1. CASE "kill" \in Events /\ r = "boot" /\ pc[r] \in Restoring
    BY <1>c, <1>d, <2>1, RestoreKeeps, Zenon DEF TrustInv, Procs
  <2>2. CASE ~("kill" \in Events /\ r = "boot" /\ pc[r] \in Restoring)
    BY <1>c, <2>2, RestoreKeeps DEF TrustInv, Procs, Restorers
  <2> QED
    BY <2>1, <2>2, Zenon
<1> QED
  BY <1>1, <1>2

\* The console and the CLI take down the table they engaged panic mode over, and
\* a process that is killed leaves its table for the next start to replace.
LEMMA OthersTrust ==
  ASSUME KernelObeyed, StructInv, ActorsInv, NewInv, TrustInv,
         (Bystanders \/ UNCHANGED vars) \/ Starts \/ (ExitDaemon \/ Kill \/ PowerCut)
  PROVE  NewInv' /\ TrustInv'
<1>1. CASE Bystanders \/ UNCHANGED vars
  <2>1. ~(console # "idle" /\ (cli # "idle" \/ "cliresume" \in Events \/ "clipanic" \in Events))
    BY DEF ActorsInv, KernelObeyed
  <2>2. Torn => table' = NoTable
    BY Zenon DEF KernelObeyed, Torn
  <2>3. /\ table' = table \/ table' = NoTable
        /\ panic /\ (console \in {"cancel", "reset"} \/ cli = "tear") =>
             table' = NoTable \/ (panic' /\ (console' \in {"cancel", "reset"} \/ cli' = "tear"))
    BY <1>1, <2>1, <2>2, BystanderEffects DEF BystanderEffect, ConsoleEffect, CliEffect
  <2> QED
    BY <1>1, <2>3, BystanderEffects DEF BystanderEffect, NewInv, TrustInv, cycle
<1>2. CASE Starts
  <2>1. NewInv'
    BY <1>2, StartsFrame DEF NewInv, cycle
  <2>2. "boot" \in Restorers /\ "enter" \in Restoring /\ "idle" \notin Restoring /\ "armed" \notin Restoring
    BY DEF Restorers, Procs, Restoring
  <2>3. "check" \notin Taken /\ "idle" \notin Taken
    BY Zenon DEF Taken
  <2> QED
    BY <1>2, <2>1, <2>2, <2>3, StartsFrame, Zenon DEF TrustInv
<1>3. CASE ExitDaemon \/ Kill \/ PowerCut
  BY <1>3, EndsFrame DEF NewInv, TrustInv, Taken, Procs, Restorers
<1> QED
  BY <1>1, <1>2, <1>3, Zenon

\* KernelTrusted: outside an apply that is about to be undone, the kernel holds
\* no rules that nobody confirmed, whatever overlaps with the apply: a restore,
\* panic mode, a stop, a kill, and the start after it (apply, RestoreCurrent).
THEOREM KernelTrusted == ASSUME KernelObeyed PROVE Spec => []KernelApproved
<1> DEFINE Inv == /\ StructInv /\ StartInv /\ DownInv /\ PrevInv
                  /\ LastInv /\ ActorsInv /\ NewInv /\ TrustInv
<1>0. Benign /\ ("fresh" \in Installs => "record" \notin Faults)
  BY DEF KernelObeyed
<1>1. Init => Inv
  <2> SUFFICES ASSUME Init PROVE Inv
    OBVIOUS
  <2>1. StructInv /\ StartInv
    BY InitStruct, InitStart, Zenon
  <2>2. DownInv /\ ActorsInv /\ TrustInv
    BY Zenon DEF Init, DownInv, ActorsInv, TrustInv
  <2>3. pc["apply"] = "idle" /\ (\A r \in Restorers : pc[r] = "idle")
    BY DEF Init, Procs, Restorers
  <2>4. PrevInv /\ NewInv
    BY <2>3 DEF PrevInv, Provisional, Trial, Unwinding, NewInv
  <2>5. LastInv
    BY DEF Init, Fresh, Running, Upgraded, LastInv
  <2> QED
    BY <2>1, <2>2, <2>4, <2>5
<1>2. Inv /\ [Next]_vars => Inv'
  <2> SUFFICES ASSUME Inv, [Next]_vars PROVE Inv'
    BY Zenon
  <2>1. StructInv' /\ StartInv' /\ PrevInv' /\ LastInv' /\ ActorsInv'
    BY <1>0, NextStruct, NextStarts, NextPrev, NextLast, NextActors
  <2>2. DownInv'
    <3>1. CASE "kill" \in Events
      BY <1>0, <2>1, <3>1, Zenon DEF StartInv, PanicInv, Benign, CrashPossible, DownInv
    <3>2. CASE "kill" \notin Events
      BY <3>2, NextDown, Zenon DEF KernelObeyed, PanicObeyed
    <3> QED
      BY <3>1, <3>2, Zenon
  <2>3. NewInv' /\ TrustInv'
    BY StepKinds, ApplyTrust, RestoreTrust, OthersTrust, Zenon
  <2> QED
    BY <2>1, <2>2, <2>3
<1>3. Inv => KernelApproved
  BY DEF KernelApproved, InForce, Serving, Undoing, TrustInv, Taken, Restoring, StartInv, WaitInv, Pending, StructInv
<1> QED
  BY <1>1, <1>2, <1>3, PTL DEF Spec

-----------------------------------------------------------------------------
(***************************************************************************)
(* Options in force.                                                       *)
(***************************************************************************)
\* Where the same holds of the options.  applied-config.json is written before
\* the window is decided, so nothing may keep rollback from writing it again:
\* the run v_panic_options shows panic mode doing so.
ConfigObeyed ==
  /\ Benign /\ ~PanicPossible /\ ~CrashPossible /\ "fresh" \notin Installs
  /\ Faults \cap {"refused", "late", "record"} = {}

\* Approved, or nothing.
Known == okConfigs \cup {NoConfig}

\* What is recorded, and what goroutines have read of it, is approved but for
\* the record of an apply on trial.
ConfigInv ==
  /\ applied \in Known \/ pc["apply"] \in Taken \cup {"rewritten"}
  /\ pc["apply"] = "wait" => applied = cycle.opts
  /\ marker \in Known \cup {NoMarker} /\ \A p \in Procs : loc[p].before \in Known
  /\ pc["apply"] \in {"reread", "kernel", "written"} /\ ~cycle.on => cycle.opts \in okConfigs
  /\ pc["apply"] \in {"confirm", "final", "rewritten"} => cycle.opts \in okConfigs
  /\ Pending /\ acc.accepted => cycle.opts \in okConfigs
  /\ \A r \in Restorers : pc[r] \in {"write", "wrote"} => loc[r].opts \in okConfigs
  /\ pc["apply"] \in {"written", "wait"} => table = NoTable \/ table.cfg = cycle.opts
  /\ table = NoTable \/ table.cfg \in okConfigs \/ pc["apply"] \in Taken

\* A snapshot that was read, or what stands in for none, is approved.
LEMMA RecordedApproved ==
  ASSUME NEW snapshot \in Known PROVE Recorded(snapshot) \in okConfigs \cup Fallback(snapshot)
BY Zenon DEF Known, Recorded, Fallback

\* Apply records what it wrote, and rollback records what it wrote back.
LEMMA ApplyConfig ==
  ASSUME ConfigObeyed, StructInv, StartInv, LastInv, ConfigInv, ApplySteps PROVE ConfigInv'
<1>a. /\ "late" \notin Faults /\ "refused" \notin Faults /\ "record" \notin Faults /\ "reread" \notin Faults
      /\ ~panic /\ "panicread" \notin Faults
      /\ Torn => table' = table \/ table' = NoTable
      /\ \A rules, config : Swapped(rules, config) => table'.rules = rules /\ table'.cfg = config
  BY NoPanic DEF ConfigObeyed, Benign, Torn, Swapped
<1>b. EverConfigured(cycle.prev)
  BY ApplyAlone DEF StartInv, LastInv, ConfigObeyed, EverConfigured
<1>c. /\ pc["apply"] = "wait" => Pending /\ cycle.on
      /\ Pending => pc["apply"] \in {"kernel", "failed", "written", "landtear", "wait"}
  BY DEF StartInv, WaitInv, StructInv, WindowInv
<1>d. \A s \in SnapshotReads(applied) : applied \in Known => s \in Known
  BY Zenon DEF SnapshotReads, Known
<1>e. cycle.before \in Known /\ (pc["apply"] = "rewrite" => Recorded(cycle.before) \in okConfigs')
  <2>1. cycle.before \in Known
    BY Zenon DEF ConfigInv, cycle, Procs
  <2> QED
    BY <1>b, <2>1, RecordedApproved, ApplyEffects DEF ApplyEffect, ApplyWindow
<1>f. okConfigs \subseteq okConfigs' /\ NoLocal.before \in Known
  BY ApplyEffects, Zenon DEF ApplyEffect, ApplyWindow, NoLocal, Known
<1>1. /\ applied' \in Known' \/ pc'["apply"] \in Taken \cup {"rewritten"}
      /\ pc'["apply"] = "wait" => applied' = loc'["apply"].opts
  <2>1. applied' \in Known' \/ pc'["apply"] \in Taken \cup {"rewritten"}
    <3>1. CASE pc["apply"] \notin Taken \cup {"rewritten"}
      BY <1>f, <3>1, ApplyEffects, Zenon DEF ApplyEffect, ApplyRecords, ConfigInv, Known, Taken
    <3>2. CASE pc["apply"] \in {"written", "rewritten"}
      BY <1>a, <1>b, <1>f, <3>2, ApplyEffects, Zenon
         DEF ApplyEffect, ApplyFlow, ApplyLooks, ApplyRecords, ConfigInv, Known, Taken
    <3>3. CASE pc["apply"] = "wait"
      BY <1>c, <1>f, <3>3, ApplyEffects, Zenon DEF ApplyEffect, ApplyFlow, ApplyRecords, ConfigInv, Known, Taken
    <3>4. CASE pc["apply"] \in Taken \ {"written", "wait"}
      BY <1>a, <1>b, <3>4, ApplyEffects, Zenon DEF ApplyEffect, ApplyFlow, ApplyLooks, ApplyTable, Taken
    <3> QED
      BY <3>1, <3>2, <3>3, <3>4, Zenon
  <2>2. pc'["apply"] = "wait" => applied' = loc'["apply"].opts
    BY <1>a, <1>b, ApplyEffects, Zenon DEF ApplyEffect, ApplyFlow, ApplyRecords, ApplyKeeps
  <2> QED
    BY <2>1, <2>2, Zenon
<1>2. marker' \in Known' \cup {NoMarker} /\ loc'["apply"].before \in Known'
  <2>1. marker \in Known \cup {NoMarker} /\ Known \subseteq Known'
    BY <1>f, Zenon DEF ConfigInv, Known
  <2>2. pc["apply"] = "mark" => applied \in Known
    BY Zenon DEF ConfigInv, Taken
  <2>3. loc'["apply"].before \in Known
    BY <1>d, <1>e, <1>f, <2>2, ApplyEffects, Zenon DEF ApplyEffect, ApplyFlow, ApplyKeeps
  <2>4. marker' \in Known \cup {NoMarker}
    BY <2>1, <2>3, ApplyEffects, Zenon DEF ApplyEffect, ApplyFiles
  <2> QED
    BY <2>1, <2>3, <2>4, Zenon
<1>3. /\ pc'["apply"] \in {"reread", "kernel", "written"} /\ ~loc'["apply"].on => loc'["apply"].opts \in okConfigs'
      /\ pc'["apply"] \in {"confirm", "final", "rewritten"} => loc'["apply"].opts \in okConfigs'
      /\ Pending' /\ acc'.accepted => loc'["apply"].opts \in okConfigs'
  BY <1>a, <1>b, <1>c, <1>e, <1>f, ApplyEffects, Zenon
     DEF ApplyEffect, ApplyFlow, ApplyLooks, ApplyWindow, ApplyKeeps, ConfigInv, Pending
<1>4. /\ pc'["apply"] \in {"written", "wait"} => table' = NoTable \/ table'.cfg = loc'["apply"].opts
      /\ table' = NoTable \/ table'.cfg \in okConfigs' \/ pc'["apply"] \in Taken
  <2>1. pc'["apply"] = "written" => table'.cfg = loc'["apply"].opts
    BY <1>a, ApplyEffects, Zenon DEF ApplyEffect, ApplyFlow, ApplyTable, ApplyKeeps
  <2>2. pc'["apply"] = "wait" => table' = NoTable \/ table'.cfg = loc'["apply"].opts
    BY ApplyEffects, Zenon DEF ApplyEffect, ApplyFlow, ApplyTable, ApplyKeeps, ConfigInv
  <2>3. table' = NoTable \/ table'.cfg \in okConfigs' \/ pc'["apply"] \in Taken
    BY <1>a, <1>b, <1>c, <1>e, <1>f, ApplyEffects, Zenon
       DEF ApplyEffect, ApplyFlow, ApplyLooks, ApplyTable, ConfigInv, Taken
  <2> QED
    BY <2>1, <2>2, <2>3, Zenon
<1> QED
  BY <1>f, <1>1, <1>2, <1>3, <1>4, ApplyFrame, Zenon DEF ConfigInv, Known, cycle, Procs, Restorers

\* A restore reads approved snapshots and records what it wrote.
LEMMA RestoreConfig ==
  ASSUME ConfigObeyed, NEW r \in Restorers, StructInv, StartInv, ConfigInv, RestoreSteps(r)
  PROVE  ConfigInv'
<1>a. /\ Torn => table' = table \/ table' = NoTable
      /\ \A rules, config : Swapped(rules, config) => table'.rules = rules /\ table'.cfg = config
  BY DEF ConfigObeyed, Torn, Swapped
<1>b. /\ pc["apply"] = "idle" => \A s \in SnapshotReads(applied) : s \in Known
      /\ marker # NoMarker => \A s \in SnapshotReads(marker) : s \in Known
      /\ loc[r].before \in Known /\ NoLocal.before \in Known
  BY Zenon DEF SnapshotReads, Known, ConfigInv, Taken, NoLocal, Restorers
<1>c. pc'[r] = "write" => loc'[r].opts \in okConfigs'
  <2> SUFFICES ASSUME pc'[r] = "write" PROVE loc'[r].opts \in okConfigs'
    BY Zenon
  <2>1. pc["apply"] = "idle"
    BY RestoreAlone, RestoreEffects DEF RestoreEffect, RestoreFlow
  <2>2. PICK s \in IF loc[r].undone THEN {loc[r].before} ELSE SnapshotReads(applied) :
          loc'[r].opts = Recorded(s) /\ okConfigs' = okConfigs \cup Fallback(s)
    BY RestoreEffects, Zenon DEF RestoreEffect, RestoreKnows
  <2>3. s \in Known
    BY <1>b, <2>1, Zenon
  <2> QED
    BY <2>2, <2>3, RecordedApproved, Zenon
<1>d. loc'[r].before \in Known'
  BY <1>b, RestoreEffects, Zenon DEF RestoreEffect, RestoreFlow, RestoreKnows, Known
<1>e. /\ okConfigs \subseteq okConfigs' /\ marker' \in Known' \cup {NoMarker}
      /\ pc'[r] \in {"write", "wrote"} => loc'[r].opts \in okConfigs'
      /\ applied' = applied \/ applied' \in Known'
      /\ table' = table \/ table' = NoTable \/ table'.cfg \in okConfigs'
      /\ acc' = acc \/ ~Pending'
  <2>1. okConfigs \subseteq okConfigs' /\ marker' \in {marker, NoMarker} /\ (acc' = acc \/ ~Pending')
    BY RestoreEffects, Zenon DEF RestoreEffect, RestoreFiles
  <2>2. marker' \in Known' \cup {NoMarker}
    BY <2>1, Zenon DEF ConfigInv, Known
  <2>3. pc[r] \in {"write", "wrote"} => loc[r].opts \in okConfigs'
    BY <2>1, Zenon DEF ConfigInv
  <2>4. pc'[r] = "wrote" => loc'[r].opts \in okConfigs'
    BY <2>3, RestoreEffects, Zenon DEF RestoreEffect, RestoreFlow, RestoreKnows
  <2>5. applied' = applied \/ applied' \in Known'
    BY <2>3, RestoreEffects, Zenon DEF RestoreEffect, RestoreFiles, Known
  <2>6. table' = table \/ table' = NoTable \/ table'.cfg \in okConfigs'
    BY <1>a, <2>3, RestoreEffects, Zenon DEF RestoreEffect, RestoreTable
  <2> QED
    BY <1>c, <2>1, <2>2, <2>4, <2>5, <2>6, Zenon
<1>1. pc'["apply"] = pc["apply"] /\ loc'["apply"] = loc["apply"]
  BY RestoreFrame, Zenon
<1>2. \A p \in Restorers : pc'[p] \in {"write", "wrote"} => loc'[p].opts \in okConfigs'
  BY <1>e, RestoreKeeps, Zenon DEF ConfigInv, Restorers, Procs
<1>3. \A p \in Procs : loc'[p].before \in Known'
  BY <1>d, <1>e, RestoreKeeps DEF ConfigInv, Known
<1>4. Pending' => Pending /\ acc' = acc
  BY <1>e DEF Pending
<1>5. applied' = applied \/ pc["apply"] = "idle"
  BY RestoreAlone, Zenon
<1>6. /\ applied' \in Known' \/ pc'["apply"] \in Taken \cup {"rewritten"}
      /\ pc'["apply"] = "wait" => applied' = cycle'.opts
  BY <1>e, <1>1, <1>5, Zenon DEF ConfigInv, Known, cycle, Taken
<1>7. table' = table \/ pc["apply"] = "idle"
  BY RestoreAlone, Zenon
<1>8. /\ pc'["apply"] \in {"written", "wait"} => table' = NoTable \/ table'.cfg = cycle'.opts
      /\ table' = NoTable \/ table'.cfg \in okConfigs' \/ pc'["apply"] \in Taken
  BY <1>e, <1>1, <1>7, Zenon DEF ConfigInv, cycle, Taken
<1>9. /\ pc'["apply"] \in {"reread", "kernel", "written"} /\ ~cycle'.on => cycle'.opts \in okConfigs'
      /\ pc'["apply"] \in {"confirm", "final", "rewritten"} => cycle'.opts \in okConfigs'
      /\ Pending' /\ acc'.accepted => cycle'.opts \in okConfigs'
  BY <1>e, <1>1, <1>4, Zenon DEF ConfigInv, cycle
<1> QED
  BY <1>e, <1>2, <1>3, <1>6, <1>8, <1>9, Zenon DEF ConfigInv

\* Nobody else reads or writes a record.
LEMMA OthersConfig ==
  ASSUME ConfigObeyed, StructInv, StartInv, ConfigInv,
         (Bystanders \/ UNCHANGED vars) \/ Starts \/ (ExitDaemon \/ Kill \/ PowerCut)
  PROVE  ConfigInv'
<1>1. CASE Bystanders \/ UNCHANGED vars
  <2>1. table' = table \/ table' = NoTable
    BY <1>1, BystanderEffects, Zenon DEF BystanderEffect, ConsoleEffect, CliEffect, Torn
  <2> QED
    BY <1>1, <2>1, BystanderEffects DEF BystanderEffect, ConfigInv, Known, cycle
<1>2. CASE Starts
  <2>1. \A p \in Procs : p = "apply" \/ p \in Restorers
    BY DEF Restorers
  <2> QED
    BY <1>2, <2>1, StartsFrame, Zenon DEF ConfigInv, Known, cycle, Taken, Pending
<1>3. CASE ExitDaemon \/ Kill \/ PowerCut
  <2>1. UNCHANGED table /\ pc["apply"] = "idle" /\ NoLocal.before = NoConfig
    BY <1>3, EndsFrame, Zenon DEF ConfigObeyed, CrashPossible, NoLocal, Procs
  <2> QED
    BY <1>3, <2>1, EndsFrame, Zenon DEF ConfigInv, Known, Taken, Procs, Restorers
<1> QED
  BY <1>1, <1>2, <1>3

\* OptionsTrusted: outside an apply that is about to be undone, the kernel holds
\* no options that nobody confirmed, although they are saved at any moment and
\* recorded before the window is decided (apply, rollback, RestoreCurrent).
THEOREM OptionsTrusted == ASSUME ConfigObeyed PROVE Spec => []ConfigApproved
<1> DEFINE Inv == StructInv /\ StartInv /\ LastInv /\ ConfigInv
<1>0. Benign /\ ("fresh" \in Installs => "record" \notin Faults)
  BY DEF ConfigObeyed
<1>1. Init => Inv
  <2> SUFFICES ASSUME Init PROVE Inv
    BY Zenon
  <2>1. StructInv /\ StartInv
    BY InitStruct, InitStart
  <2>2. LastInv
    BY DEF Init, Fresh, Running, Upgraded, LastInv
  <2>3. applied \in Known
    BY Zenon DEF Init, Fresh, Running, Upgraded, Known
  <2>4. /\ marker = NoMarker /\ table = NoTable /\ ~Pending
        /\ \A p \in Procs : pc[p] = "idle" /\ loc[p].before = NoConfig
    BY DEF Init, AccInit, Pending, NoLocal
  <2> QED
    BY <2>1, <2>2, <2>3, <2>4, Zenon DEF ConfigInv, Known, Procs, Restorers
<1>2. Inv /\ [Next]_vars => Inv'
  <2> SUFFICES ASSUME Inv, [Next]_vars PROVE Inv'
    OBVIOUS
  <2>1. StructInv' /\ StartInv' /\ LastInv'
    BY <1>0, NextStruct, NextStarts, NextLast
  <2>2. ConfigInv'
    BY StepKinds, ApplyConfig, RestoreConfig, OthersConfig
  <2> QED
    BY <2>1, <2>2
<1>3. Inv => ConfigApproved
  BY Zenon DEF ConfigApproved, InForce, Undoing, ConfigInv, Taken, StartInv, WaitInv
<1> QED
  BY <1>1, <1>2, <1>3, PTL DEF Spec

-----------------------------------------------------------------------------
(***************************************************************************)
(* A configured host stays filtered.                                       *)
(***************************************************************************)
\* Where it can be promised: every file reads, the kernel takes what it is given,
\* a restore is given the slot, and panic mode has one console.
OpenObeyed ==
  /\ Benign /\ Faults \cap {"read", "refused", "slotwait", "panicread"} = {}
  /\ Events \cap {"clipanic", "cliresume"} = {}

Tearing == {"failtear", "landtear", "rewritetear", "errtear", "tear"}

\* The restore of a RESUME is still to come, after whoever holds the slot now.
Awaited == console = "state" \/ pc["resume"] \in {"enter", "slot"}

\* A start or a RESUME is going to write the table.
Refilling == console = "state" \/ pc["resume"] \in Restoring \/ pc["boot"] \in Restoring

\* There is nothing to enforce.
Unconfigured == NextStart = Empty /\ ~lastApply

\* Whoever found the panic marker and takes the table down only after a RESUME
\* has removed it is followed by that RESUME's restore.
TearInv ==
  /\ console \in {"cancel", "reset"} => panic
  /\ console \in {"state", "restore"} => ~panic
  /\ \A p \in Procs : pc[p] \in Tearing => panic \/ Awaited

\* A table that is missing outside panic mode is missing rightly, or is on its way.
OpenInv ==
  ~panic /\ table = NoTable =>
    /\ pc["apply"] \in Taken \cup {"confirm", "final"} => Awaited
    /\ pc["apply"] \in {"rewritten", "rewritefailed", "rewritetear"} => Awaited \/ Unconfigured
    /\ Unconfigured \/ daemon = "down" \/ Refilling \/ pc["apply"] \in {"reread", "kernel"}

\* The kernel never takes a table for none.
LEMMA KernelFills ==
  ASSUME "refused" \notin Faults, NEW rules \in Rules, NEW config \in Configs, Swapped(rules, config)
  PROVE  table' # NoTable
BY ConstantsAssumption DEF Swapped

\* Apply takes the table down only where a RESUME restores it, and ends with one
\* unless there was none to go back to.
LEMMA ApplyOpen ==
  ASSUME OpenObeyed, StructInv, StartInv, PrevInv, TearInv, OpenInv, ApplySteps PROVE TearInv' /\ OpenInv'
<1>a. "panicread" \notin Faults /\ "reread" \notin Faults /\ "unmark" \notin Faults /\ "revert" \notin Faults
  BY DEF OpenObeyed, Benign
<1>b. /\ UNCHANGED <<panic, console, daemon>> /\ \A r \in Restorers : pc'[r] = pc[r]
      /\ pc["boot"] = "idle" /\ daemon # "down"
  BY ApplyFrame, ApplyAlone, ApplyEffects, Zenon DEF ApplyEffect, StartInv
<1>c. (Awaited' <=> Awaited) /\ (Refilling' <=> Refilling) /\ (Awaited => Refilling)
  BY <1>b, Zenon DEF Awaited, Refilling, Restorers, Procs, Restoring
<1>d. /\ pc["apply"] \in {"check", "backup"} => marker = NoMarker
      /\ pc["apply"] \in Unwinding => marker = NoMarker /\ current = cycle.prev
      /\ pc["apply"] = "unmark" => current = backup
      /\ pc["apply"] \in {"mark", "promote"} => current = backup
  BY <1>b DEF StartInv, MarkerInv, RevertInv, Provisional, Trial, Undecided, PrevInv, Unwinding, cycle
<1>e. table' = NoTable => /\ table = NoTable \/ pc["apply"] \in Tearing \cup {"rewrite"}
                          /\ pc["apply"] # "kernel" /\ (pc["apply"] = "rewrite" => ~EverConfigured(cycle.prev))
  <2>1. /\ cycle.new \in Rules /\ cycle.prev \in Rules /\ Recorded(cycle.before) \in Configs
        /\ pc["apply"] = "kernel" => cycle.opts \in Configs
    BY DEF Recorded, cycle, Snapshots, StructInv, TypeOK, Locals, Procs, OptsInv, ApplyLabels
  <2>2. "refused" \notin Faults
    BY DEF OpenObeyed
  <2>3. /\ pc["apply"] = "kernel" => table' # NoTable
        /\ pc["apply"] = "rewrite" /\ EverConfigured(cycle.prev) => table' # NoTable
    BY <2>1, <2>2, KernelFills, ApplyEffects, Zenon DEF ApplyEffect, ApplyTable
  <2> QED
    BY <2>3, ApplyEffects, Zenon DEF ApplyEffect, ApplyTable, Tearing
<1>1. pc'["apply"] \in Tearing => panic
  BY <1>a, ApplyEffects DEF ApplyEffect, ApplyFlow, ApplyLooks, Tearing
<1>2. /\ pc["apply"] \in {"check", "backup", "mark", "unmark", "decide", "rewrite", "rewritten",
                          "rewritefailed", "rewritetear"} \/ (pc["apply"] = "promote" /\ pc'["apply"] = "idle") =>
           (Unconfigured => Unconfigured')
      /\ pc["apply"] = "rewrite" /\ ~EverConfigured(cycle.prev) => Unconfigured'
  BY <1>a, <1>d, ApplyEffects, Zenon
     DEF ApplyEffect, ApplyFlow, ApplyFiles, ApplyRecords, Unconfigured, NextStart, Unwinding, EverConfigured
<1>3. ASSUME ~panic, table' = NoTable
      PROVE  /\ pc'["apply"] \in Taken \cup {"confirm", "final"} => Awaited
             /\ pc'["apply"] \in {"rewritten", "rewritefailed", "rewritetear"} => Awaited \/ Unconfigured'
             /\ Unconfigured' \/ Refilling \/ pc'["apply"] \in {"reread", "kernel"}
  <2>1. CASE pc["apply"] \in Tearing
    <3>1. Awaited
      BY <1>3, <2>1 DEF TearInv, Procs
    <3> QED
      BY <1>c, <3>1
  <2>2. CASE pc["apply"] \notin Tearing
    BY <1>a, <1>b, <1>c, <1>e, <1>2, <1>3, <2>2, ApplyEffects, Zenon
       DEF ApplyEffect, ApplyFlow, ApplyLooks, Tearing, Taken, OpenInv
  <2> QED
    BY <2>1, <2>2
<1> QED
  BY <1>b, <1>c, <1>1, <1>3 DEF TearInv, OpenInv, Tearing, Restorers

\* A restore that is under way outside panic mode ends with a table, or finds
\* nothing to enforce.
LEMMA RestoreOpen ==
  ASSUME OpenObeyed, NEW r \in Restorers, StructInv, StartInv, TearInv, OpenInv, RestoreSteps(r)
  PROVE  TearInv' /\ OpenInv'
<1>a. /\ "panicread" \notin Faults /\ "revert" \notin Faults /\ "refused" \notin Faults
      /\ "read" \notin Faults /\ "slotwait" \notin Faults
  BY DEF OpenObeyed, Benign
<1>b. /\ UNCHANGED <<panic, lastApply, backup, daemon>> /\ (\A p \in Procs \ {r} : pc'[p] = pc[p])
      /\ r \in Procs /\ r # "apply"
      /\ pc[r] \notin {"enter", "slot"} => pc["apply"] = "idle"
  BY RestoreEffects, RestoreKeeps, RestoreAlone, Zenon DEF RestoreEffect, Restorers
<1>c. /\ r = "resume" => ~panic /\ console = "restore"
      /\ console' \in {"state", "restore", "cancel", "reset"} => console' = console
  <2>1. r = "resume" => console = "restore"
    BY RestoreFrame, Zenon DEF StructInv, LifeInv
  <2>2. console' \in {"state", "restore", "cancel", "reset"} => console' = console
    BY RestoreMoves, Zenon DEF RestoreSteps, RestoreEnter, RestoreSlot, RestoreRecheck, RestoreUndo, RestoreUndone, RestoreLoad,
       RestoreWrite, RestoreWriteFailed, RestoreWrote, RestoreTear, Return, memory
  <2> QED
    BY <2>1, <2>2 DEF TearInv
<1>d. pc[r] \in {"enter", "slot"} /\ ~panic => pc'[r] = "slot" \/ (~applying /\ pc'[r] = "recheck")
  <2>1. pc[r] = "slot" => RestoreSlot(r)
    BY Zenon DEF RestoreSteps, RestoreEnter, RestoreRecheck, RestoreUndo, RestoreUndone, RestoreLoad, RestoreWrite,
           RestoreWriteFailed, RestoreWrote, RestoreTear
  <2> QED
    BY <1>a, <2>1, RestoreEffects, Zenon DEF RestoreEffect, RestoreFlow, RestoreLooks, RestoreSlot, BeginApply
<1>e. pc'[r] \in Tearing => panic
  BY <1>a, RestoreEffects, Zenon DEF RestoreEffect, RestoreFlow, RestoreLooks, Tearing
<1>f. (\E p \in Procs \ {r} : Holds(p)) /\ Awaited => Awaited'
  <2> SUFFICES ASSUME \E p \in Procs \ {r} : Holds(p), Awaited PROVE Awaited'
    BY Zenon
  <2>1. applying
    BY Zenon DEF StructInv, SlotExclusion
  <2>2. CASE r = "resume"
    BY <1>b, <1>c, <1>d, <2>1, <2>2, Zenon DEF Awaited
  <2>3. CASE r # "resume"
    BY <1>b, <2>3, RestoreKeeps, Zenon DEF Awaited, Procs
  <2> QED
    BY <2>2, <2>3
<1>g. TearInv'
  <2>1. \A p \in Procs \ {r} : pc[p] \in Tearing => Holds(p)
    BY DEF Tearing, Holds
  <2> QED
    BY <1>b, <1>c, <1>e, <1>f, <2>1 DEF TearInv
<1>h. /\ Unconfigured => Unconfigured'
      /\ pc[r] = "load" /\ ~EverConfigured(current) => Unconfigured
  <2>1. pc[r] = "undone" => current = backup
    BY DEF StartInv, RevertInv
  <2> QED
    BY <1>b, <2>1, LoadUnmarked, RestoreEffects, Zenon
       DEF RestoreEffect, RestoreFlow, RestoreFiles, Unconfigured, NextStart, EverConfigured
<1>i. table' = NoTable => (table = NoTable \/ pc[r] \in Tearing) /\ pc[r] # "write"
  <2>1. pc[r] = "write" => loc[r].new \in Rules /\ loc[r].opts \in Configs
    BY <1>b DEF StructInv, TypeOK, Locals, OptsInv
  <2>2. pc[r] = "write" => table' # NoTable
    BY <1>a, <2>1, KernelFills, RestoreEffects, Zenon DEF RestoreEffect, RestoreTable
  <2> QED
    BY <2>2, RestoreEffects, Zenon DEF RestoreEffect, RestoreTable, Tearing
<1>j. ~panic /\ pc[r] \in Restoring /\ table' = NoTable => pc'[r] \in Restoring \/ Unconfigured'
  BY <1>a, <1>h, <1>i, RestoreEffects, Zenon DEF RestoreEffect, RestoreFlow, RestoreLooks, Restoring
<1>k. ASSUME ~panic, table' = NoTable
      PROVE  /\ pc["apply"] \in Taken \cup {"confirm", "final"} => Awaited'
             /\ pc["apply"] \in {"rewritten", "rewritefailed", "rewritetear"} => Awaited' \/ Unconfigured'
             /\ Unconfigured' \/ daemon = "down" \/ Refilling' \/ pc["apply"] \in {"reread", "kernel"}
  <2>1. Awaited' => Refilling'
    BY DEF Awaited, Refilling, Restoring
  <2>2. CASE pc[r] \in Tearing
    <3>1. Awaited /\ r # "resume" /\ pc["apply"] = "idle"
      BY <1>b, <1>c, <1>k, <2>2 DEF TearInv, Awaited, Tearing
    <3>2. Awaited'
      BY <1>b, <3>1, RestoreKeeps, Zenon DEF Awaited, Procs
    <3> QED
      BY <2>1, <3>1, <3>2, Zenon DEF Taken
  <2>3. CASE pc[r] \notin Tearing
    <3>1. table = NoTable
      BY <1>i, <1>k, <2>3, Zenon
    <3>2. pc["apply"] \in Taken \cup {"confirm", "final", "rewritten", "rewritefailed", "rewritetear"} =>
            (Awaited => Awaited')
      BY <1>b, <1>f DEF Taken, Holds, Procs
    <3>3. Refilling => Refilling' \/ Unconfigured'
      <4>1. CASE pc[r] \in Restoring
        BY <1>b, <1>c, <1>j, <1>k, <4>1, RestoreKeeps, Zenon DEF Refilling, Restorers, Procs
      <4>2. CASE pc[r] \notin Restoring
        BY <1>b, <4>2, RestoreKeeps, Zenon DEF Refilling, Procs
      <4> QED
        BY <4>1, <4>2
    <3> QED
      BY <1>h, <1>k, <3>1, <3>2, <3>3 DEF OpenInv
  <2> QED
    BY <2>2, <2>3
<1>l. pc'["apply"] = pc["apply"]
  BY <1>b, Zenon DEF Procs
<1> QED
  BY <1>b, <1>g, <1>k, <1>l DEF OpenInv

\* RESUME removes the marker and goes on to restore; PANIC takes the table down
\* only while the marker is there.
LEMMA BystanderOpen ==
  ASSUME OpenObeyed, StructInv, ActorsInv, TearInv, OpenInv, Bystanders \/ UNCHANGED vars
  PROVE  TearInv' /\ OpenInv'
<1>a. cli = "idle" /\ "clipanic" \notin Events /\ "cliresume" \notin Events
  BY DEF OpenObeyed, ActorsInv
<1>b. UNCHANGED <<current, backup, marker, lastApply, pc, loc>> /\ (daemon = "down" <=> daemon' = "down")
  BY BystanderEffects, Zenon DEF BystanderEffect
<1>c. /\ console' \in {"cancel", "reset"} => panic'
      /\ console' \in {"state", "restore"} => ~panic'
      /\ console = "state" => console' = "state"
      /\ panic /\ ~panic' => console' = "state"
      /\ ~panic' /\ table' = NoTable => table = NoTable
  BY <1>a, BystanderEffects DEF BystanderEffect, ConsoleEffect, CliEffect, TearInv
<1>d. /\ Awaited \/ (panic /\ ~panic') => Awaited'
      /\ Refilling \/ (panic /\ ~panic') => Refilling'
      /\ Unconfigured' <=> Unconfigured
  BY <1>b, <1>c, Zenon DEF Awaited, Refilling, Unconfigured, NextStart
<1>e. TearInv'
  BY <1>b, <1>c, <1>d DEF TearInv
<1> QED
  BY <1>b, <1>c, <1>d, <1>e, Zenon DEF OpenInv

\* A process that starts begins with a restore.
LEMMA OthersOpen ==
  ASSUME StructInv, TearInv, OpenInv, Starts \/ ExitDaemon \/ Kill \/ PowerCut
  PROVE  TearInv' /\ OpenInv'
<1>1. CASE Starts
  <2>1. /\ UNCHANGED <<current, backup, marker, panic, table>>
        /\ pc'["apply"] = pc["apply"] \/ (pc["apply"] = "idle" /\ pc'["apply"] = "check")
        /\ \A r \in Restorers : \/ pc'[r] = pc[r]
                                \/ pc[r] \in {"idle", "armed"} /\ pc'[r] \in {"idle", "armed", "enter"}
        /\ \/ console' = console
           \/ console = "state" /\ console' = "restore" /\ pc'["resume"] = "enter"
        /\ \/ lastApply' = lastApply /\ daemon # "down"
           \/ daemon = "down" /\ pc'["boot"] = "enter"
    BY <1>1, StartsFrame, Zenon
  <2>2. (Awaited => Awaited') /\ (Refilling => Refilling') /\ (pc'["boot"] = "enter" => Refilling')
    BY <2>1, Zenon DEF Awaited, Refilling, Restoring, Restorers, Procs
  <2>3. TearInv'
    <3>1. \A p \in Procs : pc'[p] \in Tearing => pc[p] \in Tearing
      BY <2>1, Zenon DEF Tearing, Restorers
    <3> QED
      BY <2>1, <2>2, <3>1 DEF TearInv
  <2>4. CASE daemon = "down"
    BY <2>1, <2>2, <2>3, <2>4, Zenon DEF OpenInv, Taken, StructInv, LifeInv, Procs
  <2>5. CASE daemon # "down"
    <3>1. Unconfigured' <=> Unconfigured
      BY <2>1, <2>5 DEF Unconfigured, NextStart
    <3> QED
      BY <2>1, <2>2, <2>3, <2>5, <3>1, Zenon DEF OpenInv, Taken
  <2> QED
    BY <2>4, <2>5, Zenon
<1>2. CASE ExitDaemon \/ Kill \/ PowerCut
  BY <1>2, EndsFrame DEF TearInv, OpenInv, Tearing, Taken, Procs
<1> QED
  BY <1>1, <1>2

\* StaysFiltered: a core that serves a configured host, is not in panic mode and
\* has nobody at work has its table in the kernel, however applies, restores,
\* PANIC, RESUME, stops, kills and starts overlap (RestoreCurrent, Resume).
THEOREM StaysFiltered == ASSUME OpenObeyed PROVE Spec => []NeverLeftOpen
<1> DEFINE Inv == StructInv /\ StartInv /\ PrevInv /\ ActorsInv /\ TearInv /\ OpenInv
<1>0. Benign
  BY Zenon DEF OpenObeyed
<1>1. Init => Inv
  <2> SUFFICES ASSUME Init PROVE Inv
    OBVIOUS
  <2>1. StructInv /\ StartInv
    BY InitStruct, InitStart, Zenon
  <2>2. /\ \A p \in Procs : pc[p] = "idle"
        /\ console = "idle" /\ cli = "idle" /\ daemon = "down"
    BY Zenon DEF Init
  <2> QED
    BY <2>1, <2>2, Zenon DEF PrevInv, Provisional, Trial, Unwinding, ActorsInv, TearInv, OpenInv, Tearing, Taken, Procs
<1>2. Inv /\ [Next]_vars => Inv'
  <2> SUFFICES ASSUME Inv, [Next]_vars PROVE Inv'
    BY Zenon
  <2>1. StructInv' /\ StartInv' /\ PrevInv' /\ ActorsInv'
    BY <1>0, NextStruct, NextStarts, NextPrev, NextActors, Zenon
  <2>2. TearInv' /\ OpenInv'
    BY StepKinds, ApplyOpen, RestoreOpen, BystanderOpen, OthersOpen, Zenon
  <2> QED
    BY <2>1, <2>2
<1>3. Inv => NeverLeftOpen
  <2> SUFFICES ASSUME Inv, Enforcing, NextStart # Empty \/ lastApply, table = NoTable PROVE FALSE
    BY Zenon DEF NeverLeftOpen
  <2>1. /\ \A p \in Procs : pc[p] \in {"idle", "armed"}
        /\ ~panic /\ daemon # "down" /\ console # "state"
    BY DEF Enforcing, Quiet, Serving
  <2> QED
    BY <2>1 DEF OpenInv, Unconfigured, Refilling, Restoring, Procs
<1> QED
  BY <1>1, <1>2, <1>3, PTL DEF Spec
=============================================================================
