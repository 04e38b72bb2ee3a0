---------------------------- MODULE KernelProofs ----------------------------
(***************************************************************************)
(* The promises of the apply cycle, proved for every set of rules and      *)
(* configurations.  First the files: whenever the process dies, the next   *)
(* start puts back a rule set an operator approved.  Then table inet       *)
(* easywall: it is empty under panic mode, a first apply that is not       *)
(* confirmed leaves nothing, and a later one leaves what was there before. *)
(*                                                                         *)
(* The second part begins by saying what a step of apply, of               *)
(* RestoreCurrent, of a request or of the console does to each variable;   *)
(* the invariants after it, and those of TrustProofs, are proved from that.*)
(***************************************************************************)
EXTENDS FirewallProofs

PanicPossible == Events \cap {"panic", "clipanic"} # {} \/ "panicread" \in Faults
CrashPossible == Events \cap {"kill", "powercut"} # {}

\* Where the promise holds.  Every fault is allowed but a rules file or a marker
\* that cannot be put back after the promote, and every event but a crash
\* together with panic mode: the run v_resume_race shows what those two do to
\* the promise, and on a fresh installation one marker that stays breaks it.
Benign ==
  /\ Faults \cap {"reread", "revert", "unmark"} = {}
  /\ ~(PanicPossible /\ CrashPossible)

\* The rule set may be put in force by a start.
Approved(rules) == (rules # Empty \/ lastFile) => rules \in okRules

\* Between the marker and its removal; of that, where an outcome is still open.
Trial == {"reread", "kernel", "failed", "failtear", "written", "landtear", "wait", "revert"}
Provisional == Trial \cup {"promote", "confirm", "unmark"}
Undecided == {"enter", "slot", "recheck", "undo", "undone"}

\* The boot restore runs alone.
BootInv ==
  pc["boot"] # "idle" =>
    /\ daemon # "up" /\ ~request /\ console = "idle"
    /\ pc["apply"] = "idle" /\ pc["resume"] = "idle" /\ pc["bridge"] = "idle"

\* The marker is there only for an apply with a window, or after a crash until
\* the restore at boot has undone that apply.
MarkerInv ==
  marker # NoMarker =>
    \/ pc["apply"] \in Provisional /\ cycle.on
    \/ CrashPossible /\ (daemon = "down" \/ pc["boot"] \in Undecided)

\* What apply relies on while it is under way.
BackupInv ==
  /\ pc["apply"] \in Provisional \cup {"mark"} => Approved(backup)
  /\ pc["apply"] = "promote" => Approved(current)
  /\ pc["apply"] \in Trial \cup {"promote"} /\ cycle.on => marker # NoMarker

ConfirmInv ==
  /\ pc["apply"] \in Trial /\ ~cycle.on => current \in okRules
  /\ pc["apply"] \in {"confirm", "final"} => current \in okRules
  /\ Pending /\ acc.accepted => current \in okRules

WaitInv ==
  /\ pc["apply"] = "wait" => cycle.on
  /\ pc["apply"] \in {"kernel", "written", "wait"} /\ cycle.on => Pending

RevertInv ==
  /\ pc["apply"] = "unmark" => current = backup
  /\ \A r \in Restorers : pc[r] = "undone" => current = backup

\* Without the console nothing engages panic mode.
PanicInv == PanicPossible \/ (~panic /\ console = "idle")

StartInv ==
  /\ BootInv /\ MarkerInv /\ BackupInv /\ ConfirmInv /\ WaitInv /\ RevertInv /\ PanicInv
  /\ NextStartApproved

\* A host that is freshly installed, running or upgraded satisfies StartInv.
LEMMA InitStart == Init => StartInv
<1> SUFFICES ASSUME Init PROVE StartInv
  OBVIOUS
<1>1. \A p \in Procs : pc[p] = "idle"
  BY DEF Init
<1> QED
  BY <1>1 DEF Init, Fresh, Running, Upgraded, AccInit, Pending, Procs, Restorers, StartInv,
     BootInv,
              MarkerInv, BackupInv, ConfirmInv, WaitInv, RevertInv, PanicInv, Provisional,
              Trial,
              NextStartApproved, NextStart

\* acceptanceOn is read once.
LEMMA OnKept ==
  ASSUME StructInv, ApplySteps
  PROVE \/ pc'["apply"] = "idle"
        \/ pc["apply"] # "mark" /\ loc'["apply"].on = loc["apply"].on
        \/ pc["apply"] = "mark" /\ loc'["apply"].on = window
<1> USE DEF StructInv, TypeOK, Procs, Locals, Goto, Leave, EndApply
<1>1. CASE ApplyCheck
  <2>1. CASE EndApply("apply")
    BY <2>1
  <2>2. CASE loc' = [loc EXCEPT !["apply"].prev = current]
    BY <1>1, <2>2 DEF ApplyCheck
  <2> QED
    BY <1>1, <2>1, <2>2, Zenon DEF ApplyCheck
<1>2. CASE ApplyBackup
  BY <1>2, Zenon DEF ApplyBackup, BackupCurrent
<1>3. CASE ApplyMark
  BY <1>3 DEF ApplyMark, MarkUnconfirmed
<1>4. CASE ApplyPromote
  BY <1>4 DEF ApplyPromote, PromoteStaged
<1>5. CASE ApplyReread
  BY <1>5 DEF ApplyReread
<1>6. CASE ApplyKernel
  BY <1>6 DEF ApplyKernel
<1>7. CASE ApplyFailed
  BY <1>7 DEF ApplyFailed
<1>8. CASE ApplyFailTear
  BY <1>8, Zenon DEF ApplyFailTear, TearDown
<1>9. CASE ApplyWritten
  BY <1>9, Zenon DEF ApplyWritten
<1>10. CASE ApplyLandTear
  BY <1>10 DEF ApplyLandTear, TearDown
<1>11. CASE ApplyWait
  BY <1>11, Zenon DEF ApplyWait
<1>12. CASE ApplyConfirm
  BY <1>12 DEF ApplyConfirm
<1>13. CASE ApplyFinal
  BY <1>13 DEF ApplyFinal, SetLastApply
<1>14. CASE ApplyRevert
  BY <1>14, Zenon DEF ApplyRevert, RollbackRules
<1>15. CASE ApplyUnmark
  BY <1>15, Zenon DEF ApplyUnmark
<1>16. CASE ApplyDecide
  BY <1>16 DEF ApplyDecide
<1>17. CASE ApplyRewrite
  BY <1>17, Zenon DEF ApplyRewrite
<1>18. CASE ApplyRewritten
  BY <1>18, Zenon DEF ApplyRewritten
<1>19. CASE ApplyRewriteTear
  BY <1>19, Zenon DEF ApplyRewriteTear, TearDown
<1> QED
  BY Zenon, <1>1, <1>2, <1>3, <1>4, <1>5, <1>6, <1>7, <1>8, <1>9, <1>10, <1>11, <1>12, <1>13, <1>14,
     <1>15, <1>16, <1>17, <1>18, <1>19 DEF ApplySteps

\* What the other goroutines are while apply runs.
LEMMA ApplyAlone ==
  ASSUME StructInv, BootInv, ApplySteps
  PROVE /\ pc["boot"] = "idle" /\ daemon # "down"
        /\ \A r \in Restorers : pc'[r] = pc[r] /\ pc'[r] # "undone"
        /\ pc'["apply"] \in ApplyLabels \cup {"idle"}
        /\ daemon' = daemon
<1>1. ApplyMove
  BY ApplyMoves
<1> QED
  BY <1>1 DEF ApplyMove, ApplyLabels, BootInv, StructInv, TypeOK, LifeInv, SlotExclusion,
     Holds, Goto,
              Procs, Restorers

\* Backup, marker, promotion, confirmation and rollback, in the order apply makes
\* them, keep StartInv.
LEMMA ApplyStart == ASSUME Benign, StructInv, StartInv, ApplySteps PROVE StartInv'
<1>a. /\ pc["boot"] = "idle" /\ daemon # "down"
      /\ \A r \in Restorers : pc'[r] = pc[r] /\ pc'[r] # "undone"
      /\ pc'["apply"] \in ApplyLabels \cup {"idle"}
      /\ daemon' = daemon
  BY ApplyAlone, Zenon DEF StartInv
<1>b. \/ pc'["apply"] = "idle"
      \/ pc["apply"] # "mark" /\ loc'["apply"].on = loc["apply"].on
      \/ pc["apply"] = "mark" /\ loc'["apply"].on = window
  BY OnKept
<1>c. marker # NoMarker => pc["apply"] \in Provisional /\ loc["apply"].on
  BY <1>a DEF StartInv, MarkerInv, Undecided, cycle
<1>d. "reread" \notin Faults /\ "revert" \notin Faults /\ "unmark" \notin Faults
  BY DEF Benign
<1>e. BootInv' /\ PanicInv'
  <2>1. panic' = panic /\ console' = console /\ pc'["boot"] = "idle"
    BY <1>a, Zenon DEF ApplySteps, memory, disk, Restorers, Procs, ApplyCheck, ApplyBackup,
       ApplyMark, ApplyPromote, ApplyReread, ApplyKernel, ApplyFailed, ApplyFailTear,
       ApplyWritten, ApplyLandTear, ApplyWait, ApplyConfirm, ApplyFinal, ApplyRevert,
       ApplyUnmark, ApplyDecide, ApplyRewrite, ApplyRewritten, ApplyRewriteTear
  <2> QED
    BY <2>1 DEF StartInv, BootInv, PanicInv
<1>f. pc["apply"] \in {"kernel", "failed", "written", "landtear", "wait"} \/ ~Pending
  BY DEF StructInv, WindowInv
<1>g. MarkerInv' /\ BackupInv' /\ NextStartApproved'
  <2>0. /\ pc \in [Procs -> Labels] /\ loc \in [Procs -> Locals]
        /\ applied # NoMarker /\ "apply" \in Procs
    BY ConstantsAssumption DEF StructInv, TypeOK, Snapshots, Procs
  <2>a. MarkerInv /\ BackupInv /\ RevertInv /\ ConfirmInv /\ NextStartApproved
    BY DEF StartInv
  <2> USE <1>a, <1>b, <1>c, <1>d, <2>0, <2>a
      DEF MarkerInv, BackupInv, RevertInv, ConfirmInv, NextStartApproved, NextStart, Approved,
          Provisional, Trial, cycle, disk, memory, ghost, Goto, Leave, EndApply, ClearUnconfirmed
  <2>1. CASE ApplyCheck
    BY <2>1, Zenon DEF ApplyCheck
  <2>2. CASE ApplyBackup
    BY <2>2 DEF ApplyBackup, BackupCurrent
  <2>3. CASE ApplyMark
    <3>1. \A before \in SnapshotReads(applied) : before # NoMarker
      BY ConstantsAssumption DEF SnapshotReads
    <3>2. /\ UNCHANGED <<current, backup, lastFile, okRules>> /\ pc["apply"] = "mark" /\ marker = NoMarker
      BY <2>3, Zenon DEF ApplyMark
    <3>3. \/ pc'["apply"] = "idle" /\ marker' = NoMarker
          \/ pc'["apply"] = "promote" /\ window /\ marker' # NoMarker
          \/ pc'["apply"] = "promote" /\ ~window /\ marker' = NoMarker
      <4>1. \/ EndApply("apply") /\ marker' = marker
            \/ /\ Goto("apply", "promote")
               /\ \E before \in SnapshotReads(applied) : IF window THEN marker' = before ELSE marker' = marker
        BY <2>3, Zenon DEF ApplyMark, MarkUnconfirmed
      <4> QED
        BY <3>1, <3>2, <4>1
    <3>4. pc'["apply"] = "promote" => loc'["apply"].on = window
      BY <3>2, Zenon
    <3>5. MarkerInv'
      BY <3>2, <3>3, <3>4, Zenon
    <3>6. BackupInv'
      BY <3>2, <3>3, <3>4, Zenon
    <3>7. NextStartApproved'
      BY <3>2, <3>3, Zenon
    <3> QED
      BY <3>5, <3>6, <3>7, Zenon
  <2>4. CASE ApplyPromote
    BY <2>4, Zenon DEF ApplyPromote, PromoteStaged
  <2>5. CASE ApplyReread
    BY <2>5, Zenon DEF ApplyReread
  <2>6. CASE ApplyKernel
    BY <2>6, Zenon DEF ApplyKernel
  <2>7. CASE ApplyFailed
    BY <2>7, Zenon DEF ApplyFailed
  <2>8. CASE ApplyFailTear
    BY <2>8, Zenon DEF ApplyFailTear, TearDown
  <2>9. CASE ApplyWritten
    BY <2>9 DEF ApplyWritten
  <2>10. CASE ApplyLandTear
    BY <2>10, Zenon DEF ApplyLandTear, TearDown
  <2>11. CASE ApplyWait
    BY <2>11, Zenon DEF ApplyWait
  <2>12. CASE ApplyConfirm
    BY <2>12, Zenon DEF ApplyConfirm
  <2>13. CASE ApplyFinal
    BY <2>13, Zenon DEF ApplyFinal, SetLastApply
  <2>14. CASE ApplyRevert
    BY <2>14 DEF ApplyRevert, RollbackRules
  <2>15. CASE ApplyUnmark
    BY <2>15, Zenon DEF ApplyUnmark
  <2>16. CASE ApplyDecide
    BY <2>16 DEF ApplyDecide
  <2>17. CASE ApplyRewrite
    BY <2>17 DEF ApplyRewrite
  <2>18. CASE ApplyRewritten
    BY <2>18 DEF ApplyRewritten
  <2>19. CASE ApplyRewriteTear
    BY <2>19, Zenon DEF ApplyRewriteTear, TearDown
  <2> QED
    BY Zenon, <2>1, <2>2, <2>3, <2>4, <2>5, <2>6, <2>7, <2>8, <2>9, <2>10, <2>11, <2>12, <2>13,
       <2>14, <2>15, <2>16, <2>17, <2>18, <2>19 DEF ApplySteps
<1>h. ConfirmInv' /\ WaitInv'
  <2>0. /\ pc \in [Procs -> Labels] /\ loc \in [Procs -> Locals] /\ "apply" \in Procs
        /\ acc \in AcceptanceType /\ ConfirmInv /\ WaitInv
    BY DEF StructInv, TypeOK, Procs, StartInv
  <2> USE <1>a, <1>b, <1>d, <1>f, <2>0
      DEF ConfirmInv, WaitInv, Pending, Trial, cycle, disk, memory, ghost, AcceptanceType,
          Goto, Leave, EndApply, WindowStart, WindowReset, WindowConclude
  <2>1. CASE ApplyCheck
    BY <2>1, Zenon DEF ApplyCheck
  <2>2. CASE ApplyBackup
    BY <2>2, Zenon DEF ApplyBackup, BackupCurrent
  <2>3. CASE ApplyMark
    BY <2>3 DEF ApplyMark, MarkUnconfirmed
  <2>4. CASE ApplyPromote
    BY <2>4, Zenon DEF ApplyPromote, PromoteStaged
  <2>5. CASE ApplyReread
    <3>1. CASE pc'["apply"] = "idle" /\ UNCHANGED acc
      BY <2>5, <3>1, Zenon DEF ApplyReread
    <3>2. CASE pc'["apply"] = "kernel"
      <4>1. ConfirmInv'
        BY <2>5, <3>2, Zenon DEF ApplyReread
      <4>2. WaitInv'
        BY <2>5, <3>2, Zenon DEF ApplyReread
      <4> QED
        BY <4>1, <4>2, Zenon
    <3> QED
      BY <2>5, <3>1, <3>2, Zenon DEF ApplyReread
  <2>6. CASE ApplyKernel
    BY <2>6, Zenon DEF ApplyKernel
  <2>7. CASE ApplyFailed
    BY <2>7, Zenon DEF ApplyFailed
  <2>8. CASE ApplyFailTear
    BY <2>8, Zenon DEF ApplyFailTear, TearDown
  <2>9. CASE ApplyWritten
    BY <2>9, Zenon DEF ApplyWritten
  <2>10. CASE ApplyLandTear
    BY <2>10, Zenon DEF ApplyLandTear, TearDown
  <2>11. CASE ApplyWait
    BY <2>11, Zenon DEF ApplyWait
  <2>12. CASE ApplyConfirm
    BY <2>12, Zenon DEF ApplyConfirm
  <2>13. CASE ApplyFinal
    BY <2>13, Zenon DEF ApplyFinal, SetLastApply
  <2>14. CASE ApplyRevert
    BY <2>14, Zenon DEF ApplyRevert, RollbackRules
  <2>15. CASE ApplyUnmark
    BY <2>15, Zenon DEF ApplyUnmark
  <2>16. CASE ApplyDecide
    BY <2>16 DEF ApplyDecide
  <2>17. CASE ApplyRewrite
    BY <2>17 DEF ApplyRewrite
  <2>18. CASE ApplyRewritten
    BY <2>18 DEF ApplyRewritten
  <2>19. CASE ApplyRewriteTear
    BY <2>19 DEF ApplyRewriteTear, TearDown
  <2> QED
    BY Zenon, <2>1, <2>2, <2>3, <2>4, <2>5, <2>6, <2>7, <2>8, <2>9, <2>10, <2>11, <2>12, <2>13,
       <2>14, <2>15, <2>16, <2>17, <2>18, <2>19 DEF ApplySteps
<1>i. RevertInv'
  <2> USE <1>a, <1>d DEF StartInv, RevertInv, disk, Procs, Restorers, StructInv, TypeOK, Goto,
          Leave, EndApply
  <2>1. CASE ApplyCheck
    BY <2>1, Zenon DEF ApplyCheck
  <2>2. CASE ApplyBackup
    BY <2>2, Zenon DEF ApplyBackup, BackupCurrent
  <2>3. CASE ApplyMark
    BY <2>3, Zenon DEF ApplyMark, MarkUnconfirmed
  <2>4. CASE ApplyPromote
    BY <2>4 DEF ApplyPromote, PromoteStaged
  <2>5. CASE ApplyReread
    BY <2>5, Zenon DEF ApplyReread
  <2>6. CASE ApplyKernel
    BY <2>6, Zenon DEF ApplyKernel
  <2>7. CASE ApplyFailed
    BY <2>7, Zenon DEF ApplyFailed
  <2>8. CASE ApplyFailTear
    BY <2>8, Zenon DEF ApplyFailTear, TearDown
  <2>9. CASE ApplyWritten
    BY <2>9, Zenon DEF ApplyWritten
  <2>10. CASE ApplyLandTear
    BY <2>10, Zenon DEF ApplyLandTear, TearDown
  <2>11. CASE ApplyWait
    BY <2>11, Zenon DEF ApplyWait
  <2>12. CASE ApplyConfirm
    BY <2>12, Zenon DEF ApplyConfirm
  <2>13. CASE ApplyFinal
    BY <2>13, Zenon DEF ApplyFinal, SetLastApply
  <2>14. CASE ApplyRevert
    BY <2>14, Zenon DEF ApplyRevert, RollbackRules
  <2>15. CASE ApplyUnmark
    BY <2>15, Zenon DEF ApplyUnmark
  <2>16. CASE ApplyDecide
    BY <2>16, Zenon DEF ApplyDecide
  <2>17. CASE ApplyRewrite
    BY <2>17, Zenon DEF ApplyRewrite
  <2>18. CASE ApplyRewritten
    BY <2>18, Zenon DEF ApplyRewritten
  <2>19. CASE ApplyRewriteTear
    BY <2>19, Zenon DEF ApplyRewriteTear, TearDown
  <2> QED
    BY Zenon, <2>1, <2>2, <2>3, <2>4, <2>5, <2>6, <2>7, <2>8, <2>9, <2>10, <2>11, <2>12, <2>13,
       <2>14, <2>15, <2>16, <2>17, <2>18, <2>19 DEF ApplySteps
<1> QED
  BY <1>e, <1>g, <1>h, <1>i DEF StartInv

\* What a restore leaves alone, and where apply is meanwhile.
LEMMA RestoreFrame ==
  ASSUME NEW r \in Restorers, StructInv, RestoreSteps(r)
  PROVE /\ pc'["apply"] = pc["apply"] /\ loc'["apply"] = loc["apply"]
        /\ \A p \in Procs \ {r} : pc'[p] = pc[p]
        /\ pc[r] # "idle" /\ pc[r] # "armed"
        /\ pc[r] \in Inside => /\ \A p \in Procs \ {r} : ~Holds(p)
                               /\ pc["apply"] = "idle" /\ ~Pending
        /\ daemon' = daemon /\ request' = request
<1>1. RestoreMove(r) /\ RestoreLocal(r)
  BY RestoreMoves, RestoreLocals
<1>2. r \in Procs /\ r # "apply"
  BY Zenon DEF Procs, Restorers
<1>3. \A p \in Procs \ {r} : pc'[p] = pc[p]
  BY <1>1, <1>2, Zenon DEF RestoreMove, Goto, StructInv, TypeOK
<1>4. loc'["apply"] = loc["apply"]
  BY <1>1, <1>2, Zenon DEF RestoreLocal, Leave, StructInv, TypeOK, Procs
<1>5. pc[r] # "idle" /\ pc[r] # "armed" /\ daemon' = daemon /\ request' = request
  BY <1>1, Zenon DEF RestoreMove, Inside, RestoreLabels
<1>6. ASSUME pc[r] \in Inside
      PROVE (\A p \in Procs \ {r} : ~Holds(p)) /\ pc["apply"] = "idle" /\ ~Pending
  <2>1. \A p \in Procs \ {r} : ~Holds(p)
    BY <1>2, <1>6, Zenon DEF StructInv, SlotExclusion, Holds, Inside, RestoreLabels
  <2>2. pc["apply"] = "idle"
    BY <1>2, <2>1 DEF Holds, StructInv, LabelInv, ApplyLabels, Procs
  <2> QED
    BY <2>1, <2>2 DEF StructInv, WindowInv
<1> QED
  BY <1>2, <1>3, <1>4, <1>5, <1>6 DEF Procs

\* A restore keeps StartInv: it reverts an unconfirmed set before it trusts Current.
LEMMA RestoreStart ==
  ASSUME Benign, NEW r \in Restorers, StructInv, StartInv, RestoreSteps(r) PROVE StartInv'
<1>a. /\ pc'["apply"] = pc["apply"] /\ loc'["apply"] = loc["apply"]
      /\ \A p \in Procs \ {r} : pc'[p] = pc[p]
      /\ pc[r] # "idle" /\ pc[r] # "armed"
      /\ pc[r] \in Inside => /\ \A p \in Procs \ {r} : ~Holds(p)
                             /\ pc["apply"] = "idle" /\ ~Pending
      /\ daemon' = daemon /\ request' = request
  BY RestoreFrame
<1>b. "revert" \notin Faults /\ "unmark" \notin Faults
  BY DEF Benign
<1>c. BootInv'
  <2>1. CASE r = "boot"
    <3>1. RestoreMove(r)
      BY RestoreMoves
    <3> QED
      BY <1>a, <2>1, <3>1 DEF RestoreMove, StartInv, BootInv, Procs, Restorers
  <2>2. CASE r # "boot"
    <3>1. pc["boot"] = "idle"
      BY <1>a, <2>2, Zenon DEF StartInv, BootInv, Procs, Restorers
    <3> QED
      BY <1>a, <2>2, <3>1, Zenon DEF BootInv, Procs
  <2> QED
    BY <2>1, <2>2
<1>d. PanicInv' /\ lastFile' = lastFile /\ okRules' = okRules /\ backup' = backup
  <2>1. UNCHANGED <<panic, lastFile, okRules, backup>>
    BY Zenon DEF RestoreSteps, disk, ghost, RestoreEnter, RestoreSlot, RestoreRecheck, RestoreUndo,
           RestoreUndone, RestoreLoad, RestoreWrite, RestoreWriteFailed, RestoreWrote,
           RestoreTear
  <2>2. console' = console \/ pc["resume"] # "idle"
    BY <1>a, RestoreMoves, Zenon DEF RestoreMove
  <2> QED
    BY <2>1, <2>2 DEF StartInv, PanicInv, StructInv, LifeInv
<1>e. \/ UNCHANGED <<current, marker, acc>> /\ pc'[r] # "undone"
      \/ /\ pc[r] = "undo" /\ marker # NoMarker /\ Goto(r, "undone")
         /\ current' = backup /\ UNCHANGED <<marker, acc>>
      \/ /\ pc[r] = "undone" /\ marker' = NoMarker /\ Goto(r, "load")
         /\ UNCHANGED current /\ WindowRecordRolledBack("stopped")
  <2> USE <1>b DEF StructInv, TypeOK, Procs, Restorers, disk, Goto, Leave, EndApply,
          ClearUnconfirmed
  <2>1. CASE RestoreEnter(r)
    BY <2>1, Zenon DEF RestoreEnter
  <2>2. CASE RestoreSlot(r)
    BY <2>2, Zenon DEF RestoreSlot, BeginApply
  <2>3. CASE RestoreRecheck(r)
    BY <2>3, Zenon DEF RestoreRecheck
  <2>4. CASE RestoreUndo(r)
    BY <2>4, Zenon DEF RestoreUndo, RollbackRules
  <2>5. CASE RestoreUndone(r)
    BY <2>5 DEF RestoreUndone
  <2>6. CASE RestoreLoad(r)
    BY <2>6, Zenon DEF RestoreLoad
  <2>7. CASE RestoreWrite(r)
    BY <2>7, Zenon DEF RestoreWrite
  <2>8. CASE RestoreWriteFailed(r)
    BY <2>8, Zenon DEF RestoreWriteFailed
  <2>9. CASE RestoreWrote(r)
    BY <2>9, Zenon DEF RestoreWrote
  <2>10. CASE RestoreTear(r)
    BY <2>10 DEF RestoreTear, TearDown
  <2> QED
    BY <2>1, <2>2, <2>3, <2>4, <2>5, <2>6, <2>7, <2>8, <2>9, <2>10, Zenon DEF RestoreSteps
<1>f. ~Pending' \/ UNCHANGED <<acc, current, marker>>
  BY <1>a, <1>e, Zenon DEF Inside, RestoreLabels, WindowRecordRolledBack, Pending, StructInv, TypeOK,
     AcceptanceType
<1>g. NextStartApproved'
  BY <1>d, <1>e, Zenon DEF StartInv, NextStartApproved, NextStart, RevertInv
<1>h. RevertInv'
  BY <1>a, <1>d, <1>e, Zenon DEF StartInv, RevertInv, Inside, RestoreLabels, Restorers, Procs, Holds,
                          StructInv, TypeOK, Goto
<1>i. BackupInv' /\ ConfirmInv' /\ WaitInv'
  <2>1. CASE pc["apply"] = "idle"
    BY <1>a, <1>d, <1>f, <2>1, Zenon DEF StartInv, BackupInv, ConfirmInv, WaitInv, Provisional,
       Trial, Pending
  <2>2. CASE pc["apply"] # "idle"
    <3>1. UNCHANGED <<current, marker, acc>>
      BY <1>a, <1>e, <2>2, Zenon DEF Inside, RestoreLabels
    <3> QED
      BY <1>a, <1>d, <3>1, Zenon DEF StartInv, BackupInv, ConfirmInv, WaitInv, Approved, cycle, Pending
  <2> QED
    BY <2>1, <2>2
<1>j. MarkerInv'
  <2>1. SUFFICES ASSUME marker' # NoMarker, ~(pc["apply"] \in Provisional /\ cycle.on)
                 PROVE CrashPossible /\ (daemon = "down" \/ pc'["boot"] \in Undecided)
    BY <1>a, Zenon DEF MarkerInv, cycle
  <2>2. marker # NoMarker
    BY <1>e, <2>1
  <2>3. CrashPossible /\ pc["boot"] \in Undecided
    BY <1>a, <2>1, <2>2, Zenon DEF StartInv, MarkerInv, StructInv, LifeInv, Procs, Restorers
  <2>4. r = "boot"
    BY <1>a, <2>3, Zenon DEF StartInv, BootInv, Undecided, Restorers, Procs
  <2>5. ~panic /\ "panicread" \notin Faults
    BY <2>3, Zenon DEF Benign, StartInv, PanicInv, PanicPossible
  <2>6. ~applying \/ Holds("boot")
    BY <2>3 DEF StartInv, BootInv, Undecided, StructInv, SlotExclusion, Holds, Procs
  <2>7. pc'["boot"] \in Undecided
    <3> USE <2>1, <2>2, <2>3, <2>4, <2>5, <2>6, <1>b
        DEF Undecided, PanicEngaged, Holds, Procs, StructInv, TypeOK, Goto, ClearUnconfirmed
    <3>1. CASE RestoreEnter(r)
      BY <3>1 DEF RestoreEnter
    <3>2. CASE RestoreSlot(r)
      BY <3>2, Zenon DEF RestoreSlot, BeginApply
    <3>3. CASE RestoreRecheck(r)
      BY <3>3 DEF RestoreRecheck
    <3>4. CASE RestoreUndo(r)
      BY <3>4, Zenon DEF RestoreUndo, RollbackRules
    <3>5. CASE RestoreUndone(r)
      BY <3>5, Zenon DEF RestoreUndone
    <3>6. CASE RestoreLoad(r)
      BY <3>6, Zenon DEF RestoreLoad
    <3>7. CASE RestoreWrite(r)
      BY <3>7 DEF RestoreWrite
    <3>8. CASE RestoreWriteFailed(r)
      BY <3>8, Zenon DEF RestoreWriteFailed
    <3>9. CASE RestoreWrote(r)
      BY <3>9, Zenon DEF RestoreWrote
    <3>10. CASE RestoreTear(r)
      BY <3>10 DEF RestoreTear, TearDown
    <3> QED
      BY <3>1, <3>2, <3>3, <3>4, <3>5, <3>6, <3>7, <3>8, <3>9, <3>10, Zenon DEF RestoreSteps
  <2> QED
    BY <2>3, <2>7
<1> QED
  BY <1>c, <1>d, <1>g, <1>h, <1>i, <1>j, Zenon DEF StartInv

\* What the other actors do to the disk keeps StartInv.
LEMMA BystanderStart == ASSUME StructInv, StartInv, Bystanders PROVE StartInv'
<1>a. UNCHANGED <<current, backup, marker, lastFile, pc, loc>>
  BY Zenon DEF Bystanders, Requests, disk, SaveRules, SaveOptions, SaveSystem, ReceiveApply, Accept,
     CancelAcceptance, Expire, ConsoleCommand, PanicMark, PanicCancel, PanicReset,
     ResumeClear, ResumeReply, CliPanic, CliTear, CliResume, StopDaemon, ShutdownLatch,
     ShutdownCancel
<1>b. /\ acc'.status = acc.status
      /\ \/ okRules' = okRules /\ acc'.accepted = acc.accepted
         \/ okRules' = okRules \cup {current}
  <2> USE DEF StructInv, TypeOK, AcceptanceType, ghost,
              WindowAccept, WindowCancel, WindowCancelIfOpen, WindowExpire, WindowLatchStopping
  <2>1. CASE SaveRules
    BY <2>1, Zenon DEF SaveRules
  <2>2. CASE SaveOptions
    BY <2>2, Zenon DEF SaveOptions
  <2>3. CASE SaveSystem
    BY <2>3, Zenon DEF SaveSystem
  <2>4. CASE ReceiveApply
    BY <2>4 DEF ReceiveApply
  <2>5. CASE Accept
    BY <2>5 DEF Accept
  <2>6. CASE CancelAcceptance
    BY <2>6 DEF CancelAcceptance
  <2>7. CASE Expire
    BY <2>7, Zenon DEF Expire
  <2>8. CASE ConsoleCommand
    BY <2>8, Zenon DEF ConsoleCommand
  <2>9. CASE PanicMark
    BY <2>9 DEF PanicMark, EngagePanic
  <2>10. CASE PanicCancel
    BY <2>10, Zenon DEF PanicCancel
  <2>11. CASE PanicReset
    BY <2>11, Zenon DEF PanicReset, TearDown
  <2>12. CASE ResumeClear
    BY <2>12 DEF ResumeClear, ClearPanic
  <2>13. CASE ResumeReply
    BY <2>13, Zenon DEF ResumeReply
  <2>14. CASE CliPanic
    BY <2>14, Zenon DEF CliPanic, EngagePanic
  <2>15. CASE CliTear
    BY <2>15, Zenon DEF CliTear, TearDown
  <2>16. CASE CliResume
    BY <2>16, Zenon DEF CliResume, ClearPanic
  <2>17. CASE StopDaemon
    BY <2>17 DEF StopDaemon
  <2>18. CASE ShutdownLatch
    BY <2>18 DEF ShutdownLatch
  <2>19. CASE ShutdownCancel
    BY <2>19, Zenon DEF ShutdownCancel
  <2> QED
    BY Zenon, <2>1, <2>2, <2>3, <2>4, <2>5, <2>6, <2>7, <2>8, <2>9, <2>10, <2>11, <2>12, <2>13,
       <2>14, <2>15, <2>16, <2>17, <2>18, <2>19 DEF Bystanders, Requests
<1>c. /\ daemon' # daemon => daemon # "down" /\ daemon' # "up"
      /\ request' # request \/ console' # console => daemon = "up" \/ console # "idle"
  <2> USE DEF memory
  <2>1. CASE SaveRules
    BY <2>1, Zenon DEF SaveRules
  <2>2. CASE SaveOptions
    BY <2>2 DEF SaveOptions
  <2>3. CASE SaveSystem
    BY <2>3 DEF SaveSystem
  <2>4. CASE ReceiveApply
    BY <2>4, Zenon DEF ReceiveApply
  <2>5. CASE Accept
    BY <2>5 DEF Accept
  <2>6. CASE CancelAcceptance
    BY <2>6, Zenon DEF CancelAcceptance
  <2>7. CASE Expire
    BY <2>7 DEF Expire
  <2>8. CASE ConsoleCommand
    BY <2>8, Zenon DEF ConsoleCommand
  <2>9. CASE PanicMark
    BY <2>9 DEF PanicMark, EngagePanic
  <2>10. CASE PanicCancel
    BY <2>10 DEF PanicCancel
  <2>11. CASE PanicReset
    BY <2>11, Zenon DEF PanicReset, TearDown
  <2>12. CASE ResumeClear
    BY <2>12 DEF ResumeClear, ClearPanic
  <2>13. CASE ResumeReply
    BY <2>13, Zenon DEF ResumeReply
  <2>14. CASE CliPanic
    BY <2>14, Zenon DEF CliPanic, EngagePanic
  <2>15. CASE CliTear
    BY <2>15, Zenon DEF CliTear, TearDown
  <2>16. CASE CliResume
    BY <2>16, Zenon DEF CliResume, ClearPanic
  <2>17. CASE StopDaemon
    BY <2>17 DEF StopDaemon
  <2>18. CASE ShutdownLatch
    BY <2>18, Zenon DEF ShutdownLatch
  <2>19. CASE ShutdownCancel
    BY <2>19 DEF ShutdownCancel
  <2> QED
    BY Zenon, <2>1, <2>2, <2>3, <2>4, <2>5, <2>6, <2>7, <2>8, <2>9, <2>10, <2>11, <2>12, <2>13,
       <2>14, <2>15, <2>16, <2>17, <2>18, <2>19 DEF Bystanders, Requests
<1>d. PanicInv'
  <2> USE DEF StartInv, PanicInv, PanicPossible, disk, memory
  <2>1. CASE SaveRules
    BY <2>1, Zenon DEF SaveRules
  <2>2. CASE SaveOptions
    BY <2>2, Zenon DEF SaveOptions
  <2>3. CASE SaveSystem
    BY <2>3, Zenon DEF SaveSystem
  <2>4. CASE ReceiveApply
    BY <2>4 DEF ReceiveApply
  <2>5. CASE Accept
    BY <2>5, Zenon DEF Accept
  <2>6. CASE CancelAcceptance
    BY <2>6, Zenon DEF CancelAcceptance
  <2>7. CASE Expire
    BY <2>7, Zenon DEF Expire
  <2>8. CASE ConsoleCommand
    BY <2>8, Zenon DEF ConsoleCommand
  <2>9. CASE PanicMark
    BY <2>9, Zenon DEF PanicMark, EngagePanic
  <2>10. CASE PanicCancel
    BY <2>10, Zenon DEF PanicCancel
  <2>11. CASE PanicReset
    BY <2>11, Zenon DEF PanicReset, TearDown
  <2>12. CASE ResumeClear
    BY <2>12, Zenon DEF ResumeClear, ClearPanic
  <2>13. CASE ResumeReply
    BY <2>13, Zenon DEF ResumeReply
  <2>14. CASE CliPanic
    BY <2>14, Zenon DEF CliPanic, EngagePanic
  <2>15. CASE CliTear
    BY <2>15, Zenon DEF CliTear, TearDown
  <2>16. CASE CliResume
    BY <2>16, Zenon DEF CliResume, ClearPanic
  <2>17. CASE StopDaemon
    BY <2>17, Zenon DEF StopDaemon
  <2>18. CASE ShutdownLatch
    BY <2>18, Zenon DEF ShutdownLatch
  <2>19. CASE ShutdownCancel
    BY <2>19, Zenon DEF ShutdownCancel
  <2> QED
    BY Zenon, <2>1, <2>2, <2>3, <2>4, <2>5, <2>6, <2>7, <2>8, <2>9, <2>10, <2>11, <2>12, <2>13,
       <2>14, <2>15, <2>16, <2>17, <2>18, <2>19 DEF Bystanders, Requests
<1>e. BootInv' /\ MarkerInv'
  BY <1>a, <1>c DEF StartInv, BootInv, MarkerInv, cycle
<1>f. BackupInv' /\ ConfirmInv' /\ WaitInv' /\ RevertInv' /\ NextStartApproved'
  BY <1>a, <1>b, Zenon DEF StartInv, BackupInv, ConfirmInv, WaitInv, RevertInv, NextStartApproved,
     NextStart,
                    Approved, cycle, Pending
<1> QED
  BY <1>d, <1>e, <1>f DEF StartInv

\* Starting a goroutine keeps StartInv: an apply starts from an approved Current.
LEMMA StartsStart == ASSUME StructInv, StartInv, Starts PROVE StartInv'
<1>a. /\ UNCHANGED <<current, backup, marker, lastFile, panic, acc, okRules>>
      /\ loc'["apply"] = loc["apply"]
  BY Zenon DEF Starts, DispatchApply, ResumeState, StartDaemon, Listen, Reconcile, disk, ghost,
     StructInv, TypeOK, Procs
<1>b. /\ pc'["apply"] = pc["apply"] \/ (pc["apply"] = "idle" /\ pc'["apply"] = "check")
      /\ \A r \in Restorers : pc'[r] = pc[r] \/ pc'[r] # "undone"
  <2>1. ASSUME NEW p \in Procs, Start(p)
        PROVE /\ pc'["apply"] = pc["apply"] \/ (pc["apply"] = "idle" /\ pc'["apply"] = "check")
              /\ \A r \in Restorers : pc'[r] = pc[r] \/ pc'[r] # "undone"
    <3>1. PICK l \in {"check", "enter", "idle", "armed"} :
            Goto(p, l) /\ (p = "apply" => l = "check")
      BY <2>1, Zenon DEF Start
    <3>2. p = "apply" => pc["apply"] = "idle"
      BY <2>1, Zenon DEF Start, StructInv, LabelInv, ApplyLabels
    <3>3. \A q \in Procs : pc'[q] = IF q = p THEN l ELSE pc[q]
      BY <3>1, Zenon DEF Goto, StructInv, TypeOK
    <3> QED
      BY <3>1, <3>2, <3>3 DEF Procs, Restorers
  <2>2. CASE UNCHANGED <<pc, applying>>
    BY <2>2
  <2> QED
    BY <2>1, <2>2, StartMoves, Zenon
<1>c. BootInv' /\ MarkerInv' /\ PanicInv'
  <2> USE <1>a, <1>b DEF StructInv, TypeOK, LifeInv, StartInv, BootInv, MarkerInv, PanicInv,
          Undecided, Provisional, Trial, cycle, Goto,
                   Procs, Restorers, memory, PanicPossible
  <2>1. CASE DispatchApply
    BY <2>1, Zenon DEF DispatchApply, BeginApply
  <2>2. CASE ResumeState
    BY <2>2 DEF ResumeState
  <2>3. CASE StartDaemon
    BY <2>3, Zenon DEF StartDaemon, ReadLastApply
  <2>4. CASE Listen
    BY <2>4, Zenon DEF Listen
  <2>5. CASE Reconcile
    BY <2>5, Zenon DEF Reconcile
  <2> QED
    BY <2>1, <2>2, <2>3, <2>4, <2>5, Zenon DEF Starts
<1>d. BackupInv' /\ ConfirmInv' /\ WaitInv' /\ RevertInv' /\ NextStartApproved'
  BY <1>a, <1>b, Zenon DEF StartInv, BackupInv, ConfirmInv, WaitInv, RevertInv, NextStartApproved,
     NextStart,
                    Approved, cycle, Pending, Provisional, Trial
<1> QED
  BY <1>c, <1>d DEF StartInv

\* The loss of the core's memory, by exit, kill or power cut, keeps StartInv.
LEMMA EndStart ==
  ASSUME StructInv, StartInv, ExitDaemon \/ Kill \/ PowerCut PROVE StartInv'
<1>1. MemoryLost /\ UNCHANGED <<disk, ghost>>
  BY Zenon DEF ExitDaemon, Kill, PowerCut
<1>2. ~Pending' /\ (\A p \in Procs : pc'[p] = "idle") /\ daemon' = "down"
  BY <1>1 DEF MemoryLost, AccInit, Pending
<1>3. marker # NoMarker => CrashPossible
  <2>1. CASE ExitDaemon
    BY <2>1, Zenon DEF ExitDaemon, StartInv, MarkerInv, Provisional, Trial, Undecided, Procs
  <2>2. CASE Kill \/ PowerCut
    BY <2>2, Zenon DEF Kill, PowerCut, CrashPossible
  <2> QED
    BY <2>1, <2>2, Zenon
<1>4. BootInv' /\ MarkerInv' /\ PanicInv'
  BY <1>1, <1>2, <1>3 DEF MemoryLost, StartInv, BootInv, MarkerInv, PanicInv, disk, Procs
<1>5. BackupInv' /\ ConfirmInv' /\ WaitInv' /\ RevertInv' /\ NextStartApproved'
  BY <1>1, <1>2, Zenon DEF StartInv, BackupInv, ConfirmInv, WaitInv, RevertInv, NextStartApproved,
                    NextStart, Approved, Provisional, Trial, disk, ghost, Procs, Restorers
<1> QED
  BY <1>4, <1>5, Zenon DEF StartInv

\* StartInv is inductive relative to StructInv, for benign faults.
LEMMA NextStarts == ASSUME Benign, StructInv, StartInv, [Next]_vars PROVE StartInv'
<1>1. CASE UNCHANGED vars
  <2> USE <1>1, Stutter DEF StartInv
  <2>1. BootInv' /\ MarkerInv' /\ PanicInv'
    BY DEF BootInv, MarkerInv, PanicInv, cycle
  <2>2. BackupInv'
    <3>1. Approved(backup)' = Approved(backup) /\ Approved(current)' = Approved(current)
      BY DEF Approved
    <3>2. pc'["apply"] = pc["apply"] /\ cycle'.on = cycle.on /\ marker' = marker
      BY Zenon DEF cycle
    <3> QED
      BY <3>1, <3>2, Zenon DEF BackupInv
  <2>3. ConfirmInv' /\ WaitInv'
    BY Zenon DEF ConfirmInv, WaitInv, cycle, Pending
  <2>4. RevertInv'
    BY Zenon DEF RevertInv
  <2>5. NextStartApproved'
    BY DEF NextStartApproved, NextStart, Approved
  <2> QED
    BY <2>1, <2>2, <2>3, <2>4, <2>5, Zenon
<1>2. CASE ApplySteps
  BY <1>2, ApplyStart
<1>3. CASE \E r \in Restorers : RestoreSteps(r)
  BY <1>3, RestoreStart
<1>4. CASE Bystanders
  BY <1>4, BystanderStart
<1>5. CASE Starts
  BY <1>5, StartsStart
<1>6. CASE ExitDaemon \/ Kill \/ PowerCut
  BY <1>6, EndStart
<1> QED
  BY <1>1, <1>2, <1>3, <1>4, <1>5, <1>6, Zenon DEF Next, Bystanders, Starts, ConsoleSteps,
     ShutdownSteps

\* Whatever is saved, applied, confirmed, refused or interrupted, at every moment
\* the rule set that a start of the core would put in force, Backup behind a
\* marker and Current without one, is a set some operator approved.
THEOREM NextStartIsApproved == ASSUME Benign PROVE Spec => []NextStartApproved
<1>1. Init => StructInv /\ StartInv
  BY InitStruct, InitStart, Zenon
<1>2. StructInv /\ StartInv /\ [Next]_vars => (StructInv /\ StartInv)'
  BY NextStruct, NextStarts
<1>3. StructInv /\ StartInv => NextStartApproved
  BY DEF StartInv
<1> QED
  BY <1>1, <1>2, <1>3, PTL DEF Spec

-----------------------------------------------------------------------------
(* The table.                                                              *)

\* A teardown, which reset may fail and still report.
Torn == table' = NoTable \/ (("reset" \in Faults \/ "delete" \in Faults) /\ table' = table)

\* TearDown is that.
LEMMA TearsDown == TearDown => Torn
BY DEF TearDown, KernelReset, Torn

\* A swap, which the kernel may refuse, or which may be reported late.
Swapped(rules, config) ==
  table' = [rules |-> rules, cfg |-> config] \/ ("refused" \in Faults /\ table' = table)

\* KernelApply is that, and an error is one of the two.
LEMMA KernelSwaps ==
  ASSUME NEW rules, NEW config, NEW ok, KernelApply(rules, config, ok)
  PROVE  Swapped(rules, config) /\ (ok \/ "refused" \in Faults \/ "late" \in Faults)
BY Zenon DEF KernelApply, Swapped

-----------------------------------------------------------------------------
(***************************************************************************)
(* A step of apply, variable by variable.                                  *)
(***************************************************************************)
\* The order of apply and rollback.
ApplyFlow(from, to) ==
  \/ from = "check" /\ to \in {"idle", "backup"}
  \/ from = "backup" /\ to \in {"idle", "mark"}
  \/ from = "mark" /\ to \in {"idle", "promote"}
  \/ from = "promote" /\ to \in {"idle", "reread"}
  \/ from = "reread" /\ (to = "kernel" \/ ("reread" \in Faults /\ to = "idle"))
  \/ from = "kernel" /\ to \in {"written", "failed"}
  \/ from = "failed" /\ to \in {"failtear", "revert"}
  \/ from \in {"failtear", "landtear"} /\ to = "revert"
  \/ from = "written" /\ (to = "landtear" \/ to = IF cycle.on THEN "wait" ELSE "final")
  \/ from = "wait" /\ to = IF acc.accepted THEN "confirm" ELSE "revert"
  \/ from = "confirm" /\ to = "final"
  \/ from = "final" /\ to = "idle"
  \/ from = "revert" /\ (to = "unmark" \/ ("revert" \in Faults /\ to = "decide"))
  \/ from = "unmark" /\ to = "decide"
  \/ from = "decide" /\ to \in {"idle", "rewrite"}
  \/ from = "rewrite" /\ to \in {"rewritten", "rewritefailed"}
  \/ from \in {"rewritten", "rewritefailed"} /\ to \in {"rewritetear", "idle"}
  \/ from = "rewritetear" /\ to = "idle"

\* Where it looks at the panic marker, a marker that reads is obeyed.
ApplyLooks(from, to) ==
  "panicread" \notin Faults =>
    /\ from \in {"failed", "written", "rewritten", "rewritefailed"} =>
         (panic <=> to \in {"failtear", "landtear", "rewritetear"})
    /\ from = "decide" => (panic <=> to = "idle")

\* The rule sets and the marker on disk.
ApplyFiles(from, to) ==
  /\ backup' = IF from = "backup" /\ to = "mark" THEN current ELSE backup
  /\ current' = IF from = "promote" /\ to = "reread" THEN staged
                ELSE IF from = "revert" /\ to = "unmark" THEN backup ELSE current
  /\ \/ from = "mark" /\ to = "promote" /\ marker' = IF window THEN loc'["apply"].before ELSE marker
     \/ from \in {"confirm", "unmark"} \/ (from = "promote" /\ to = "idle")
     \/ marker' = marker
  /\ from \in {"confirm", "unmark"} \/ (from = "promote" /\ to = "idle") =>
       marker' = NoMarker \/ ("unmark" \in Faults /\ marker' = marker)

\* What was confirmed last, and what it was built with.
ApplyRecords(from, to) ==
  /\ \/ applied' = applied
     \/ from = "written" /\ to \in {"wait", "final"} /\ applied' = cycle.opts
     \/ from = "rewritten" /\ to = "idle" /\ applied' = cycle.opts
  /\ "record" \notin Faults =>
       /\ from = "written" /\ to \in {"wait", "final"} => applied' = cycle.opts
       /\ from = "rewritten" /\ to = "idle" => applied' = cycle.opts
  /\ IF from = "final" THEN lastApply' /\ (lastFile' \/ ("record" \in Faults /\ lastFile' = lastFile))
     ELSE lastApply' = lastApply /\ lastFile' = lastFile

\* What it does to the table.
ApplyTable(from, to) ==
  /\ from = "kernel" => Swapped(cycle.new, cycle.opts)
  /\ from = "rewrite" => IF EverConfigured(cycle.prev) THEN Swapped(cycle.prev, Recorded(cycle.before)) ELSE Torn
  /\ to \in {"failed", "rewritefailed"} =>
       \/ "refused" \in Faults \/ "late" \in Faults
       \/ ~EverConfigured(cycle.prev) /\ "reset" \in Faults
  /\ from \in {"failtear", "landtear", "rewritetear"} => Torn
  /\ from \notin {"kernel", "rewrite", "failtear", "landtear", "rewritetear"} => table' = table

\* The window, and what an operator has approved.
ApplyWindow(from, to) ==
  /\ from = "reread" /\ to = "kernel" =>
       IF cycle.on THEN Pending' /\ (Pending \/ ~acc'.accepted) ELSE acc' = acc
  /\ from \in {"failed", "landtear", "wait"} => ~Pending'
  /\ from \in {"reread", "failed", "landtear", "wait"} \/ acc' = acc
  /\ okRules \subseteq okRules' /\ okConfigs \subseteq okConfigs'
  /\ from = "promote" \/ okRules' = okRules
  /\ from = "promote" /\ to = "reread" /\ ~cycle.on => staged \in okRules' /\ cycle.opts \in okConfigs'
  /\ from = "rewrite" /\ EverConfigured(cycle.prev) => okConfigs' = okConfigs \cup Fallback(cycle.before)

\* Its locals, as long as it has not returned.
ApplyKeeps(from, to) ==
  to # "idle" =>
    /\ loc'["apply"].prev = IF from = "check" THEN current ELSE cycle.prev
    /\ loc'["apply"].new = IF from = "reread" THEN current ELSE cycle.new
    /\ IF from = "mark" THEN /\ loc'["apply"].on = window /\ loc'["apply"].opts = live
                             /\ loc'["apply"].before \in SnapshotReads(applied)
       ELSE loc'["apply"].on = cycle.on /\ loc'["apply"].before = cycle.before
    /\ from \notin {"mark", "rewrite"} => loc'["apply"].opts = cycle.opts
    /\ from = "rewrite" /\ EverConfigured(cycle.prev) => loc'["apply"].opts = Recorded(cycle.before)

ApplyEffect ==
  LET from == pc["apply"]  to == pc'["apply"] IN
  /\ ApplyFlow(from, to) /\ ApplyLooks(from, to) /\ ApplyFiles(from, to)
  /\ ApplyRecords(from, to) /\ ApplyTable(from, to) /\ ApplyWindow(from, to)
  /\ ApplyKeeps(from, to)
  /\ to = "idle" => loc'["apply"] = NoLocal
  /\ UNCHANGED <<panic, console, cli, daemon>>

\* Firewall.apply and rollback do that.
LEMMA ApplyEffects == ASSUME StructInv, ApplySteps PROVE ApplyEffect
<1>a. /\ pc \in [Procs -> Labels] /\ loc \in [Procs -> Locals] /\ "apply" \in Procs /\ panic \in BOOLEAN
      /\ acc \in AcceptanceType
  BY DEF StructInv, TypeOK, Procs
<1>b. "panicread" \notin Faults => (\A e \in PanicEngaged : e = panic) /\ (\A e \in PanicKnown : e = panic)
  BY DEF PanicEngaged, PanicKnown
<1> USE <1>a, <1>b, TearsDown, KernelSwaps
        DEF ApplyEffect, ApplyFlow, ApplyLooks, ApplyFiles, ApplyRecords, ApplyTable, ApplyWindow, ApplyKeeps,
            Goto, Leave, EndApply, ClearUnconfirmed, RecordApplied, cycle, Locals, disk, memory, ghost,
            Pending, WindowReset, WindowConclude
<1>1. CASE ApplyCheck
  <2>1. CASE EndApply("apply")
    BY <1>1, <2>1 DEF ApplyCheck
  <2>2. CASE loc' = [loc EXCEPT !["apply"].prev = current] /\ Goto("apply", "backup")
    BY <1>1, <2>2 DEF ApplyCheck
  <2> QED
    BY <1>1, <2>1, <2>2, Zenon DEF ApplyCheck
<1>5. CASE ApplyReread
  <2>1. CASE EndApply("apply") /\ "reread" \in Faults
    BY <1>5, <2>1, Zenon DEF ApplyReread
  <2>2. CASE loc' = [loc EXCEPT !["apply"].new = current] /\ Goto("apply", "kernel")
    <3>1. IF cycle.on THEN Pending' /\ (Pending \/ ~acc'.accepted) ELSE acc' = acc
      BY <1>5, <2>2, Zenon DEF ApplyReread, WindowStart, AcceptanceType
    <3> QED
      BY <1>5, <2>2, <3>1 DEF ApplyReread
  <2> QED
    BY <1>5, <2>1, <2>2, Zenon DEF ApplyReread
<1>17. CASE ApplyRewrite
  <2>1. CASE EverConfigured(cycle.prev)
    <3>1. PICK ok \in BOOLEAN : /\ KernelApply(cycle.prev, Recorded(cycle.before), ok)
                               /\ Goto("apply", IF ok THEN "rewritten" ELSE "rewritefailed")
      BY <1>17, <2>1, Zenon DEF ApplyRewrite
    <3>2. loc' = [loc EXCEPT !["apply"].opts = Recorded(cycle.before)]
      BY <1>17, <2>1 DEF ApplyRewrite
    <3>3. Swapped(cycle.prev, Recorded(cycle.before)) /\ (ok \/ "refused" \in Faults \/ "late" \in Faults)
      BY <3>1, KernelSwaps
    <3> QED
      BY <1>17, <2>1, <3>1, <3>2, <3>3 DEF ApplyRewrite
  <2>2. CASE ~EverConfigured(cycle.prev)
    <3>1. PICK ok \in BOOLEAN : KernelReset(ok) /\ Goto("apply", IF ok THEN "rewritten" ELSE "rewritefailed")
      BY <1>17, <2>2, Zenon DEF ApplyRewrite
    <3>2. loc' = [loc EXCEPT !["apply"].opts = live]
      BY <1>17, <2>2 DEF ApplyRewrite
    <3>3. Torn /\ (ok \/ "reset" \in Faults)
      BY <3>1, Zenon DEF KernelReset, Torn
    <3> QED
      BY <1>17, <2>2, <3>1, <3>2, <3>3 DEF ApplyRewrite
  <2> QED
    BY <2>1, <2>2, Zenon
<1>2. CASE ApplyBackup
  BY <1>2, Zenon DEF ApplyBackup, BackupCurrent
<1>3. CASE ApplyMark
  BY <1>3 DEF ApplyMark, MarkUnconfirmed
<1>4. CASE ApplyPromote
  BY <1>4, Zenon DEF ApplyPromote, PromoteStaged
<1>6. CASE ApplyKernel
  <2>1. PICK ok \in BOOLEAN : /\ KernelApply(cycle.new, cycle.opts, ok)
                             /\ Goto("apply", IF ok THEN "written" ELSE "failed")
    BY <1>6, Zenon DEF ApplyKernel
  <2>2. Swapped(cycle.new, cycle.opts) /\ (ok \/ "refused" \in Faults \/ "late" \in Faults)
    BY ONLY <2>1, KernelSwaps, Zenon
  <2>3. pc["apply"] = "kernel" /\ pc'["apply"] \in {"written", "failed"} /\ (ok => pc'["apply"] = "written")
    BY <1>6, <2>1, Zenon DEF ApplyKernel
  <2>4. UNCHANGED <<disk, acc, memory, loc, cli, ghost>>
    BY <1>6, Zenon DEF ApplyKernel
  <2> QED
    BY <2>2, <2>3, <2>4, Zenon
<1>7. CASE ApplyFailed
  BY <1>7 DEF ApplyFailed
<1>8. CASE ApplyFailTear
  BY <1>8, Zenon DEF ApplyFailTear
<1>9. CASE ApplyWritten
  BY <1>9, Zenon DEF ApplyWritten
<1>10. CASE ApplyLandTear
  BY <1>10 DEF ApplyLandTear
<1>11. CASE ApplyWait
  BY <1>11 DEF ApplyWait
<1>12. CASE ApplyConfirm
  BY <1>12, Zenon DEF ApplyConfirm
<1>13. CASE ApplyFinal
  BY <1>13, Zenon DEF ApplyFinal, SetLastApply
<1>14. CASE ApplyRevert
  BY <1>14, Zenon DEF ApplyRevert, RollbackRules
<1>15. CASE ApplyUnmark
  BY <1>15, Zenon DEF ApplyUnmark
<1>16. CASE ApplyDecide
  BY <1>16, Zenon DEF ApplyDecide
<1>18. CASE ApplyRewritten
  BY <1>18, Zenon DEF ApplyRewritten
<1>19. CASE ApplyRewriteTear
  BY <1>19, Zenon DEF ApplyRewriteTear
<1> QED
  BY Zenon, <1>1, <1>2, <1>3, <1>4, <1>5, <1>6, <1>7, <1>8, <1>9, <1>10, <1>11, <1>12, <1>13,
     <1>14, <1>15, <1>16, <1>17, <1>18, <1>19 DEF ApplySteps
\* Nobody else moves, and nothing an operator approved is taken back.
LEMMA ApplyFrame ==
  ASSUME StructInv, ApplySteps
  PROVE  \A p \in Restorers : pc'[p] = pc[p] /\ loc'[p] = loc[p]
<1>1. \A p \in Restorers : pc'[p] = pc[p]
  BY ApplyMoves, Zenon DEF ApplyMove, Goto, StructInv, TypeOK, Restorers, Procs
<1>2. \A p \in Restorers : loc'[p] = loc[p]
  <2>a. loc \in [Procs -> Locals] /\ \A p \in Restorers : p \in Procs /\ p # "apply"
    BY DEF StructInv, TypeOK, Restorers, Procs
  <2> QED
    BY <2>a, Zenon DEF ApplySteps, Leave, EndApply, memory, ApplyCheck, ApplyBackup,
     ApplyMark, ApplyPromote, ApplyReread, ApplyKernel, ApplyFailed, ApplyFailTear,
     ApplyWritten, ApplyLandTear, ApplyWait, ApplyConfirm, ApplyFinal, ApplyRevert,
     ApplyUnmark, ApplyDecide, ApplyRewrite, ApplyRewritten, ApplyRewriteTear
<1> QED
  BY <1>1, <1>2

-----------------------------------------------------------------------------
(***************************************************************************)
(* A step of RestoreCurrent, variable by variable.                         *)
(***************************************************************************)
RestoreFlow(from, to) ==
  \/ from = "enter" /\ to \in {"slot", "idle"}
  \/ from = "slot" /\ (to = "recheck" \/ (to = "idle" /\ "slotwait" \in Faults))
  \/ from = "recheck" /\ to \in {"undo", "idle"}
  \/ from = "undo" /\ to = IF marker = NoMarker THEN "load" ELSE "undone"
  \/ from = "undo" /\ "revert" \in Faults /\ to = "idle"
  \/ from = "undone" /\ to = "load"
  \/ from = "load" /\ (to = IF EverConfigured(current) THEN "write" ELSE "idle")
  \/ from = "load" /\ "read" \in Faults /\ to = "idle"
  \/ from = "write" /\ to = "wrote"
  \/ from = "write" /\ to = "writefailed" /\ ("refused" \in Faults \/ "late" \in Faults)
  \/ from = "writefailed" /\ to \in {"errtear", "idle"}
  \/ from = "wrote" /\ to \in {"tear", "idle"}
  \/ from \in {"tear", "errtear"} /\ to = "idle"

\* A marker that reads is obeyed.
RestoreLooks(from, to) ==
  "panicread" \notin Faults =>
    /\ from \in {"enter", "recheck"} => (panic <=> to = "idle")
    /\ from \in {"writefailed", "wrote"} => (panic <=> to \in {"errtear", "tear"})

\* What it does to the files and to the table.
RestoreFiles(from, to, before) ==
  /\ current' = IF from = "undo" /\ to = "undone" THEN backup ELSE current
  /\ from = "undone" => marker' = NoMarker \/ ("unmark" \in Faults /\ marker' = marker)
  /\ from # "undone" => marker' = marker /\ acc' = acc
  /\ from = "undone" => ~Pending'
  /\ applied' = applied \/ (from = "wrote" /\ to = "idle" /\ applied' = before.opts)
  /\ "record" \notin Faults /\ from = "wrote" /\ to = "idle" => applied' = before.opts
  /\ from = "load" \/ okConfigs' = okConfigs

RestoreTable(from, before) ==
  /\ from = "write" => Swapped(before.new, before.opts)
  /\ from \in {"tear", "errtear"} => Torn
  /\ from \notin {"write", "tear", "errtear"} => table' = table

\* Its locals: what it found undone, then what it is about to write.
RestoreKnows(from, to, before, after) ==
  /\ to = "undone" => after.before \in SnapshotReads(marker) /\ after.undone
  /\ to = "write" =>
       /\ after.new = current /\ after.before = before.before
       /\ \E s \in IF before.undone THEN {before.before} ELSE SnapshotReads(applied) :
            after.opts = Recorded(s) /\ okConfigs' = okConfigs \cup Fallback(s)
  /\ to \notin {"idle", "undone", "write"} => after = before
  /\ to = "idle" => after = NoLocal

RestoreEffect(r) ==
  LET from == pc[r]  to == pc'[r] IN
  /\ RestoreFlow(from, to) /\ RestoreLooks(from, to) /\ RestoreFiles(from, to, loc[r])
  /\ RestoreTable(from, loc[r]) /\ RestoreKnows(from, to, loc[r], loc'[r])
  /\ UNCHANGED <<panic, cli, lastApply, lastFile, backup, okRules, daemon>>
  /\ okConfigs \subseteq okConfigs'

\* RestoreCurrent does that.
LEMMA RestoreEffects == ASSUME NEW r \in Restorers, StructInv, RestoreSteps(r) PROVE RestoreEffect(r)
<1>a. /\ pc \in [Procs -> Labels] /\ loc \in [Procs -> Locals] /\ r \in Procs /\ panic \in BOOLEAN
      /\ acc \in AcceptanceType
  BY Zenon DEF StructInv, TypeOK, Procs, Restorers
<1>b. "panicread" \notin Faults => \A e \in PanicEngaged : e = panic
  BY DEF PanicEngaged
<1> USE <1>a, <1>b, TearsDown, KernelSwaps
        DEF RestoreEffect, RestoreFlow, RestoreLooks, RestoreFiles, RestoreTable, RestoreKnows,
            Goto, Leave, EndApply, ClearUnconfirmed, RecordApplied, Locals, disk, memory, ghost,
            Pending, WindowRecordRolledBack
<1>6. CASE RestoreLoad(r)
  <2>1. CASE EndApply(r) /\ UNCHANGED okConfigs /\ ("read" \in Faults \/ ~EverConfigured(current))
    BY <1>6, <2>1, Zenon DEF RestoreLoad
  <2>2. CASE EverConfigured(current) /\ Goto(r, "write")
    <3>1. PICK s \in IF loc[r].undone THEN {loc[r].before} ELSE SnapshotReads(applied) :
            /\ loc' = [loc EXCEPT ![r].new = current, ![r].opts = Recorded(s)]
            /\ okConfigs' = okConfigs \cup Fallback(s)
      BY <1>6, <2>2, Zenon DEF RestoreLoad
    <3>2. loc'[r].new = current /\ loc'[r].opts = Recorded(s) /\ loc'[r].before = loc[r].before
      BY <3>1
    <3> QED
      BY <1>6, <2>2, <3>1, <3>2, Zenon DEF RestoreLoad
  <2> QED
    BY <1>6, <2>1, <2>2, Zenon DEF RestoreLoad
<1>1. CASE RestoreEnter(r)
  BY <1>1, Zenon DEF RestoreEnter
<1>2. CASE RestoreSlot(r)
  BY <1>2, Zenon DEF RestoreSlot, BeginApply
<1>3. CASE RestoreRecheck(r)
  BY <1>3, Zenon DEF RestoreRecheck
<1>4. CASE RestoreUndo(r)
  <2>0. /\ pc[r] = "undo"
        /\ UNCHANGED <<staged, backup, marker, panic, applied, lastFile, table, acc, live, window,
                       lastApply, daemon, request, cli, ghost>>
    BY <1>4, Zenon DEF RestoreUndo
  <2>1. CASE Goto(r, "load") /\ UNCHANGED <<current, loc>> /\ marker = NoMarker
    BY <2>0, <2>1, Zenon
  <2>2. CASE EndApply(r) /\ UNCHANGED current /\ marker # NoMarker /\ "revert" \in Faults
    BY <2>0, <2>2, Zenon
  <2>3. CASE /\ marker # NoMarker /\ current' = backup /\ Goto(r, "undone")
             /\ \E before \in SnapshotReads(marker) : loc' = [loc EXCEPT ![r].before = before, ![r].undone = TRUE]
    <3>1. loc'[r].before \in SnapshotReads(marker) /\ loc'[r].undone
      BY <2>3
    <3> QED
      BY <2>0, <2>3, <3>1, Zenon
  <2> QED
    BY <1>4, <2>1, <2>2, <2>3, Zenon DEF RestoreUndo, RollbackRules
<1>5. CASE RestoreUndone(r)
  BY <1>5 DEF RestoreUndone
<1>7. CASE RestoreWrite(r)
  <2>1. PICK ok \in BOOLEAN : KernelApply(loc[r].new, loc[r].opts, ok) /\ Goto(r, IF ok THEN "wrote" ELSE "writefailed")
    BY <1>7, Zenon DEF RestoreWrite
  <2>2. Swapped(loc[r].new, loc[r].opts) /\ (ok \/ "refused" \in Faults \/ "late" \in Faults)
    BY ONLY <2>1, KernelSwaps, Zenon
  <2>3. pc[r] = "write" /\ pc'[r] \in {"wrote", "writefailed"} /\ (ok => pc'[r] = "wrote")
    BY <1>7, <2>1, Zenon DEF RestoreWrite
  <2>4. UNCHANGED <<disk, acc, memory, loc, cli, ghost>>
    BY <1>7, Zenon DEF RestoreWrite
  <2> QED
    BY <2>2, <2>3, <2>4, Zenon
<1>8. CASE RestoreWriteFailed(r)
  BY <1>8, Zenon DEF RestoreWriteFailed
<1>9. CASE RestoreWrote(r)
  BY <1>9, Zenon DEF RestoreWrote
<1>10. CASE RestoreTear(r)
  BY <1>10, Zenon DEF RestoreTear
<1> QED
  BY <1>1, <1>2, <1>3, <1>4, <1>5, <1>6, <1>7, <1>8, <1>9, <1>10, Zenon DEF RestoreSteps

\* Nobody else's goroutine moves.
LEMMA RestoreKeeps ==
  ASSUME NEW r \in Restorers, StructInv, RestoreSteps(r)
  PROVE  /\ \A p \in Procs \ {r} : pc'[p] = pc[p] /\ loc'[p] = loc[p]
         /\ console' = console \/ console = "restore"
<1>1. \A p \in Procs \ {r} : loc'[p] = loc[p]
  BY RestoreLocals, Zenon DEF RestoreLocal, Leave, StructInv, TypeOK, Restorers
<1>2. console' = console \/ console = "restore"
  BY RestoreMoves, RestoreFrame, Zenon DEF RestoreMove, StructInv, LifeInv
<1> QED
  BY <1>1, <1>2, RestoreFrame

-----------------------------------------------------------------------------
(***************************************************************************)
(* Requests, the console, the CLI and Stop.                                *)
(***************************************************************************)
ConsoleEffect ==
  \/ UNCHANGED <<console, panic, table>>
  \/ /\ "panic" \in Events /\ console = "idle" /\ console' \in {"mark", "clear"}
     /\ UNCHANGED <<panic, table>>
  \/ console = "mark" /\ console' = "idle" /\ UNCHANGED <<panic, table>>
  \/ console = "mark" /\ console' = "cancel" /\ panic' /\ table' = table
  \/ console = "cancel" /\ console' = "reset" /\ UNCHANGED <<panic, table>>
  \/ console = "reset" /\ console' = "idle" /\ panic' = panic /\ Torn
  \/ console = "clear" /\ console' = "state" /\ ~panic' /\ table' = table
  \/ console = "clear" /\ console' = "error" /\ UNCHANGED <<panic, table>>
  \/ console \in {"restored", "nothing", "error"} /\ console' = "idle" /\ UNCHANGED <<panic, table>>

CliEffect ==
  /\ console' = console
  /\ \/ "clipanic" \in Events /\ cli = "idle" /\ cli' = "tear" /\ panic' /\ table' = table
     \/ cli = "tear" /\ cli' = "idle" /\ panic' = panic /\ Torn
     \/ "cliresume" \in Events /\ cli = "idle" /\ cli' = "idle" /\ ~panic' /\ table' = table

\* None of them touches a file or a goroutine, and only an ACCEPT approves.
BystanderEffect ==
  /\ UNCHANGED <<current, backup, marker, applied, lastFile, lastApply, pc, loc>>
  /\ (ConsoleEffect /\ cli' = cli) \/ CliEffect
  /\ okRules \subseteq okRules' /\ okConfigs \subseteq okConfigs'
  /\ Pending' => Pending
  /\ Pending /\ ~acc.accepted /\ acc'.accepted => current \in okRules' /\ cycle.opts \in okConfigs'
  /\ daemon = "down" <=> daemon' = "down"

\* That is all they do.
LEMMA BystanderEffects == ASSUME StructInv, Bystanders \/ UNCHANGED vars PROVE BystanderEffect
<1>1. \/ acc' = acc \/ WindowCancel("operator") \/ WindowExpire \/ WindowLatchStopping
      \/ WindowCancelIfOpen("panic") \/ WindowCancelIfOpen("stopped")
      \/ WindowAccept /\ current \in okRules' /\ cycle.opts \in okConfigs'
  BY Stutter, Zenon DEF Bystanders, Requests, memory, disk, SaveRules, SaveOptions, SaveSystem, ReceiveApply,
     Accept, CancelAcceptance, Expire, ConsoleCommand, PanicMark, PanicCancel, PanicReset,
     ResumeClear, ResumeReply, CliPanic, CliTear, CliResume, StopDaemon, ShutdownLatch, ShutdownCancel
<1>2. /\ Pending' => Pending
      /\ Pending /\ ~acc.accepted /\ acc'.accepted => current \in okRules' /\ cycle.opts \in okConfigs'
  BY <1>1, Zenon DEF StructInv, TypeOK, AcceptanceType, Pending, WindowAccept, WindowCancel, WindowExpire,
     WindowLatchStopping, WindowCancelIfOpen
<1>3. /\ UNCHANGED <<current, backup, marker, applied, lastFile, lastApply, pc, loc>>
      /\ okRules \subseteq okRules' /\ okConfigs \subseteq okConfigs'
      /\ daemon = "down" <=> daemon' = "down"
  BY Stutter, Zenon DEF Bystanders, Requests, memory, disk, ghost, SaveRules, SaveOptions, SaveSystem, ReceiveApply,
     Accept, CancelAcceptance, Expire, ConsoleCommand, PanicMark, PanicCancel, PanicReset,
     ResumeClear, ResumeReply, CliPanic, CliTear, CliResume, StopDaemon, ShutdownLatch, ShutdownCancel
<1>4. (ConsoleEffect /\ cli' = cli) \/ CliEffect
  <2> USE TearsDown DEF ConsoleEffect, CliEffect, disk, memory
  <2>1. CASE UNCHANGED vars \/ Requests \/ Expire \/ StopDaemon \/ ShutdownLatch \/ ShutdownCancel
    BY <2>1, Stutter, Zenon DEF Requests, SaveRules, SaveOptions, SaveSystem, ReceiveApply,
       Accept, CancelAcceptance, Expire, StopDaemon, ShutdownLatch, ShutdownCancel
  <2>2. CASE ConsoleCommand \/ PanicMark \/ PanicCancel \/ PanicReset \/ ResumeClear \/ ResumeReply
    BY <2>2, Zenon DEF ConsoleCommand, PanicMark, PanicCancel, PanicReset, ResumeClear, ResumeReply, EngagePanic, ClearPanic
  <2>3. CASE CliPanic \/ CliTear \/ CliResume
    BY <2>3, Zenon DEF CliPanic, CliTear, CliResume, EngagePanic, ClearPanic
  <2> QED
    BY <2>1, <2>2, <2>3, Zenon DEF Bystanders
<1> QED
  BY <1>2, <1>3, <1>4 DEF BystanderEffect

-----------------------------------------------------------------------------
(***************************************************************************)
(* Starts and ends.                                                        *)
(***************************************************************************)
\* A goroutine that starts is at its first label, with what it was given.
LEMMA StartsFrame ==
  ASSUME StructInv, Starts
  PROVE  /\ UNCHANGED <<current, backup, marker, applied, lastFile, panic, table, acc, cli,
                         okRules, okConfigs>>
         /\ loc'["apply"] = loc["apply"]
         /\ \A r \in Restorers : /\ loc'[r].new = loc[r].new /\ loc'[r].opts = loc[r].opts
                                 /\ loc'[r].before = loc[r].before
         /\ pc'["apply"] = pc["apply"] \/ (pc["apply"] = "idle" /\ pc'["apply"] = "check")
         /\ \A r \in Restorers : \/ pc'[r] = pc[r]
                                 \/ pc[r] \in {"idle", "armed"} /\ pc'[r] \in {"idle", "armed", "enter"}
         /\ \/ console' = console
            \/ console = "state" /\ console' = "restore" /\ pc'["resume"] = "enter"
         /\ daemon' # "down"
         /\ \/ lastApply' = lastApply /\ (daemon = "down" => daemon' = "down")
            \/ daemon = "down" /\ lastApply' = lastFile /\ pc'["boot"] = "enter"
<1>1. /\ UNCHANGED <<current, backup, marker, applied, lastFile, panic, table, acc, cli, okRules, okConfigs>>
      /\ loc'["apply"] = loc["apply"]
  BY Zenon DEF Starts, DispatchApply, ResumeState, StartDaemon, Listen, Reconcile, disk, ghost,
     StructInv, TypeOK, Procs
<1>2. \A r \in Restorers : loc'[r].new = loc[r].new /\ loc'[r].opts = loc[r].opts /\ loc'[r].before = loc[r].before
  <2>1. CASE ResumeState
    <3>1. PICK c \in BOOLEAN : loc' = [loc EXCEPT !["resume"].claim = c]
      BY <2>1, Zenon DEF ResumeState, EverConfigured, StructInv, TypeOK
    <3> QED
      BY <3>1 DEF StructInv, TypeOK, Locals, Restorers, Procs
  <2>2. CASE loc' = loc
    BY <2>2
  <2> QED
    BY <2>1, <2>2, Zenon DEF Starts, DispatchApply, StartDaemon, Listen, Reconcile
<1>3. /\ pc'["apply"] = pc["apply"] \/ (pc["apply"] = "idle" /\ pc'["apply"] = "check")
      /\ \A r \in Restorers : \/ pc'[r] = pc[r]
                              \/ pc[r] \in {"idle", "armed"} /\ pc'[r] \in {"idle", "armed", "enter"}
  <2>1. ASSUME NEW q \in Procs, Start(q)
        PROVE  /\ pc'["apply"] = pc["apply"] \/ (pc["apply"] = "idle" /\ pc'["apply"] = "check")
               /\ \A r \in Restorers : \/ pc'[r] = pc[r]
                                       \/ pc[r] \in {"idle", "armed"} /\ pc'[r] \in {"idle", "armed", "enter"}
    BY <2>1 DEF Start, Goto, StructInv, TypeOK, LabelInv, ApplyLabels, Procs, Restorers
  <2> QED
    BY <2>1, StartMoves, Zenon
<1>4. \/ console' = console
      \/ console = "state" /\ console' = "restore" /\ pc'["resume"] = "enter"
  BY Zenon DEF Starts, DispatchApply, ResumeState, StartDaemon, Listen, Reconcile, Goto, memory, StructInv, TypeOK, Procs
<1>5. CASE StartDaemon
  <2>1. daemon = "down" /\ daemon' = "boot" /\ lastApply' = lastFile /\ pc'["boot"] = "enter"
    BY <1>5, Zenon DEF StartDaemon, ReadLastApply, Goto, StructInv, TypeOK, Procs
  <2> QED
    BY <1>1, <1>2, <1>3, <1>4, <2>1, Zenon
<1>6. CASE DispatchApply \/ ResumeState \/ Listen \/ Reconcile
  <2>1. daemon # "down" /\ daemon' # "down" /\ lastApply' = lastApply
    BY <1>6, Zenon DEF DispatchApply, ResumeState, Listen, Reconcile, memory, StructInv, LifeInv, Procs
  <2> QED
    BY <1>1, <1>2, <1>3, <1>4, <2>1, Zenon
<1> QED
  BY <1>5, <1>6, Zenon DEF Starts


\* A process that ends leaves files and, unless the machine goes down, the table.
LEMMA EndsFrame ==
  ASSUME StructInv, ExitDaemon \/ Kill \/ PowerCut
  PROVE  /\ UNCHANGED <<current, backup, marker, applied, lastFile, panic, okRules, okConfigs>>
         /\ \A p \in Procs : pc'[p] = "idle" /\ loc'[p] = NoLocal
         /\ daemon' = "down" /\ console' = "idle" /\ ~lastApply' /\ ~Pending'
         /\ \/ "kill" \in Events /\ UNCHANGED <<table, cli>>
            \/ table' = NoTable /\ cli' = "idle" /\ CrashPossible
            \/ UNCHANGED <<table, cli>> /\ console = "idle" /\ \A p \in Procs : pc[p] = "idle"
<1>1. MemoryLost /\ UNCHANGED <<current, backup, marker, applied, lastFile, panic, okRules, okConfigs>>
  BY Zenon DEF ExitDaemon, Kill, PowerCut, disk, ghost
<1>2. /\ \A p \in Procs : pc'[p] = "idle" /\ loc'[p] = NoLocal
      /\ daemon' = "down" /\ console' = "idle" /\ ~lastApply' /\ ~Pending'
  BY <1>1 DEF MemoryLost, AccInit, Pending
<1>3. \/ "kill" \in Events /\ UNCHANGED <<table, cli>>
      \/ table' = NoTable /\ cli' = "idle" /\ CrashPossible
      \/ UNCHANGED <<table, cli>> /\ console = "idle" /\ \A p \in Procs : pc[p] = "idle"
  BY DEF ExitDaemon, Kill, PowerCut, CrashPossible
<1> QED
  BY <1>1, <1>2, <1>3, Zenon

\* Every step is one of these.
LEMMA StepKinds ==
  ASSUME [Next]_vars
  PROVE  \/ ApplySteps \/ (\E r \in Restorers : RestoreSteps(r)) \/ (Bystanders \/ UNCHANGED vars)
         \/ Starts \/ (ExitDaemon \/ Kill \/ PowerCut)
BY DEF Next, Bystanders, Starts, ConsoleSteps, ShutdownSteps

-----------------------------------------------------------------------------
(***************************************************************************)
(* Panic mode.                                                             *)
(***************************************************************************)
\* Where panic mode can promise an empty table.  Not where the delete or its
\* report fails, where a marker that is there reads as unknown, or where the
\* process is killed between the marker and the teardown.
PanicObeyed == Faults \cap {"reset", "delete", "panicread"} = {} /\ "kill" \notin Events

\* After a kernel write, up to the look at the panic marker that follows it.
Checking == {"written", "failed", "failtear", "landtear", "rewritten", "rewritefailed",
             "rewritetear", "writefailed", "wrote", "errtear", "tear"}

\* Under panic mode a table has somebody left who takes it down: the console
\* command that engaged it, or the goroutine that wrote it.
DownInv ==
  panic => \/ table = NoTable \/ console \in {"cancel", "reset"} \/ cli = "tear"
           \/ \E p \in Procs : pc[p] \in Checking

\* DownInv is inductive: who wrote the table does not go on before it has looked
\* at the marker, and whoever engages panic mode is the next to take it down.
LEMMA NextDown == ASSUME PanicObeyed, StructInv, DownInv, [Next]_vars PROVE DownInv'
<1>a. "panicread" \notin Faults /\ "kill" \notin Events /\ (Torn => table' = NoTable)
  BY DEF PanicObeyed, Torn
<1>1. CASE ApplySteps
  <2>1. \/ table' = NoTable \/ pc'["apply"] \in Checking
        \/ table' = table /\ (pc["apply"] \notin Checking \/ ~panic)
    BY <1>a, <1>1, ApplyEffects, Zenon DEF ApplyEffect, ApplyFlow, ApplyLooks, ApplyTable, Checking
  <2> QED
    BY <1>1, <2>1, ApplyEffects, ApplyFrame, Zenon DEF ApplyEffect, DownInv, Procs, Restorers
<1>2. ASSUME NEW r \in Restorers, RestoreSteps(r) PROVE DownInv'
  <2>1. \/ table' = NoTable \/ pc'[r] \in Checking
        \/ table' = table /\ (pc[r] \notin Checking \/ ~panic)
    BY <1>a, <1>2, RestoreEffects, Zenon DEF RestoreEffect, RestoreFlow, RestoreLooks, RestoreTable, Checking
  <2>2. UNCHANGED <<panic, cli>> /\ r \in Procs
    BY <1>2, RestoreEffects DEF RestoreEffect, Restorers
  <2> QED
    BY <1>2, <2>1, <2>2, RestoreKeeps, Zenon DEF DownInv
<1>3. CASE Bystanders \/ UNCHANGED vars
  BY <1>a, <1>3, BystanderEffects, Zenon DEF BystanderEffect, ConsoleEffect, CliEffect, DownInv
<1>4. CASE Starts
  <2>1. \A p \in Procs : pc[p] \in Checking => pc'[p] = pc[p]
    BY <1>4, StartsFrame, Zenon DEF Checking, Restorers
  <2> QED
    BY <1>4, <2>1, StartsFrame, Zenon DEF DownInv
<1>5. CASE ExitDaemon \/ Kill \/ PowerCut
  BY <1>a, <1>5, EndsFrame, Zenon DEF DownInv, Checking
<1> QED
  BY <1>1, <1>2, <1>3, <1>4, <1>5, StepKinds

\* PanicEmpties: while the panic marker is there and nobody is in the middle of
\* anything, the kernel holds no table, however PANIC, RESUME, the CLI, an apply,
\* a restore and a stop overlap (Panic, panicLandedDuringWrite, RestoreCurrent).
THEOREM PanicEmpties == ASSUME PanicObeyed PROVE Spec => []PanicDown
<1>1. Init => StructInv /\ DownInv
  BY InitStruct DEF Init, DownInv
<1>2. StructInv /\ DownInv /\ [Next]_vars => (StructInv /\ DownInv)'
  BY NextStruct, NextDown
<1>3. StructInv /\ DownInv => PanicDown
  BY Zenon DEF DownInv, PanicDown, Quiet, Checking
<1> QED
  BY <1>1, <1>2, <1>3, PTL DEF Spec

-----------------------------------------------------------------------------
(***************************************************************************)
(* What an apply remembers of the state it found.                          *)
(***************************************************************************)
\* From the rollback's look at the panic marker to the end of apply.
Unwinding == {"decide", "rewrite", "rewritten", "rewritefailed", "rewritetear"}

\* state.Current of apply is the backup until rollback has put it back.
PrevInv ==
  /\ pc["apply"] \in {"backup", "promote"} => current = cycle.prev
  /\ pc["apply"] = "mark" => current = cycle.prev
  /\ pc["apply"] \in Provisional \cup {"mark"} => backup = cycle.prev
  /\ pc["apply"] \in Unwinding => current = cycle.prev /\ marker = NoMarker

\* A restore that moves a file or the table has the slot, so no apply is under way.
LEMMA RestoreAlone ==
  ASSUME NEW r \in Restorers, StructInv, RestoreSteps(r)
  PROVE  /\ pc[r] \notin {"enter", "slot"} => pc["apply"] = "idle" /\ ~Pending
         /\ pc[r] \in {"enter", "slot"} => UNCHANGED <<current, marker, table, applied, acc, okConfigs>>
         /\ backup' = backup
<1>1. pc[r] \notin {"enter", "slot"} => pc[r] \in Inside
  BY RestoreEffects, Zenon DEF RestoreEffect, RestoreFlow, Inside, RestoreLabels
<1>2. pc[r] \in {"enter", "slot"} => UNCHANGED <<current, marker, table, applied, acc, okConfigs>>
  BY RestoreEffects, Zenon DEF RestoreEffect, RestoreFiles, RestoreTable
<1>3. backup' = backup
  BY RestoreEffects, Zenon DEF RestoreEffect
<1> QED
  BY <1>1, <1>2, <1>3, RestoreFrame, Zenon

\* PrevInv is inductive: apply moves the rule sets in the order backup, promote,
\* rollback, and nobody else writes the files while it has the slot.
LEMMA NextPrev == ASSUME Benign, StructInv, StartInv, PrevInv, [Next]_vars PROVE PrevInv'
<1> USE DEF PrevInv, cycle
<1>1. CASE ApplySteps
  <2>1. "reread" \notin Faults /\ "revert" \notin Faults /\ "unmark" \notin Faults
    BY Zenon DEF Benign
  <2>2. pc["apply"] = "unmark" => current = backup
    BY DEF StartInv, RevertInv
  <2> QED
    BY <1>1, <2>1, <2>2, ApplyEffects, Zenon
       DEF ApplyEffect, ApplyFlow, ApplyFiles, ApplyKeeps, Provisional, Trial, Unwinding
<1>2. CASE \E r \in Restorers : RestoreSteps(r)
  BY <1>2, RestoreFrame, RestoreAlone, Zenon DEF Provisional, Trial, Unwinding
<1>3. CASE Bystanders \/ UNCHANGED vars
  BY <1>3, BystanderEffects DEF BystanderEffect
<1>4. CASE Starts
  BY <1>4, StartsFrame, Zenon DEF Provisional, Trial, Unwinding
<1>5. CASE ExitDaemon \/ Kill \/ PowerCut
  BY <1>5, EndsFrame, Zenon DEF Provisional, Trial, Unwinding, Procs
<1> QED
  BY <1>1, <1>2, <1>3, <1>4, <1>5, StepKinds, Zenon

-----------------------------------------------------------------------------
(***************************************************************************)
(* The first apply of an installation.                                     *)
(***************************************************************************)
\* Where a table that nobody confirmed yet is still going to be taken down.
Taken == {"written", "failed", "failtear", "landtear", "wait", "revert", "unmark", "decide",
          "rewrite"}

\* As long as nobody has approved anything, nothing was ever there to go back to.
FirstInv ==
  okRules = {} =>
    /\ ~lastApply
    /\ pc["apply"] \notin {"idle", "check"} => cycle.prev = Empty
    /\ \A r \in Restorers : pc[r] \notin {"write", "writefailed", "wrote", "errtear", "tear"}
    /\ table # NoTable => \/ pc["apply"] \in Taken
                          \/ console \in {"cancel", "reset"} \/ cli = "tear"

\* With nothing approved, Current is empty wherever the marker is not in force.
LEMMA NothingStored ==
  ASSUME StartInv, okRules = {}
  PROVE  ~lastFile /\ (marker = NoMarker => current = Empty)
BY Zenon DEF StartInv, NextStartApproved, NextStart

\* Rollback finds a table under panic mode only if its console has yet to reset it.
LEMMA DecideDown ==
  ASSUME StructInv, DownInv, pc["apply"] = "decide", panic
  PROVE  table = NoTable \/ console \in {"cancel", "reset"} \/ cli = "tear"
<1> SUFFICES ASSUME table # NoTable, \E p \in Procs : pc[p] \in Checking PROVE FALSE
  BY Zenon DEF DownInv
<1> QED
  BY Zenon DEF StructInv, SlotExclusion, Holds, Checking, Procs

\* A restore loads the rules once no marker is in force.
LEMMA LoadUnmarked ==
  ASSUME NEW r \in Restorers, StructInv, StartInv, RestoreSteps(r), pc[r] = "load" PROVE marker = NoMarker
<1>1. pc["apply"] = "idle" /\ daemon # "down"
  BY RestoreAlone, Zenon DEF StructInv, LifeInv, Restorers, Procs
<1> QED
  BY <1>1 DEF StartInv, MarkerInv, BootInv, Provisional, Trial, Undecided, Restorers, Procs

\* FirstInv is inductive: an unconfirmed first apply ends in a reset, also when
\* panic mode is in the way, and a restore finds nothing to write.
LEMMA NextFirst ==
  ASSUME Benign, PanicObeyed, StructInv, StartInv, DownInv, PrevInv, FirstInv, [Next]_vars PROVE FirstInv'
<1>a. /\ "panicread" \notin Faults /\ "reread" \notin Faults /\ "kill" \notin Events
      /\ Torn => table' = NoTable
  BY Zenon DEF PanicObeyed, Benign, Torn
<1> SUFFICES ASSUME okRules' = {} PROVE FirstInv'
  BY Zenon DEF FirstInv
<1> USE DEF FirstInv, cycle
<1>1. CASE ApplySteps
  <2>a. okRules = {}
    BY <1>1, ApplyEffects, Zenon DEF ApplyEffect, ApplyWindow
  <2>b. pc["apply"] = "check" => current = Empty
    BY <1>1, <2>a, ApplyAlone, NothingStored, Zenon DEF StartInv, MarkerInv, Provisional, Trial, Undecided
  <2>c. /\ pc["apply"] \notin {"confirm", "final"} /\ (pc["apply"] = "wait" => ~acc.accepted)
        /\ pc["apply"] = "written" => cycle.on
    BY <2>a DEF StartInv, ConfirmInv, WaitInv, Trial
  <2>d. pc["apply"] = "rewrite" => ~EverConfigured(cycle.prev)
    BY <2>a DEF EverConfigured
  <2>1. ~lastApply' /\ (pc'["apply"] \notin {"idle", "check"} => loc'["apply"].prev = Empty)
    BY <1>1, <2>a, <2>b, <2>c, ApplyEffects, Zenon DEF ApplyEffect, ApplyFlow, ApplyKeeps, ApplyRecords
  <2>2. table' # NoTable => pc'["apply"] \in Taken \/ console \in {"cancel", "reset"} \/ cli = "tear"
    BY <1>a, <1>1, <2>a, <2>c, <2>d, DecideDown, ApplyEffects, Zenon
       DEF ApplyEffect, ApplyFlow, ApplyLooks, ApplyTable, Taken
  <2> QED
    BY <1>1, <2>a, <2>1, <2>2, ApplyFrame, ApplyEffects, Zenon DEF ApplyEffect
<1>2. ASSUME NEW r \in Restorers, RestoreSteps(r) PROVE FirstInv'
  <2>1. okRules = {} /\ UNCHANGED <<cli, lastApply>>
    BY <1>2, RestoreEffects DEF RestoreEffect
  <2>2. pc[r] = "load" => ~EverConfigured(current)
    BY <1>2, <2>1, LoadUnmarked, NothingStored, Zenon DEF EverConfigured
  <2>3. pc'[r] \notin {"write", "writefailed", "wrote", "errtear", "tear"} /\ table' = table
    BY <1>2, <2>1, <2>2, RestoreEffects, Zenon DEF RestoreEffect, RestoreFlow, RestoreTable
  <2> QED
    BY <1>2, <2>1, <2>3, RestoreKeeps, Zenon DEF Restorers, Procs
<1>3. CASE Bystanders \/ UNCHANGED vars
  BY <1>a, <1>3, BystanderEffects, Zenon DEF BystanderEffect, ConsoleEffect, CliEffect
<1>4. CASE Starts
  BY <1>4, StartsFrame, NothingStored, Zenon DEF Taken
<1>5. CASE ExitDaemon \/ Kill \/ PowerCut
  BY <1>a, <1>5, EndsFrame, Zenon DEF Taken, Procs, Restorers
<1> QED
  BY <1>1, <1>2, <1>3, <1>4, <1>5, StepKinds, Zenon

\* FirstUndone: an installation where nobody has confirmed anything yet holds no
\* table once everybody has finished: a first apply that is refused, cancelled or
\* runs out ends in a reset, also under panic mode (rollback, everConfigured).
THEOREM FirstUndone == ASSUME Benign, PanicObeyed PROVE Spec => []FirstApplyUndone
<1> DEFINE Inv == StructInv /\ StartInv /\ DownInv /\ PrevInv /\ FirstInv
<1>1. Init => Inv
  <2> SUFFICES ASSUME Init PROVE Inv
    BY Zenon
  <2>1. pc["apply"] = "idle" /\ (\A r \in Restorers : pc[r] = "idle") /\ table = NoTable /\ ~lastApply
    BY Zenon DEF Init, Procs, Restorers
  <2>2. DownInv /\ PrevInv /\ FirstInv
    BY <2>1 DEF DownInv, PrevInv, Provisional, Trial, Unwinding, FirstInv
  <2> QED
    BY <2>2, InitStruct, InitStart
<1>2. Inv /\ [Next]_vars => Inv'
  BY NextStruct, NextStarts, NextDown, NextPrev, NextFirst
<1>3. Inv => FirstApplyUndone
  BY DEF FirstInv, FirstApplyUndone, Quiet, Taken, Procs
<1> QED
  BY <1>1, <1>2, <1>3, PTL DEF Spec

-----------------------------------------------------------------------------
(***************************************************************************)
(* Rollback.                                                               *)
(***************************************************************************)
\* Where a rollback can promise the table: the kernel takes what it is given,
\* and panic mode does not empty it in between.
RollbackObeyed ==
  /\ Benign /\ ~PanicPossible
  /\ Faults \cap {"refused", "reset", "delete"} = {}

\* What the rollback wrote is there until apply returns, and was built with the
\* configuration recorded before.
RewriteInv ==
  /\ pc["apply"] \in {"rewritten", "rewritefailed"} =>
       /\ table = IF EverConfigured(cycle.prev) THEN [rules |-> cycle.prev, cfg |-> cycle.opts] ELSE NoTable
       /\ EverConfigured(cycle.prev) /\ cycle.before # NoConfig => cycle.opts = cycle.before
  /\ pc["apply"] # "rewritetear"
  /\ cli = "idle"

\* Without the console and the CLI there is no panic mode.
LEMMA NoPanic ==
  ASSUME ~PanicPossible, StartInv
  PROVE  ~panic /\ console = "idle" /\ "panicread" \notin Faults /\ "clipanic" \notin Events
BY Zenon DEF StartInv, PanicInv, PanicPossible

\* RewriteInv is inductive: rollback writes what it goes back to, and nobody takes
\* it away before apply returns.
LEMMA NextRewrites ==
  ASSUME RollbackObeyed, StructInv, StartInv, RewriteInv, [Next]_vars PROVE RewriteInv'
<1>a. /\ ~panic /\ console = "idle" /\ cli = "idle" /\ "panicread" \notin Faults /\ "clipanic" \notin Events
      /\ Torn => table' = NoTable
  BY NoPanic DEF RollbackObeyed, RewriteInv, Torn
<1>b. \A rules, config : Swapped(rules, config) => table' = [rules |-> rules, cfg |-> config]
  BY Zenon DEF RollbackObeyed, Swapped
<1>c. ASSUME cli' = "idle", pc'["apply"] # "rewritetear",
             \/ pc'["apply"] \notin {"rewritten", "rewritefailed"}
             \/ /\ pc'["apply"] = pc["apply"] /\ loc'["apply"] = loc["apply"]
                /\ table' = table /\ lastApply' = lastApply
      PROVE  RewriteInv'
  BY <1>c DEF RewriteInv, cycle, EverConfigured
<1>1. CASE ApplySteps
  <2>1. pc'["apply"] # "rewritetear" /\ UNCHANGED cli
    BY <1>a, <1>1, ApplyEffects, Zenon DEF RewriteInv, ApplyEffect, ApplyFlow, ApplyLooks
  <2>2. ASSUME pc'["apply"] \in {"rewritten", "rewritefailed"}
        PROVE  /\ pc["apply"] = "rewrite" /\ lastApply' = lastApply /\ loc'["apply"].prev = cycle.prev
               /\ loc'["apply"].before = cycle.before
               /\ EverConfigured(cycle.prev) => loc'["apply"].opts = Recorded(cycle.before)
               /\ table' = IF EverConfigured(cycle.prev)
                           THEN [rules |-> cycle.prev, cfg |-> loc'["apply"].opts] ELSE NoTable
    BY <1>a, <1>b, <1>1, <2>2, ApplyEffects, Zenon
       DEF ApplyEffect, ApplyFlow, ApplyKeeps, ApplyRecords, ApplyTable, cycle
  <2>3. ASSUME pc'["apply"] \in {"rewritten", "rewritefailed"}
        PROVE  /\ table' = IF EverConfigured(cycle.prev)' THEN [rules |-> cycle'.prev, cfg |-> cycle'.opts] ELSE NoTable
               /\ EverConfigured(cycle.prev)' /\ cycle'.before # NoConfig => cycle'.opts = cycle'.before
    <3>1. /\ cycle'.prev = cycle.prev /\ cycle'.before = cycle.before
          /\ cycle'.opts = loc'["apply"].opts /\ lastApply' = lastApply
      BY <2>2, <2>3 DEF cycle
    <3>2. EverConfigured(cycle.prev)' = EverConfigured(cycle.prev)
      BY <3>1 DEF EverConfigured
    <3> QED
      BY <2>2, <2>3, <3>1, <3>2 DEF Recorded
  <2> QED
    BY <1>a, <2>1, <2>3 DEF RewriteInv, cycle, EverConfigured
<1>2. ASSUME NEW r \in Restorers, RestoreSteps(r) PROVE RewriteInv'
  <2>1. pc'["apply"] = pc["apply"] /\ loc'["apply"] = loc["apply"]
    BY <1>2, RestoreFrame, Zenon
  <2>2. lastApply' = lastApply /\ cli' = cli
    BY <1>2, RestoreEffects, Zenon DEF RestoreEffect
  <2>3. table' = table \/ pc["apply"] = "idle"
    BY <1>2, RestoreAlone, Zenon
  <2> QED
    BY <1>a, <1>c, <2>1, <2>2, <2>3, Zenon DEF RewriteInv
<1>3. CASE Bystanders \/ UNCHANGED vars
  <2>1. BystanderEffect
    BY <1>3, BystanderEffects, Zenon
  <2>2. UNCHANGED <<pc, loc, lastApply, table, cli>>
    BY <1>a, <2>1, Zenon DEF BystanderEffect, ConsoleEffect, CliEffect
  <2> QED
    BY <1>a, <1>c, <2>2, Zenon DEF RewriteInv
<1>4. CASE Starts
  <2>1. daemon = "down" => pc["apply"] = "idle"
    BY Zenon DEF StructInv, LifeInv, Procs
  <2>2. /\ UNCHANGED <<table, cli>> /\ loc'["apply"] = loc["apply"]
        /\ pc'["apply"] = pc["apply"] \/ pc'["apply"] = "check"
        /\ lastApply' = lastApply \/ daemon = "down"
    BY <1>4, StartsFrame, Zenon
  <2> QED
    BY <1>a, <1>c, <2>1, <2>2, Zenon DEF RewriteInv
<1>5. CASE ExitDaemon \/ Kill \/ PowerCut
  <2>1. pc'["apply"] = "idle" /\ cli' = "idle"
    BY <1>a, <1>5, EndsFrame, Zenon DEF Procs
  <2> QED
    BY <1>c, <2>1
<1> QED
  BY <1>1, <1>2, <1>3, <1>4, <1>5, StepKinds, Zenon

\* A step in which a rollback ends leaves what RewriteInv and PrevInv say.
LEMMA RollbackEnds ==
  ASSUME RollbackObeyed, StructInv, StartInv, PrevInv, RewriteInv, [Next]_vars PROVE RollbackStep
<1> SUFFICES ASSUME pc["apply"] \in {"decide", "rewritten", "rewritefailed", "rewritetear"},
                    pc'["apply"] = "idle", daemon' # "down"
             PROVE  /\ current' = cycle.prev /\ marker' = NoMarker
                    /\ table' \in IF EverConfigured(cycle.prev)
                                  THEN [rules : {cycle.prev},
                                        cfg : IF cycle.before = NoConfig THEN Configs ELSE {cycle.before}]
                                  ELSE {NoTable}
  BY DEF RollbackStep
<1>1. ~panic /\ "panicread" \notin Faults
  BY NoPanic DEF RollbackObeyed
<1>2. ApplySteps
  <2>1. CASE \E r \in Restorers : RestoreSteps(r)
    BY <2>1, RestoreFrame, Zenon
  <2>2. CASE Bystanders \/ UNCHANGED vars
    BY <2>2, BystanderEffects DEF BystanderEffect
  <2>3. CASE Starts
    BY <2>3, StartsFrame, Zenon
  <2>4. CASE ExitDaemon \/ Kill \/ PowerCut
    BY <2>4, EndsFrame
  <2> QED
    BY <2>1, <2>2, <2>3, <2>4, StepKinds
<1>3. pc["apply"] \in {"rewritten", "rewritefailed"} /\ UNCHANGED <<current, marker, table>>
  BY <1>1, <1>2, ApplyEffects, Zenon DEF ApplyEffect, ApplyLooks, ApplyFiles, ApplyTable, RewriteInv
<1>4. cycle.opts \in Configs
  BY <1>3 DEF StructInv, OptsInv, ApplyLabels, cycle
<1>5. current' = cycle.prev /\ marker' = NoMarker
  BY <1>3, Zenon DEF PrevInv, Unwinding
<1>6. CASE ~EverConfigured(cycle.prev)
  BY <1>3, <1>5, <1>6, Zenon DEF RewriteInv
<1>7. CASE EverConfigured(cycle.prev)
  <2>1. table' = [rules |-> cycle.prev, cfg |-> cycle.opts]
    BY <1>3, <1>7, Zenon DEF RewriteInv
  <2>2. cycle.before # NoConfig => cycle.opts = cycle.before
    BY <1>3, <1>7, Zenon DEF RewriteInv
  <2>3. cycle.opts \in IF cycle.before = NoConfig THEN Configs ELSE {cycle.before}
    BY <1>4, <2>2, Zenon
  <2> QED
    BY <1>5, <1>7, <2>1, <2>3
<1> QED
  BY <1>6, <1>7, Zenon

\* RollbackRestores: an apply that ends without confirmation leaves the rule set
\* it found, in the file and in the kernel, with the configuration recorded
\* before, and no table where there was no rule set (rollback).
THEOREM RollbackRestores == ASSUME RollbackObeyed PROVE Spec => [][RollbackStep]_vars
<1> DEFINE Inv == StructInv /\ StartInv /\ PrevInv /\ RewriteInv
<1>0. Benign
  BY Zenon DEF RollbackObeyed
<1>1. Init => Inv
  <2> SUFFICES ASSUME Init PROVE Inv
    BY Zenon
  <2>1. pc["apply"] = "idle" /\ cli = "idle"
    BY DEF Init, Procs
  <2> QED
    BY <2>1, InitStruct, InitStart DEF PrevInv, Provisional, Trial, Unwinding, RewriteInv
<1>2. Inv /\ [Next]_vars => Inv'
  BY <1>0, NextStruct, NextStarts, NextPrev, NextRewrites
<1>3. Inv /\ [Next]_vars => RollbackStep
  BY RollbackEnds
<1> QED
  BY <1>1, <1>2, <1>3, PTL DEF Spec
==============================================================================
