--------------------------- MODULE FirewallProofs ---------------------------
(***************************************************************************)
(* Firewall's structure, proved for every set of rules and configurations, *)
(* every fault and every event: types, and that the apply slot excludes.   *)
(***************************************************************************)
EXTENDS Firewall, TLAPS

\* apply and RestoreCurrent stay in their own code.
LabelInv ==
  /\ pc["apply"] \in ApplyLabels \cup {"idle"}
  /\ pc["boot"] \in RestoreLabels \cup {"idle"}
  /\ pc["resume"] \in RestoreLabels \cup {"idle"}
  /\ pc["bridge"] \in RestoreLabels \cup {"idle", "armed"}

\* Whoever writes a table has chosen the configuration it is built with.
OptsInv ==
  /\ pc["apply"] \in ApplyLabels \ {"check", "backup", "mark"} =>
       loc["apply"].opts \in Configs
  /\ \A r \in Restorers : pc[r] \in {"write", "writefailed", "wrote"} =>
       loc[r].opts \in Configs

\* A window is open only while an apply that asked for one is between Start and
\* the end of Wait.
WindowInv ==
  Pending => /\ pc["apply"] \in {"kernel", "failed", "written", "landtear", "wait"}
             /\ loc["apply"].on

\* A new goroutine is started only where the one before it has ended.
LifeInv ==
  /\ daemon = "down" => \A p \in Procs : pc[p] = "idle"
  /\ daemon = "boot" => pc["bridge"] = "idle"
  /\ daemon \in {"down", "boot"} => console = "idle" /\ ~request
  /\ pc["resume"] # "idle" => console = "restore"

StructInv == TypeOK /\ SlotExclusion /\ LabelInv /\ OptsInv /\ WindowInv /\ LifeInv

\* The locals of a goroutine, before it sets any.
LEMMA NoLocalType == NoLocal \in Locals
BY ConstantsAssumption DEF NoLocal, Locals, Snapshots

\* The installations considered satisfy the invariant.
LEMMA InitStruct == Init => StructInv
<1> SUFFICES ASSUME Init PROVE StructInv
  OBVIOUS
<1>1. TypeOK
  <2>2. pc \in [Procs -> Labels] /\ loc \in [Procs -> Locals]
    BY NoLocalType DEF Init, Procs, Labels
  <2>3. acc \in AcceptanceType
    BY DEF Init, AccInit, AcceptanceType, WindowStatus, WindowReasons, CancelReasons
  <2>4. current \in Rules /\ applied \in Snapshots /\ lastFile \in BOOLEAN
        /\ okRules \subseteq Rules /\ live \in Configs /\ window \in BOOLEAN
    BY ConstantsAssumption, Zenon DEF Init, Fresh, Running, Upgraded, Snapshots
  <2> QED
    BY <2>2, <2>3, <2>4, Zenon DEF Init, TypeOK, Tables
<1>2. \A p \in Procs : pc[p] = "idle"
  BY DEF Init
<1>3. SlotExclusion /\ LabelInv /\ OptsInv /\ WindowInv /\ LifeInv
  BY <1>2 DEF Init, SlotExclusion, Holds, LabelInv, OptsInv, WindowInv, LifeInv, Procs,
              Restorers, ApplyLabels, RestoreLabels, AccInit, Pending
<1> QED
  BY <1>1, <1>3 DEF StructInv

\* How apply moves: it stays in its code with the slot, or returns and gives it back.
ApplyMove ==
  /\ pc["apply"] \in ApplyLabels
  /\ \/ \E l \in ApplyLabels : Goto("apply", l) /\ applying' = applying
     \/ Goto("apply", "idle") /\ applying' = FALSE
  /\ daemon' = daemon /\ request' = request /\ console' = console

\* Every step of the apply goroutine moves along the order of Firewall.apply.
LEMMA ApplyMoves == ApplySteps => ApplyMove
<1> SUFFICES ASSUME ApplySteps PROVE ApplyMove
  OBVIOUS
<1> USE DEF ApplyMove, ApplyLabels, Goto, Leave, EndApply, memory
<1>1. CASE ApplyCheck
  BY <1>1, Zenon DEF ApplyCheck
<1>2. CASE ApplyBackup
  BY <1>2 DEF ApplyBackup, BackupCurrent
<1>3. CASE ApplyMark
  BY <1>3 DEF ApplyMark, MarkUnconfirmed
<1>4. CASE ApplyPromote
  BY <1>4 DEF ApplyPromote, PromoteStaged
<1>5. CASE ApplyReread
  BY <1>5 DEF ApplyReread
<1>6. CASE ApplyKernel
  BY <1>6, Zenon DEF ApplyKernel
<1>7. CASE ApplyFailed
  BY <1>7, Zenon DEF ApplyFailed
<1>8. CASE ApplyFailTear
  BY <1>8 DEF ApplyFailTear, TearDown
<1>9. CASE ApplyWritten
  BY <1>9 DEF ApplyWritten
<1>10. CASE ApplyLandTear
  BY <1>10 DEF ApplyLandTear, TearDown
<1>11. CASE ApplyWait
  BY <1>11, Zenon DEF ApplyWait
<1>12. CASE ApplyConfirm
  BY <1>12 DEF ApplyConfirm
<1>13. CASE ApplyFinal
  BY <1>13 DEF ApplyFinal, SetLastApply
<1>14. CASE ApplyRevert
  BY <1>14 DEF ApplyRevert, RollbackRules
<1>15. CASE ApplyUnmark
  BY <1>15 DEF ApplyUnmark
<1>16. CASE ApplyDecide
  BY <1>16 DEF ApplyDecide
<1>17. CASE ApplyRewrite
  BY <1>17, Zenon DEF ApplyRewrite
<1>18. CASE ApplyRewritten
  BY <1>18 DEF ApplyRewritten
<1>19. CASE ApplyRewriteTear
  BY <1>19 DEF ApplyRewriteTear, TearDown
<1> QED
  BY Zenon, <1>1, <1>2, <1>3, <1>4, <1>5, <1>6, <1>7, <1>8, <1>9, <1>10, <1>11, <1>12, <1>13, <1>14,
     <1>15, <1>16, <1>17, <1>18, <1>19 DEF ApplySteps

\* An apply step keeps the slot, the labels and the window in step: the window is
\* open only between Start and the end of Wait.
LEMMA ApplyControl ==
  StructInv /\ ApplyMove =>
    (pc \in [Procs -> Labels] /\ applying \in BOOLEAN /\ LabelInv /\ SlotExclusion /\ LifeInv)'
<1> SUFFICES ASSUME StructInv, ApplyMove
             PROVE (pc \in [Procs -> Labels] /\ applying \in BOOLEAN /\ LabelInv /\ SlotExclusion /\ LifeInv)'
  OBVIOUS
<1>0. pc \in [Procs -> Labels] /\ applying \in BOOLEAN /\ LabelInv /\ SlotExclusion /\ LifeInv
  BY DEF StructInv, TypeOK
<1> USE <1>0 DEF ApplyMove, Goto, Procs, Labels, ApplyLabels, RestoreLabels
<1>1. (pc \in [Procs -> Labels])' /\ \A p \in Procs \ {"apply"} : pc'[p] = pc[p]
  OBVIOUS
<1>2. LabelInv' /\ LifeInv'
  BY <1>1 DEF LabelInv, LifeInv
<1>3. SlotExclusion'
  BY <1>1 DEF SlotExclusion, Holds
<1>4. applying' \in BOOLEAN
  BY Zenon
<1> QED
  BY <1>1, <1>2, <1>3, <1>4

\* A window that opens leaves a typed controller.
LEMMA StartTyped == acc \in AcceptanceType /\ WindowStart => acc' \in AcceptanceType
  BY Zenon DEF AcceptanceType, WindowStart, WindowStatus, WindowReasons, CancelReasons

\* An apply step keeps the goroutine's locals and the acceptance controller typed.
LEMMA ApplyTypes == StructInv /\ ApplySteps => loc' \in [Procs -> Locals] /\ acc' \in AcceptanceType
<1> SUFFICES ASSUME StructInv, ApplySteps
             PROVE loc' \in [Procs -> Locals] /\ acc' \in AcceptanceType
  BY Zenon
<1> USE NoLocalType DEF StructInv, TypeOK, AcceptanceType, WindowStatus, disk, memory, Procs,
        Leave, EndApply, cycle,
        Pending, WindowStart, WindowReset, WindowConclude, WindowReasons, CancelReasons,
        Locals, Snapshots, SnapshotReads, Recorded
<1>1. CASE ApplyCheck
  <2>1. CASE EndApply("apply")
    BY <1>1, <2>1 DEF ApplyCheck
  <2>2. CASE loc' = [loc EXCEPT !["apply"].prev = current]
    BY <1>1, <2>2 DEF ApplyCheck
  <2> QED
    BY <1>1, <2>1, <2>2, Zenon DEF ApplyCheck
<1>2. CASE ApplyBackup
  BY <1>2 DEF ApplyBackup, BackupCurrent
<1>3. CASE ApplyMark
  BY <1>3 DEF ApplyMark, MarkUnconfirmed
<1>4. CASE ApplyPromote
  BY <1>4 DEF ApplyPromote, PromoteStaged
<1>5. CASE ApplyReread
  <2>1. CASE EndApply("apply") /\ UNCHANGED acc
    BY <1>5, <2>1 DEF ApplyReread
  <2>2. CASE loc' = [loc EXCEPT !["apply"].new = current]
    <3>1. loc' \in [Procs -> Locals]
      BY <2>2
    <3>2. WindowStart \/ UNCHANGED acc
      BY <1>5 DEF ApplyReread
    <3>3. acc' \in AcceptanceType
      <4> HIDE DEF WindowStart, AcceptanceType
      <4> QED
        BY <3>2, StartTyped, Zenon
    <3> QED
      BY <3>1, <3>3
  <2> QED
    BY <1>5, <2>1, <2>2 DEF ApplyReread
<1>6. CASE ApplyKernel
  BY <1>6 DEF ApplyKernel
<1>7. CASE ApplyFailed
  BY <1>7, Zenon DEF ApplyFailed
<1>8. CASE ApplyFailTear
  BY <1>8, Zenon DEF ApplyFailTear, TearDown
<1>9. CASE ApplyWritten
  BY <1>9 DEF ApplyWritten
<1>10. CASE ApplyLandTear
  BY <1>10 DEF ApplyLandTear, TearDown
<1>11. CASE ApplyWait
  BY <1>11, Zenon DEF ApplyWait
<1>12. CASE ApplyConfirm
  BY <1>12, Zenon DEF ApplyConfirm
<1>13. CASE ApplyFinal
  BY <1>13, Zenon DEF ApplyFinal, SetLastApply
<1>14. CASE ApplyRevert
  BY <1>14, Zenon DEF ApplyRevert, RollbackRules
<1>15. CASE ApplyUnmark
  BY <1>15, Zenon DEF ApplyUnmark
<1>16. CASE ApplyDecide
  BY <1>16 DEF ApplyDecide
<1>17. CASE ApplyRewrite
  BY <1>17 DEF ApplyRewrite
<1>18. CASE ApplyRewritten
  BY <1>18 DEF ApplyRewritten
<1>19. CASE ApplyRewriteTear
  BY <1>19, Zenon DEF ApplyRewriteTear, TearDown
<1> QED
  BY Zenon, <1>1, <1>2, <1>3, <1>4, <1>5, <1>6, <1>7, <1>8, <1>9, <1>10, <1>11, <1>12, <1>13, <1>14,
     <1>15, <1>16, <1>17, <1>18, <1>19 DEF ApplySteps

\* Every step of apply preserves it.
LEMMA ApplyStruct == StructInv /\ ApplySteps => StructInv'
<1> SUFFICES ASSUME StructInv, ApplySteps PROVE StructInv'
  OBVIOUS
<1>a. (pc \in [Procs -> Labels] /\ applying \in BOOLEAN /\ LabelInv /\ SlotExclusion /\ LifeInv)'
  BY ApplyMoves, ApplyControl
<1>b. (loc \in [Procs -> Locals] /\ acc \in AcceptanceType)'
  BY ApplyTypes
<1>c. /\ (current \in Rules /\ staged \in Rules /\ backup \in Rules)'
      /\ (marker \in Snapshots \cup {NoMarker} /\ applied \in Snapshots)'
      /\ (panic \in BOOLEAN /\ lastFile \in BOOLEAN /\ lastApply \in BOOLEAN)'
      /\ (table \in Tables /\ okRules \subseteq Rules /\ okConfigs \subseteq Configs)'
      /\ UNCHANGED <<live, window, daemon, request, console, cli>>
  <2>0. TypeOK /\ cycle.prev \in Rules /\ cycle.new \in Rules /\ cycle.before \in Snapshots
    BY Zenon DEF StructInv, TypeOK, cycle, Locals, Procs
  <2>a. pc["apply"] \in ApplyLabels \ {"check", "backup", "mark"} => cycle.opts \in Configs
    BY Zenon DEF StructInv, OptsInv, cycle
  <2>b. Configs \subseteq Snapshots /\ Rules # {} /\ NoTable \in Tables
        /\ \A rules \in Rules, config \in Configs : [rules |-> rules, cfg |-> config] \in Tables
    BY ConstantsAssumption, Zenon DEF Snapshots, Tables
  <2>c. \A snapshot \in Snapshots : /\ Recorded(snapshot) \in Configs
                                    /\ Fallback(snapshot) \subseteq Configs
    BY <2>0, Zenon DEF TypeOK, Recorded, Fallback, Snapshots
  <2>d. \A read \in SnapshotReads(applied) : read \in Snapshots
    BY <2>0 DEF TypeOK, SnapshotReads, Snapshots
  <2> USE <2>0, <2>a, <2>b DEF TypeOK, ApplyLabels, disk, memory, ghost, ClearUnconfirmed,
          RecordApplied, KernelApply, KernelReset
  <2>1. CASE ApplyCheck
    BY <2>1, Zenon DEF ApplyCheck
  <2>2. CASE ApplyBackup
    BY <2>2 DEF ApplyBackup, BackupCurrent
  <2>3. CASE ApplyMark
    BY <2>3, <2>d, Zenon DEF ApplyMark, MarkUnconfirmed
  <2>4. CASE ApplyPromote
    BY <2>4 DEF ApplyPromote, PromoteStaged
  <2>5. CASE ApplyReread
    BY <2>5, Zenon DEF ApplyReread
  <2>6. CASE ApplyKernel
    BY <2>6, Zenon DEF ApplyKernel
  <2>7. CASE ApplyFailed
    BY <2>7, Zenon DEF ApplyFailed
  <2>8. CASE ApplyFailTear
    BY <2>8, Zenon DEF ApplyFailTear, TearDown
  <2>9. CASE ApplyWritten
    BY <2>9, Zenon DEF ApplyWritten
  <2>10. CASE ApplyLandTear
    BY <2>10, Zenon DEF ApplyLandTear, TearDown
  <2>11. CASE ApplyWait
    BY <2>11, Zenon DEF ApplyWait
  <2>12. CASE ApplyConfirm
    BY <2>12, Zenon DEF ApplyConfirm
  <2>13. CASE ApplyFinal
    BY <2>13, Zenon DEF ApplyFinal, SetLastApply
  <2>14. CASE ApplyRevert
    BY <2>14, Zenon DEF ApplyRevert, RollbackRules
  <2>15. CASE ApplyUnmark
    BY <2>15 DEF ApplyUnmark
  <2>16. CASE ApplyDecide
    BY <2>16 DEF ApplyDecide
  <2>17. CASE ApplyRewrite
    BY <2>17, <2>c, Zenon DEF ApplyRewrite
  <2>18. CASE ApplyRewritten
    BY <2>18 DEF ApplyRewritten
  <2>19. CASE ApplyRewriteTear
    BY <2>19, Zenon DEF ApplyRewriteTear, TearDown
  <2> QED
    BY Zenon, <2>1, <2>2, <2>3, <2>4, <2>5, <2>6, <2>7, <2>8, <2>9, <2>10, <2>11, <2>12, <2>13,
       <2>14, <2>15, <2>16, <2>17, <2>18, <2>19 DEF ApplySteps
<1>d. OptsInv' /\ WindowInv'
  <2>0. /\ pc \in [Procs -> Labels] /\ loc \in [Procs -> Locals] /\ acc \in AcceptanceType
        /\ live \in Configs /\ OptsInv /\ WindowInv
    BY DEF StructInv, TypeOK
  <2>a. Recorded(cycle.before) \in Configs
    BY <2>0 DEF Recorded, cycle, Locals, Procs, Snapshots
  <2> USE <2>0
      DEF OptsInv, WindowInv, Pending, ApplyLabels, Procs, Restorers, Goto, Leave, EndApply, cycle,
          WindowStart, WindowReset, WindowConclude, AcceptanceType, Locals
  <2>1. CASE ApplyCheck
    <3>1. CASE EndApply("apply")
      BY <2>1, <3>1 DEF ApplyCheck
    <3>2. CASE loc' = [loc EXCEPT !["apply"].prev = current] /\ Goto("apply", "backup")
      BY <2>1, <3>2 DEF ApplyCheck
    <3> QED
      BY <2>1, <3>1, <3>2, Zenon DEF ApplyCheck
  <2>2. CASE ApplyBackup
    BY <2>2, Zenon DEF ApplyBackup, BackupCurrent
  <2>3. CASE ApplyMark
    BY <2>3 DEF ApplyMark, MarkUnconfirmed
  <2>4. CASE ApplyPromote
    BY <2>4 DEF ApplyPromote, PromoteStaged
  <2>5. CASE ApplyReread
    BY <2>5 DEF ApplyReread
  <2>6. CASE ApplyKernel
    BY <2>6 DEF ApplyKernel
  <2>7. CASE ApplyFailed
    BY <2>7, Zenon DEF ApplyFailed
  <2>8. CASE ApplyFailTear
    BY <2>8, Zenon DEF ApplyFailTear, TearDown
  <2>9. CASE ApplyWritten
    BY <2>9 DEF ApplyWritten
  <2>10. CASE ApplyLandTear
    BY <2>10 DEF ApplyLandTear, TearDown
  <2>11. CASE ApplyWait
    BY <2>11, Zenon DEF ApplyWait
  <2>12. CASE ApplyConfirm
    BY <2>12, Zenon DEF ApplyConfirm
  <2>13. CASE ApplyFinal
    BY <2>13, Zenon DEF ApplyFinal, SetLastApply
  <2>14. CASE ApplyRevert
    BY <2>14, Zenon DEF ApplyRevert, RollbackRules
  <2>15. CASE ApplyUnmark
    BY <2>15, Zenon DEF ApplyUnmark
  <2>16. CASE ApplyDecide
    BY <2>16 DEF ApplyDecide
  <2>17. CASE ApplyRewrite
    BY <2>17, <2>a DEF ApplyRewrite
  <2>18. CASE ApplyRewritten
    BY <2>18 DEF ApplyRewritten
  <2>19. CASE ApplyRewriteTear
    BY <2>19 DEF ApplyRewriteTear, TearDown
  <2> QED
    BY Zenon, <2>1, <2>2, <2>3, <2>4, <2>5, <2>6, <2>7, <2>8, <2>9, <2>10, <2>11, <2>12, <2>13,
       <2>14, <2>15, <2>16, <2>17, <2>18, <2>19 DEF ApplySteps
<1> QED
  BY <1>a, <1>b, <1>c, <1>d DEF StructInv, TypeOK

\* How RestoreCurrent moves: it asks for the slot and may give up, takes it when
\* it is free, and gives it back when it returns.
Inside == RestoreLabels \ {"enter", "slot"}

RestoreMove(r) ==
  /\ \/ pc[r] = "enter" /\ Goto(r, "slot") /\ applying' = applying
     \/ pc[r] \in {"enter", "slot"} /\ Goto(r, "idle") /\ applying' = applying
     \/ pc[r] = "slot" /\ ~applying /\ Goto(r, "recheck") /\ applying' = TRUE
     \/ pc[r] \in Inside /\ applying' = applying /\ \E l \in Inside : Goto(r, l)
     \/ pc[r] \in Inside /\ applying' = FALSE /\ Goto(r, "idle")
  /\ daemon' = daemon /\ request' = request
  /\ console' = console \/ (r = "resume" /\ Goto(r, "idle"))

\* Every step of a restore moves along the order of RestoreCurrent.
LEMMA RestoreMoves == ASSUME NEW r \in Restorers, RestoreSteps(r) PROVE RestoreMove(r)
<1> USE DEF RestoreMove, Inside, RestoreLabels, Goto, Leave, EndApply, Return, memory
<1>1. CASE RestoreEnter(r)
  BY <1>1, Zenon DEF RestoreEnter
<1>2. CASE RestoreSlot(r)
  BY <1>2, Zenon DEF RestoreSlot, BeginApply
<1>3. CASE RestoreRecheck(r)
  BY <1>3 DEF RestoreRecheck
<1>4. CASE RestoreUndo(r)
  BY <1>4, Zenon DEF RestoreUndo, RollbackRules
<1>5. CASE RestoreUndone(r)
  BY <1>5, Zenon DEF RestoreUndone
<1>6. CASE RestoreLoad(r)
  BY <1>6 DEF RestoreLoad
<1>7. CASE RestoreWrite(r)
  BY <1>7, Zenon DEF RestoreWrite
<1>8. CASE RestoreWriteFailed(r)
  BY <1>8 DEF RestoreWriteFailed
<1>9. CASE RestoreWrote(r)
  BY <1>9, Zenon DEF RestoreWrote
<1>10. CASE RestoreTear(r)
  BY <1>10, Zenon DEF RestoreTear, TearDown
<1> QED
  BY <1>1, <1>2, <1>3, <1>4, <1>5, <1>6, <1>7, <1>8, <1>9, <1>10, Zenon DEF RestoreSteps

\* A restore takes the slot only when it is free and is the one to give it back.
LEMMA RestoreControl ==
  ASSUME NEW r \in Restorers, StructInv, RestoreMove(r)
  PROVE (pc \in [Procs -> Labels] /\ applying \in BOOLEAN /\ LabelInv /\ SlotExclusion /\ LifeInv)'
<1>0. pc \in [Procs -> Labels] /\ applying \in BOOLEAN /\ LabelInv /\ SlotExclusion /\ LifeInv
  BY Zenon DEF StructInv, TypeOK
<1> USE <1>0 DEF RestoreMove, Inside, Goto, Procs, Restorers, Labels, ApplyLabels, RestoreLabels
<1>1. (pc \in [Procs -> Labels])' /\ \A p \in Procs \ {r} : pc'[p] = pc[p]
  OBVIOUS
<1>2. LabelInv' /\ LifeInv'
  BY <1>1 DEF LabelInv, LifeInv
<1>3. SlotExclusion'
  BY <1>1 DEF SlotExclusion, Holds
<1>4. applying' \in BOOLEAN
  BY Zenon
<1> QED
  BY <1>1, <1>2, <1>3, <1>4

\* What it does to its locals on the way.
Writing == {"write", "writefailed", "wrote"}

RestoreLocal(r) ==
  \/ /\ loc' = loc
     /\ \E l \in Labels : Goto(r, l) /\ (l \in Writing => pc[r] \in Writing)
  \/ Leave(r)
  \/ /\ Goto(r, "undone")
     /\ \E before \in Snapshots : loc' = [loc EXCEPT ![r].before = before, ![r].undone = TRUE]
  \/ /\ Goto(r, "write")
     /\ \E opts \in Configs : loc' = [loc EXCEPT ![r].new = current, ![r].opts = opts]

\* A restore step keeps the locals of every goroutine typed.
LEMMA RestoreLocals ==
  ASSUME NEW r \in Restorers, StructInv, RestoreSteps(r) PROVE RestoreLocal(r)
<1>1. CASE RestoreUndo(r)
  <2>1. \A before \in SnapshotReads(marker) : marker # NoMarker => before \in Snapshots
    BY DEF StructInv, TypeOK, SnapshotReads, Snapshots
  <2>2. "undone" \in Labels /\ "load" \in Labels /\ "undone" \notin Writing /\ "load" \notin Writing
    BY DEF Labels, RestoreLabels, Writing
  <2> QED
    BY <1>1, <2>1, <2>2, Zenon DEF RestoreUndo, RestoreLocal, EndApply
<1>2. CASE RestoreLoad(r)
  <2>1. loc[r].before \in Snapshots /\ \A snapshot \in SnapshotReads(applied) : snapshot \in Snapshots
    BY Zenon DEF StructInv, TypeOK, SnapshotReads, Snapshots, Locals, Procs, Restorers
  <2>2. \A snapshot \in Snapshots : Recorded(snapshot) \in Configs
    BY Zenon DEF StructInv, TypeOK, Recorded, Snapshots
  <2> QED
    BY <1>2, <2>1, <2>2, Zenon DEF RestoreLoad, RestoreLocal, EndApply
<1> USE DEF RestoreLocal, Writing, Goto, EndApply, Labels, RestoreLabels
<1>3. CASE RestoreEnter(r)
  BY <1>3, Zenon DEF RestoreEnter
<1>4. CASE RestoreSlot(r)
  <2>1. Leave(r) \/ (loc' = loc /\ Goto(r, "recheck"))
    BY <1>4, Zenon DEF RestoreSlot
  <2>2. "recheck" \in Labels /\ "recheck" \notin Writing
    OBVIOUS
  <2> QED
    BY <2>1, <2>2
<1>5. CASE RestoreRecheck(r)
  <2>1. EndApply(r) \/ (loc' = loc /\ Goto(r, "undo"))
    BY <1>5, Zenon DEF RestoreRecheck
  <2>2. "undo" \in Labels /\ "undo" \notin Writing
    OBVIOUS
  <2> QED
    BY <2>1, <2>2 DEF RestoreLocal, EndApply
<1>6. CASE RestoreUndone(r)
  <2>1. loc' = loc /\ Goto(r, "load")
    BY <1>6 DEF RestoreUndone
  <2>2. "load" \in Labels /\ "load" \notin Writing
    OBVIOUS
  <2> QED
    BY <2>1, <2>2, Zenon
<1>7. CASE RestoreWrite(r)
  BY <1>7, Zenon DEF RestoreWrite
<1>8. CASE RestoreWriteFailed(r)
  BY <1>8, Zenon DEF RestoreWriteFailed
<1>9. CASE RestoreWrote(r)
  BY <1>9, Zenon DEF RestoreWrote
<1>10. CASE RestoreTear(r)
  BY <1>10 DEF RestoreTear, TearDown
<1> QED
  BY <1>1, <1>2, <1>3, <1>4, <1>5, <1>6, <1>7, <1>8, <1>9, <1>10, Zenon DEF RestoreSteps

\* A restore step keeps the disk, the kernel and the controller typed.
LEMMA RestoreTypes ==
  ASSUME NEW r \in Restorers, StructInv, RestoreSteps(r)
  PROVE (loc \in [Procs -> Locals] /\ acc \in AcceptanceType /\ OptsInv /\ WindowInv)'
<1>1. RestoreLocal(r)
  BY RestoreLocals
<1>2. r \in Procs /\ r # "apply"
  BY Zenon DEF Procs, Restorers
<1>3. loc' \in [Procs -> Locals] /\ \A p \in Procs \ {r} : loc'[p] = loc[p] /\ pc'[p] = pc[p]
  <2> USE <1>2 DEF StructInv, TypeOK
  <2>1. CASE loc' = loc /\ \E l \in Labels : Goto(r, l) /\ (l \in Writing => pc[r] \in Writing)
    BY <2>1, Zenon DEF Goto
  <2>2. CASE Leave(r)
    BY <2>2, NoLocalType, Zenon DEF Leave, Goto
  <2>3. CASE /\ Goto(r, "undone")
             /\ \E before \in Snapshots : loc' = [loc EXCEPT ![r].before = before, ![r].undone = TRUE]
    <3>1. PICK before \in Snapshots : loc' = [loc EXCEPT ![r].before = before, ![r].undone = TRUE]
      BY <2>3, Zenon
    <3>2. [loc[r] EXCEPT !.before = before, !.undone = TRUE] \in Locals
      BY Zenon DEF Locals
    <3> QED
      BY <2>3, <3>1, <3>2, Zenon DEF Goto
  <2>4. CASE /\ Goto(r, "write")
             /\ \E opts \in Configs : loc' = [loc EXCEPT ![r].new = current, ![r].opts = opts]
    <3>1. PICK opts \in Configs : loc' = [loc EXCEPT ![r].new = current, ![r].opts = opts]
      BY <2>4, Zenon
    <3>2. [loc[r] EXCEPT !.new = current, !.opts = opts] \in Locals
      BY Zenon DEF Locals, Snapshots
    <3> QED
      BY <2>4, <3>1, <3>2, Zenon DEF Goto
  <2> QED
    BY <1>1, <2>1, <2>2, <2>3, <2>4, Zenon DEF RestoreLocal
<1>4. pc'[r] \in Writing => loc'[r].opts \in Configs
  BY <1>1, <1>2 DEF RestoreLocal, Goto, Leave, Writing, StructInv, TypeOK, OptsInv, Locals
<1>5. OptsInv'
  BY <1>2, <1>3, <1>4, Zenon DEF StructInv, OptsInv, Restorers, Procs, Writing
<1>6. acc' \in AcceptanceType /\ (acc' = acc \/ ~Pending')
  <2>0. acc \in AcceptanceType
    BY Zenon DEF StructInv, TypeOK
  <2> USE <2>0 DEF AcceptanceType, WindowStatus, WindowReasons, CancelReasons,
              Pending, WindowRecordRolledBack
  <2>1. CASE RestoreEnter(r)
    BY <2>1, Zenon DEF RestoreEnter
  <2>2. CASE RestoreSlot(r)
    BY <2>2, Zenon DEF RestoreSlot, BeginApply
  <2>3. CASE RestoreRecheck(r)
    BY <2>3 DEF RestoreRecheck
  <2>4. CASE RestoreUndo(r)
    BY <2>4 DEF RestoreUndo, RollbackRules
  <2>5. CASE RestoreUndone(r)
    BY <2>5, Zenon DEF RestoreUndone
  <2>6. CASE RestoreLoad(r)
    BY <2>6 DEF RestoreLoad
  <2>7. CASE RestoreWrite(r)
    BY <2>7, Zenon DEF RestoreWrite
  <2>8. CASE RestoreWriteFailed(r)
    BY <2>8, Zenon DEF RestoreWriteFailed
  <2>9. CASE RestoreWrote(r)
    BY <2>9, Zenon DEF RestoreWrote
  <2>10. CASE RestoreTear(r)
    BY <2>10, Zenon DEF RestoreTear, TearDown
  <2> QED
    BY <2>1, <2>2, <2>3, <2>4, <2>5, <2>6, <2>7, <2>8, <2>9, <2>10 DEF RestoreSteps
<1>7. WindowInv'
  BY <1>2, <1>3, <1>6, Zenon DEF StructInv, WindowInv, Pending, Procs
<1> QED
  BY <1>3, <1>5, <1>6, <1>7, Zenon

\* Every step of a restore preserves it.
LEMMA RestoreStruct == ASSUME NEW r \in Restorers, StructInv, RestoreSteps(r) PROVE StructInv'
<1>a. (pc \in [Procs -> Labels] /\ applying \in BOOLEAN /\ LabelInv /\ SlotExclusion /\ LifeInv)'
  BY RestoreMoves, RestoreControl
<1>b. (loc \in [Procs -> Locals] /\ acc \in AcceptanceType /\ OptsInv /\ WindowInv)'
  BY RestoreTypes
<1>c. /\ (current \in Rules /\ staged \in Rules /\ backup \in Rules)'
      /\ (marker \in Snapshots \cup {NoMarker} /\ applied \in Snapshots)'
      /\ (table \in Tables /\ okRules \subseteq Rules /\ okConfigs \subseteq Configs)'
      /\ UNCHANGED <<panic, lastFile, lastApply, live, window, daemon, request, cli>>
  <2>0. TypeOK /\ loc[r].new \in Rules
    BY Zenon DEF StructInv, TypeOK, Locals, Procs, Restorers
  <2>a. pc[r] \in {"write", "writefailed", "wrote"} => loc[r].opts \in Configs
    BY Zenon DEF StructInv, OptsInv
  <2>b. Configs \subseteq Snapshots /\ NoTable \in Tables
        /\ \A rules \in Rules, config \in Configs : [rules |-> rules, cfg |-> config] \in Tables
    BY Zenon DEF Snapshots, Tables
  <2>c. \A snapshot : Fallback(snapshot) \subseteq Configs
    BY <2>0 DEF TypeOK, Fallback
  <2> USE <2>0, <2>a, <2>b DEF TypeOK, disk, memory, ghost, ClearUnconfirmed, RecordApplied, KernelApply,
          KernelReset
  <2>1. CASE RestoreEnter(r)
    BY <2>1, Zenon DEF RestoreEnter
  <2>2. CASE RestoreSlot(r)
    BY <2>2, Zenon DEF RestoreSlot, BeginApply
  <2>3. CASE RestoreRecheck(r)
    BY <2>3, Zenon DEF RestoreRecheck
  <2>4. CASE RestoreUndo(r)
    BY <2>4, Zenon DEF RestoreUndo, RollbackRules
  <2>5. CASE RestoreUndone(r)
    BY <2>5, Zenon DEF RestoreUndone
  <2>6. CASE RestoreLoad(r)
    <3>2. okConfigs' = okConfigs \/ \E snapshot : okConfigs' = okConfigs \cup Fallback(snapshot)
      BY <2>6, Zenon DEF RestoreLoad
    <3>3. okConfigs' \subseteq Configs
      BY <2>c, <3>2
    <3> QED
      BY <2>6, <3>3 DEF RestoreLoad
  <2>7. CASE RestoreWrite(r)
    BY <2>7, Zenon DEF RestoreWrite
  <2>8. CASE RestoreWriteFailed(r)
    BY <2>8, Zenon DEF RestoreWriteFailed
  <2>9. CASE RestoreWrote(r)
    <3>1. loc[r].opts \in Configs
      BY <2>9, Zenon DEF RestoreWrote
    <3>2. applied' \in Snapshots
      BY <2>9, <3>1, Zenon DEF RestoreWrote
    <3> QED
      BY <2>9, <3>2, Zenon DEF RestoreWrote
  <2>10. CASE RestoreTear(r)
    BY <2>10, Zenon DEF RestoreTear, TearDown
  <2> QED
    BY <2>1, <2>2, <2>3, <2>4, <2>5, <2>6, <2>7, <2>8, <2>9, <2>10, Zenon DEF RestoreSteps
<1>d. console' \in {"restored", "nothing", "error", console}
  <2> USE DEF memory, Return
  <2>1. CASE RestoreEnter(r)
    BY <2>1, Zenon DEF RestoreEnter
  <2>2. CASE RestoreSlot(r)
    BY <2>2, Zenon DEF RestoreSlot, BeginApply
  <2>3. CASE RestoreRecheck(r)
    BY <2>3 DEF RestoreRecheck
  <2>4. CASE RestoreUndo(r)
    BY <2>4, Zenon DEF RestoreUndo, RollbackRules
  <2>5. CASE RestoreUndone(r)
    BY <2>5 DEF RestoreUndone
  <2>6. CASE RestoreLoad(r)
    BY <2>6, Zenon DEF RestoreLoad
  <2>7. CASE RestoreWrite(r)
    BY <2>7, Zenon DEF RestoreWrite
  <2>8. CASE RestoreWriteFailed(r)
    BY <2>8, Zenon DEF RestoreWriteFailed
  <2>9. CASE RestoreWrote(r)
    BY <2>9, Zenon DEF RestoreWrote
  <2>10. CASE RestoreTear(r)
    BY <2>10 DEF RestoreTear, TearDown
  <2> QED
    BY <2>1, <2>2, <2>3, <2>4, <2>5, <2>6, <2>7, <2>8, <2>9, <2>10, Zenon DEF RestoreSteps
<1> QED
  BY <1>a, <1>b, <1>c, <1>d DEF StructInv, TypeOK

(***************************************************************************)
(* The other steps.                                                        *)
(***************************************************************************)
\* Requests, the console and the stages of a stop leave every goroutine where it is.
Bystanders ==
  \/ Requests \/ Expire \/ ConsoleCommand
  \/ PanicMark \/ PanicCancel \/ PanicReset \/ ResumeClear \/ ResumeReply
  \/ CliPanic \/ CliTear \/ CliResume
  \/ StopDaemon \/ ShutdownLatch \/ ShutdownCancel

\* The requests, the console, the CLI, the clock and Stop move no goroutine that
\* writes the table, so they keep StructInv.
LEMMA BystanderStruct == StructInv /\ Bystanders => StructInv'
<1> SUFFICES ASSUME StructInv, Bystanders PROVE StructInv'
  OBVIOUS
<1>a. UNCHANGED <<pc, loc, applying>>
  BY Zenon DEF Bystanders, Requests, memory, SaveRules, SaveOptions, SaveSystem, ReceiveApply,
     Accept, CancelAcceptance, Expire, ConsoleCommand, PanicMark, PanicCancel, PanicReset,
     ResumeClear, ResumeReply, CliPanic, CliTear, CliResume, StopDaemon, ShutdownLatch,
     ShutdownCancel
<1>b. acc' \in AcceptanceType /\ acc'.status = acc.status
  <2>0. acc \in AcceptanceType
    BY Zenon DEF StructInv, TypeOK
  <2> USE <2>0 DEF AcceptanceType, WindowStatus, WindowReasons, CancelReasons,
              WindowAccept, WindowCancel, WindowCancelIfOpen, WindowExpire, WindowLatchStopping
  <2>a. ASSUME NEW why \in CancelReasons, WindowCancelIfOpen(why)
        PROVE  acc' \in AcceptanceType /\ acc'.status = acc.status
    <3>1. CASE Cancellable
      BY ONLY <2>0, <2>a, <3>1, Zenon DEF AcceptanceType, WindowReasons, WindowCancelIfOpen, WindowCancel
    <3>2. CASE ~Cancellable
      BY <2>a, <3>2, Zenon
    <3> QED
      BY <3>1, <3>2, Zenon
  <2>1. CASE SaveRules
    BY <2>1, Zenon DEF SaveRules
  <2>2. CASE SaveOptions
    BY <2>2, Zenon DEF SaveOptions
  <2>3. CASE SaveSystem
    BY <2>3 DEF SaveSystem
  <2>4. CASE ReceiveApply
    BY <2>4 DEF ReceiveApply
  <2>5. CASE Accept
    BY <2>5, Zenon DEF Accept
  <2>6. CASE CancelAcceptance
    BY <2>6, Zenon DEF CancelAcceptance
  <2>7. CASE Expire
    BY <2>7, Zenon DEF Expire
  <2>8. CASE ConsoleCommand
    BY <2>8, Zenon DEF ConsoleCommand
  <2>9. CASE PanicMark
    BY <2>9, Zenon DEF PanicMark, EngagePanic
  <2>10. CASE PanicCancel
    <3>1. "panic" \in CancelReasons /\ WindowCancelIfOpen("panic")
      BY ONLY <2>10, Zenon DEF PanicCancel, CancelReasons
    <3> QED
      BY ONLY <2>a, <3>1, Zenon
  <2>11. CASE PanicReset
    BY <2>11, Zenon DEF PanicReset, TearDown
  <2>12. CASE ResumeClear
    BY <2>12, Zenon DEF ResumeClear, ClearPanic
  <2>13. CASE ResumeReply
    BY <2>13 DEF ResumeReply
  <2>14. CASE CliPanic
    BY <2>14, Zenon DEF CliPanic, EngagePanic
  <2>15. CASE CliTear
    BY <2>15 DEF CliTear, TearDown
  <2>16. CASE CliResume
    BY <2>16, Zenon DEF CliResume, ClearPanic
  <2>17. CASE StopDaemon
    BY <2>17 DEF StopDaemon
  <2>18. CASE ShutdownLatch
    BY <2>18, Zenon DEF ShutdownLatch
  <2>19. CASE ShutdownCancel
    <3>1. "stopped" \in CancelReasons /\ WindowCancelIfOpen("stopped")
      BY ONLY <2>19, Zenon DEF ShutdownCancel, CancelReasons
    <3> QED
      BY ONLY <2>a, <3>1, Zenon
  <2> QED
    BY Zenon, <2>1, <2>2, <2>3, <2>4, <2>5, <2>6, <2>7, <2>8, <2>9, <2>10, <2>11, <2>12, <2>13,
       <2>14, <2>15, <2>16, <2>17, <2>18, <2>19 DEF Bystanders, Requests
<1>c. TypeOK'
  <2>0. TypeOK /\ NoTable \in Tables
    BY DEF StructInv, Tables
  <2>1. ~Accept => UNCHANGED <<current, backup, marker, applied, lastFile, ghost>>
    BY Zenon DEF disk, memory, Bystanders, Requests, SaveRules, SaveOptions, SaveSystem, ReceiveApply,
       CancelAcceptance, Expire, ConsoleCommand, PanicMark, PanicCancel, PanicReset, ResumeClear,
       ResumeReply, CliPanic, CliTear, CliResume, StopDaemon, ShutdownLatch, ShutdownCancel
  <2>2. CASE Accept
    <3>1. okRules' \subseteq Rules
      BY <2>0, <2>2, Zenon DEF Accept, TypeOK
    <3>2. cycle.opts \in Configs
      BY <2>2, Zenon DEF Accept, cycle, WindowAccept, Acceptable, StructInv, WindowInv, OptsInv, ApplyLabels
    <3>3. okConfigs' \subseteq Configs
      BY <2>0, <2>2, <3>2 DEF Accept, TypeOK
    <3> QED
      BY <1>a, <1>b, <2>0, <2>2, <3>1, <3>3 DEF Accept, TypeOK, disk, memory
  <2>3. CASE ~Accept
    <3> USE <2>0, <2>3 DEF TypeOK, disk, memory, Bystanders, Requests, SaveRules, SaveOptions, SaveSystem,
            ReceiveApply, CancelAcceptance, Expire, ConsoleCommand, PanicMark, PanicCancel, PanicReset,
            ResumeClear, ResumeReply, CliPanic, CliTear, CliResume, StopDaemon, ShutdownLatch, ShutdownCancel
    <3>1. staged' \in Rules
      BY Zenon
    <3>2. panic' \in BOOLEAN
      BY Zenon DEF EngagePanic, ClearPanic
    <3>3. table' \in Tables
      BY Zenon DEF TearDown, KernelReset
    <3>4. live' \in Configs
      BY Zenon
    <3>5. window' \in BOOLEAN
      BY ConstantsAssumption, Zenon
    <3>10. lastApply' \in BOOLEAN
      BY Zenon
    <3>6. daemon' \in {"down", "boot", "up", "closing", "latched", "draining"}
      BY Zenon
    <3>7. request' \in BOOLEAN
      BY Zenon
    <3>8. console' \in {"idle", "mark", "cancel", "reset", "clear", "state", "restore", "restored",
                        "nothing", "error"}
      BY Zenon
    <3>9. cli' \in {"idle", "tear"}
      BY Zenon
    <3> HIDE DEF Bystanders
    <3> QED
      BY <1>a, <1>b, <2>1, <3>1, <3>2, <3>3, <3>4, <3>5, <3>6, <3>7, <3>8, <3>9, <3>10 DEF ghost
  <2> QED
    BY <2>2, <2>3
<1>d. LifeInv'
  <2> USE <1>a DEF StructInv, LifeInv, memory, Serving
  <2>1. CASE SaveRules
    BY <2>1, Zenon DEF SaveRules
  <2>2. CASE SaveOptions
    BY <2>2, Zenon DEF SaveOptions
  <2>3. CASE SaveSystem
    BY <2>3, Zenon DEF SaveSystem
  <2>4. CASE ReceiveApply
    BY <2>4, Zenon DEF ReceiveApply
  <2>5. CASE Accept
    BY <2>5, Zenon DEF Accept
  <2>6. CASE CancelAcceptance
    BY <2>6, Zenon DEF CancelAcceptance
  <2>7. CASE Expire
    BY <2>7, Zenon DEF Expire
  <2>8. CASE ConsoleCommand
    BY <2>8, Zenon DEF ConsoleCommand
  <2>9. CASE PanicMark
    BY <2>9, Zenon DEF PanicMark, EngagePanic
  <2>10. CASE PanicCancel
    BY <2>10, Zenon DEF PanicCancel
  <2>11. CASE PanicReset
    BY <2>11, Zenon DEF PanicReset, TearDown
  <2>12. CASE ResumeClear
    BY <2>12, Zenon DEF ResumeClear, ClearPanic
  <2>13. CASE ResumeReply
    BY <2>13, Zenon DEF ResumeReply
  <2>14. CASE CliPanic
    BY <2>14, Zenon DEF CliPanic, EngagePanic
  <2>15. CASE CliTear
    BY <2>15, Zenon DEF CliTear, TearDown
  <2>16. CASE CliResume
    BY <2>16, Zenon DEF CliResume, ClearPanic
  <2>17. CASE StopDaemon
    BY <2>17, Zenon DEF StopDaemon
  <2>18. CASE ShutdownLatch
    BY <2>18, Zenon DEF ShutdownLatch
  <2>19. CASE ShutdownCancel
    BY <2>19, Zenon DEF ShutdownCancel
  <2> QED
    BY Zenon, <2>1, <2>2, <2>3, <2>4, <2>5, <2>6, <2>7, <2>8, <2>9, <2>10, <2>11, <2>12, <2>13,
       <2>14, <2>15, <2>16, <2>17, <2>18, <2>19 DEF Bystanders, Requests
<1> QED
  BY <1>a, <1>b, <1>c, <1>d, Zenon DEF StructInv, SlotExclusion, LabelInv, OptsInv, WindowInv, Holds, Pending

\* A goroutine starts where there is none: apply with the slot it was given, a
\* restore before it asks for it.
Starts == DispatchApply \/ ResumeState \/ StartDaemon \/ Listen \/ Reconcile

Start(p) ==
  /\ pc[p] \in {"idle", "armed"}
  /\ \/ p = "apply" /\ ~applying /\ applying' = TRUE /\ Goto(p, "check")
     \/ p # "apply" /\ applying' = applying /\ (Goto(p, "enter") \/ Goto(p, "idle"))
     \/ p = "bridge" /\ applying' = applying /\ Goto(p, "armed")

\* Dispatching an apply, booting, resuming or reconciling starts one idle
\* goroutine at its first label.
LEMMA StartMoves ==
  StructInv /\ Starts => (\E p \in Procs : Start(p)) \/ UNCHANGED <<pc, applying>>
<1> SUFFICES ASSUME StructInv, Starts
             PROVE (\E p \in Procs : Start(p)) \/ UNCHANGED <<pc, applying>>
  BY Zenon
<1>1. CASE DispatchApply
  <2>1. CASE UNCHANGED <<applying, pc>>
    BY <2>1
  <2>2. CASE ~applying /\ applying' = TRUE /\ Goto("apply", "check")
    <3>1. pc["apply"] = "idle"
      BY <2>2 DEF StructInv, SlotExclusion, Holds, LabelInv, ApplyLabels, Procs
    <3> QED
      BY <2>2, <3>1, Zenon DEF Start, Procs
  <2> QED
    BY <1>1, <2>1, <2>2, Zenon DEF DispatchApply, BeginApply
<1>2. CASE ResumeState
  BY <1>2, Zenon DEF ResumeState, Start, Procs, StructInv, LifeInv
<1>3. CASE StartDaemon
  BY <1>3, Zenon DEF StartDaemon, Start, Procs, StructInv, LifeInv
<1>4. CASE Listen
  BY <1>4, Zenon DEF Listen, Start, Procs, StructInv, LifeInv
<1>5. CASE Reconcile
  BY <1>5, Zenon DEF Reconcile, Start, Procs, memory
<1> QED
  BY <1>1, <1>2, <1>3, <1>4, <1>5 DEF Starts

\* A goroutine that starts holds the slot only if it is the apply that took it.
LEMMA StartControl ==
  ASSUME NEW p \in Procs, StructInv, Start(p)
  PROVE (pc \in [Procs -> Labels] /\ applying \in BOOLEAN /\ LabelInv /\ SlotExclusion)'
<1>0. pc \in [Procs -> Labels] /\ applying \in BOOLEAN /\ LabelInv /\ SlotExclusion
  BY Zenon DEF StructInv, TypeOK
<1> USE <1>0 DEF Start, Goto, Procs, Labels, ApplyLabels, RestoreLabels
<1>1. (pc \in [Procs -> Labels])' /\ \A q \in Procs \ {p} : pc'[q] = pc[q]
  OBVIOUS
<1>2. LabelInv'
  BY <1>1 DEF LabelInv
<1>3. SlotExclusion'
  BY <1>1 DEF SlotExclusion, Holds
<1>4. applying' \in BOOLEAN
  BY Zenon
<1> QED
  BY <1>1, <1>2, <1>3, <1>4

\* Starting a goroutine keeps StructInv.
LEMMA StartStruct == StructInv /\ Starts => StructInv'
<1> SUFFICES ASSUME StructInv, Starts PROVE StructInv'
  OBVIOUS
<1>a. (pc \in [Procs -> Labels] /\ applying \in BOOLEAN /\ LabelInv /\ SlotExclusion)'
  <2>1. CASE \E p \in Procs : Start(p)
    BY <2>1, StartControl
  <2>2. CASE UNCHANGED <<pc, applying>>
    <3>1. (pc \in [Procs -> Labels])' /\ applying' \in BOOLEAN
      BY <2>2, Zenon DEF StructInv, TypeOK
    <3>2. LabelInv'
      BY <2>2, Zenon DEF StructInv, LabelInv
    <3>3. SlotExclusion'
      BY <2>2, Zenon DEF StructInv, SlotExclusion, Holds
    <3> QED
      BY <3>1, <3>2, <3>3, Zenon
  <2> QED
    BY <2>1, <2>2, StartMoves
<1>b. loc' \in [Procs -> Locals] /\ \A p \in Procs \ {"resume"} : loc'[p] = loc[p]
  <2> USE DEF StructInv, TypeOK, memory
  <2>1. CASE ResumeState
    <3>1. PICK configured \in BOOLEAN : loc' = [loc EXCEPT !["resume"].claim = configured]
      BY <2>1, Zenon DEF ResumeState, EverConfigured
    <3>2. [loc["resume"] EXCEPT !.claim = configured] \in Locals
      BY DEF Locals, Procs
    <3> QED
      BY <3>1, <3>2, Zenon
  <2>2. CASE DispatchApply \/ StartDaemon \/ Listen \/ Reconcile
    BY <2>2, Zenon DEF DispatchApply, StartDaemon, Listen, Reconcile
  <2> QED
    BY <2>1, <2>2 DEF Starts
<1>c. /\ UNCHANGED <<disk, table, acc, live, window, cli, ghost>>
      /\ request' \in BOOLEAN /\ lastApply' \in BOOLEAN
      /\ console' \in {console, "restore"} /\ daemon' \in {daemon, "boot", "up"}
  <2> USE DEF StructInv, TypeOK, memory
  <2>1. CASE DispatchApply
    BY <2>1, Zenon DEF DispatchApply, BeginApply
  <2>2. CASE ResumeState
    BY <2>2 DEF ResumeState
  <2>3. CASE StartDaemon
    BY <2>3, Zenon DEF StartDaemon, ReadLastApply
  <2>4. CASE Listen
    BY <2>4 DEF Listen
  <2>5. CASE Reconcile
    BY <2>5 DEF Reconcile
  <2> QED
    BY <2>1, <2>2, <2>3, <2>4, <2>5, Zenon DEF Starts
<1>d. LifeInv'
  <2>0. pc \in [Procs -> Labels] /\ LifeInv
    BY Zenon DEF StructInv, TypeOK
  <2> USE <2>0 DEF LifeInv, Goto, Procs, memory
  <2>1. CASE DispatchApply
    <3>1. daemon \notin {"down", "boot"} /\ daemon' = daemon /\ console' = console
      BY <2>1, Zenon DEF DispatchApply, BeginApply
    <3>2. pc'["resume"] = pc["resume"]
      BY <2>1, Zenon DEF DispatchApply, BeginApply
    <3> QED
      BY <3>1, <3>2, Zenon
  <2>2. CASE ResumeState
    BY <2>2 DEF ResumeState
  <2>3. CASE StartDaemon
    BY <2>3, Zenon DEF StartDaemon, ReadLastApply
  <2>4. CASE Listen
    BY <2>4, Zenon DEF Listen
  <2>5. CASE Reconcile
    BY <2>5, Zenon DEF Reconcile
  <2> QED
    BY <2>1, <2>2, <2>3, <2>4, <2>5, Zenon DEF Starts
<1>e. OptsInv' /\ WindowInv'
  <2>0. pc \in [Procs -> Labels] /\ OptsInv /\ WindowInv
    BY DEF StructInv, TypeOK
  <2> USE <1>b, <1>c, <2>0 DEF OptsInv, WindowInv, Pending, Goto, Procs, Restorers, ApplyLabels, memory
  <2>1. CASE DispatchApply
    <3>1. ~applying => ~Pending
      BY Zenon DEF StructInv, SlotExclusion, Holds
    <3> QED
      BY <2>1, <3>1, Zenon DEF DispatchApply, BeginApply
  <2>2. CASE ResumeState
    BY <2>2 DEF ResumeState
  <2>3. CASE StartDaemon
    BY <2>3, Zenon DEF StartDaemon, ReadLastApply
  <2>4. CASE Listen
    BY <2>4, Zenon DEF Listen
  <2>5. CASE Reconcile
    BY <2>5 DEF Reconcile
  <2> QED
    BY <2>1, <2>2, <2>3, <2>4, <2>5, Zenon DEF Starts
<1>f. TypeOK'
  <2>1. TypeOK
    BY DEF StructInv
  <2> QED
    BY <1>a, <1>b, <1>c, <2>1 DEF TypeOK, disk, ghost
<1> QED
  BY <1>a, <1>d, <1>e, <1>f, Zenon DEF StructInv

\* The end of the process or of the machine leaves no goroutine.
LEMMA EndStruct == StructInv /\ (ExitDaemon \/ Kill \/ PowerCut) => StructInv'
<1> SUFFICES ASSUME StructInv, ExitDaemon \/ Kill \/ PowerCut PROVE StructInv'
  OBVIOUS
<1>1. MemoryLost /\ UNCHANGED <<disk, live, window, ghost>>
  BY Zenon DEF ExitDaemon, Kill, PowerCut
<1>2. table' \in Tables /\ cli' \in {"idle", "tear"}
  BY DEF ExitDaemon, Kill, PowerCut, StructInv, TypeOK, Tables
<1>3. acc' \in AcceptanceType /\ ~Pending'
  BY <1>1, Zenon DEF MemoryLost, AccInit, AcceptanceType, WindowStatus, WindowReasons, CancelReasons,
              Pending
<1>4. (pc \in [Procs -> Labels] /\ loc \in [Procs -> Locals])' /\ \A p \in Procs : pc'[p] = "idle"
  BY <1>1, NoLocalType DEF MemoryLost, Procs, Labels
<1>5. TypeOK'
  BY <1>1, <1>2, <1>3, <1>4, Zenon DEF MemoryLost, StructInv, TypeOK, disk, ghost
<1>6. SlotExclusion'
  BY <1>1, <1>4 DEF MemoryLost, SlotExclusion, Holds
<1>7. LabelInv' /\ OptsInv' /\ WindowInv' /\ LifeInv'
  BY <1>1, <1>3, <1>4, Zenon DEF MemoryLost, LabelInv, OptsInv, WindowInv, LifeInv, Procs, Restorers,
                          ApplyLabels, RestoreLabels
<1> QED
  BY <1>5, <1>6, <1>7 DEF StructInv

\* A stuttering step changes no variable.
LEMMA Stutter ==
  UNCHANGED vars =>
    /\ current' = current /\ staged' = staged /\ backup' = backup /\ marker' = marker
    /\ panic' = panic /\ applied' = applied /\ lastFile' = lastFile /\ table' = table
    /\ acc' = acc /\ live' = live /\ window' = window /\ lastApply' = lastApply
    /\ applying' = applying /\ daemon' = daemon /\ request' = request
    /\ console' = console /\ pc' = pc /\ loc' = loc /\ cli' = cli
    /\ okRules' = okRules /\ okConfigs' = okConfigs
  BY Zenon DEF vars, disk, memory, ghost

\* StructInv is inductive.
LEMMA NextStruct == StructInv /\ [Next]_vars => StructInv'
<1> SUFFICES ASSUME StructInv, [Next]_vars PROVE StructInv'
  OBVIOUS
<1>1. CASE UNCHANGED vars
  <2>0. TypeOK /\ SlotExclusion /\ LabelInv /\ OptsInv /\ WindowInv /\ LifeInv
    BY DEF StructInv
  <2> USE <1>1, <2>0, Stutter
  <2>1. TypeOK'
    BY DEF TypeOK
  <2>2. SlotExclusion' /\ LabelInv'
    BY DEF SlotExclusion, Holds, LabelInv
  <2>3. OptsInv' /\ WindowInv'
    BY Zenon DEF OptsInv, WindowInv, Pending
  <2>4. LifeInv'
    BY DEF LifeInv
  <2> QED
    BY <2>1, <2>2, <2>3, <2>4, Zenon DEF StructInv
<1>2. CASE ApplySteps
  BY <1>2, ApplyStruct
<1>3. CASE \E r \in Restorers : RestoreSteps(r)
  BY <1>3, RestoreStruct
<1>4. CASE Bystanders
  BY <1>4, BystanderStruct
<1>5. CASE Starts
  BY <1>5, StartStruct
<1>6. CASE ExitDaemon \/ Kill \/ PowerCut
  BY <1>6, EndStruct
<1> QED
  BY <1>1, <1>2, <1>3, <1>4, <1>5, <1>6 DEF Next, Bystanders, Starts, ConsoleSteps,
     ShutdownSteps

\* In every behaviour of the core the slot, the labels of the goroutines, the
\* window and the daemon's phase agree, for every set of rules, options and faults.
THEOREM Structure == Spec => []StructInv
<1> QED
  BY InitStruct, NextStruct, PTL DEF Spec

\* The state of the core keeps its types through every step of Firewall,
\* whatever fails and whoever interferes.
THEOREM TypeCorrect == Spec => []TypeOK
<1>1. StructInv => TypeOK
  BY DEF StructInv
<1> QED
  BY <1>1, Structure, PTL

\* The apply slot excludes: beginApply and waitForApplySlot hand it to one
\* goroutine at a time, and it is given back on every path out of apply and
\* RestoreCurrent, for every set of faults and events.
THEOREM SlotExcludes == Spec => []SlotExclusion
<1>1. StructInv => SlotExclusion
  BY DEF StructInv
<1> QED
  BY <1>1, Structure, PTL
=============================================================================
