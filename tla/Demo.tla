-------------------------------- MODULE Demo --------------------------------
(***************************************************************************)
(* The core of the public demo (web.demoState): the commands of the core   *)
(* answered from memory, with an acceptance window made of a timer whose   *)
(* callback takes the same lock as every command, and a goroutine that     *)
(* takes the "accepted" away again two seconds later.                      *)
(*                                                                         *)
(* A rule set and a configuration are numbers.  A window is known by the   *)
(* number of the apply that opened it.  The seeded contents, the feeds and *)
(* the packet log are read-only and left out.                              *)
(***************************************************************************)
EXTENDS Naturals, FiniteSets, Sequences, SequencesExt

CONSTANTS
    DemoSets,       \* rule sets and configurations a visitor may save
    DemoAuditCap,   \* 200
    DemoBounds      \* a bound: how many applies, saves and panics

ASSUME DemoAssumption == DemoAuditCap \in Nat

VARIABLES
    demo,       \* rules, configuration, panic mode and the window (demoState)
    timer,      \* the window acceptanceTimer is armed for, 0 when it is nil
    armed,      \* timers that will still fire: they are on no one's list once replaced
    fired,      \* callbacks waiting for the lock
    resets,     \* goroutines in delayedReset
    log,        \* the audit log, newest first
    spare       \* what is left of DemoBounds

demoVars == <<demo, timer, armed, fired, resets, log, spare>>

Use(what) == spare[what] > 0 /\ spare' = [spare EXCEPT ![what] = @ - 1]

\* auditAs: newest first, the oldest cut off.
Audited(l, entries) ==
    LET all == entries \o l IN SubSeq(all, 1, IF Len(all) > DemoAuditCap THEN DemoAuditCap ELSE Len(all))
Entry(action, n) == [action |-> action, apply |-> n]

SaveRules(s) ==
    /\ Use("saves")
    /\ demo' = [demo EXCEPT !.staged = s]
    /\ log' = Audited(log, <<Entry("rules_saved", 0)>>)
    /\ UNCHANGED <<timer, armed, fired, resets>>

SaveOptions(c) ==
    /\ Use("saves")
    /\ demo' = [demo EXCEPT !.config = c]
    /\ log' = Audited(log, <<Entry("options_saved", 0)>>)
    /\ UNCHANGED <<timer, armed, fired, resets>>

SaveSystem(on) ==
    /\ Use("saves")
    /\ demo' = [demo EXCEPT !.enabled = on]
    /\ log' = Audited(log, <<Entry("system_saved", 0)>>)
    /\ UNCHANGED <<timer, armed, fired, resets>>

\* Stop on a timer: it will not fire, unless its callback is waiting already.
Stopped == armed \ {timer}

\* The apply goes through, with a window or without one.
ApplyRules ==
    /\ ~demo.panic /\ demo.acceptance # "pending"
    /\ Use("applies")
    /\ LET n == demo.applies + 1
           new == [demo EXCEPT !.backup = demo.current, !.current = demo.staged,
                               !.applied = demo.config, !.applies = n]
       IN  IF demo.enabled
           THEN /\ demo' = [new EXCEPT !.acceptance = "pending"]
                /\ timer' = n /\ armed' = Stopped \cup {n}
                /\ log' = Audited(log, <<Entry("apply_started", n)>>)
                /\ UNCHANGED resets
           ELSE /\ demo' = [new EXCEPT !.acceptance = "accepted"]
                /\ timer' = 0 /\ armed' = Stopped
                /\ log' = Audited(log, <<Entry("apply_accepted", n), Entry("apply_started", n)>>)
                /\ resets' = resets + 1
    /\ UNCHANGED fired

ApplyRefused ==
    /\ demo.panic \/ demo.acceptance = "pending"
    /\ UNCHANGED demoVars

DemoAccept ==
    /\ demo.acceptance = "pending"
    /\ demo' = [demo EXCEPT !.acceptance = "accepted"]
    /\ timer' = 0 /\ armed' = Stopped
    /\ log' = Audited(log, <<Entry("apply_accepted", demo.applies)>>)
    /\ resets' = resets + 1
    /\ UNCHANGED <<fired, spare>>

RollbackWithDetail(detail) ==
    /\ demo' = [demo EXCEPT !.current = demo.backup, !.applied = demo.config,
                            !.acceptance = "rolled_back", !.reason = detail]
    /\ log' = Audited(log, <<Entry("apply_rolledback", demo.applies)>>)
    /\ timer' = 0
    /\ UNCHANGED resets

CancelAcceptance ==
    /\ demo.acceptance = "pending"
    /\ armed' = Stopped
    /\ RollbackWithDetail("cancelled by operator")
    /\ UNCHANGED <<fired, spare>>

\* The timer goes off: its callback runs on a goroutine of its own.
Fire(n) == n \in armed /\ armed' = armed \ {n} /\ fired' = fired \cup {n}
           /\ UNCHANGED <<demo, timer, resets, log, spare>>

\* Mutant: the callback does not look whether a window is open.
BugExpire(n) == RollbackWithDetail("timeout")

\* rollback, once it has the lock.
DemoExpire(n) ==
    IF demo.acceptance = "pending" THEN RollbackWithDetail("timeout")
    ELSE UNCHANGED <<demo, timer, resets, log>>

Callback(n) == n \in fired /\ fired' = fired \ {n} /\ DemoExpire(n) /\ UNCHANGED <<armed, spare>>

DelayedReset ==
    /\ resets > 0 /\ resets' = resets - 1
    /\ demo' = [demo EXCEPT !.acceptance = IF @ = "accepted" THEN "idle" ELSE @]
    /\ UNCHANGED <<timer, armed, fired, log, spare>>

Panic(on) ==
    /\ Use("panics")
    /\ demo' = [demo EXCEPT !.panic = on]
    /\ log' = Audited(log, <<Entry(IF on THEN "panic_engaged" ELSE "panic_resumed", 0)>>)
    /\ UNCHANGED <<timer, armed, fired, resets>>

DemoInit ==
    /\ demo = [current |-> 0, staged |-> 0, backup |-> 0, config |-> 0, applied |-> 0, panic |-> FALSE,
               enabled |-> TRUE, acceptance |-> "idle", reason |-> "", applies |-> 0]
    /\ timer = 0 /\ armed = {} /\ fired = {} /\ resets = 0 /\ log = <<>>
    /\ spare \in DemoBounds

DemoNext ==
    \/ \E s \in DemoSets : SaveRules(s) \/ SaveOptions(s)
    \/ \E on \in BOOLEAN : SaveSystem(on) \/ Panic(on)
    \/ ApplyRules \/ ApplyRefused \/ DemoAccept \/ CancelAcceptance
    \/ \E n \in armed : Fire(n)
    \/ \E n \in fired : Callback(n)
    \/ DelayedReset

DemoSpec == DemoInit /\ [][DemoNext]_demoVars

-----------------------------------------------------------------------------

\* One apply, one outcome: the audit log a visitor reads never says of one
\* apply that it was accepted and rolled back, or either of them twice,
\* whatever a late timer, a confirmation and a cancel do to one another.
OneOutcome ==
    \A i, j \in DOMAIN log :
        i # j /\ {log[i].action, log[j].action} \subseteq {"apply_accepted", "apply_rolledback"} =>
            log[i].apply # log[j].apply
=============================================================================
