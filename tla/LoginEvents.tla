----------------------------- MODULE LoginEvents -----------------------------
(***************************************************************************)
(* The core's debouncing of sign-in events in the audit log.  The first    *)
(* event of a kind from an address is a line of its own and opens a        *)
(* bucket; the rest of its window is one line that says how many more      *)
(* there were.  The buckets are bounded: past the bound an event goes to   *)
(* one overflow bucket for its kind.                                       *)
(***************************************************************************)
EXTENDS Integers, FiniteSets, FiniteSetsExt

CONSTANTS
  Event,            \* the debounced kinds
  Addr,
  EventWindow,      \* loginEventWindow
  MaxAddrs,         \* loginEventMaxAddrs
  LastEvent,        \* bound: events recorded
  LastMoment        \* bound: time

ASSUME LoginEventsAssumption ==
  {EventWindow, MaxAddrs, LastEvent, LastMoment} \subseteq Nat

VARIABLES
  moment,
  buckets,   \* one per event and address seen
  overflow,  \* one per event once there are MaxAddrs buckets
  stopped,   \* run has returned
  recorded,  \* history: events reported to the core
  lines,     \* history: the events the audit lines account for
  owed       \* history: the events recorded before the sweep on the way out

eventVars == <<moment, buckets, overflow, stopped, recorded, lines, owed>>

EventsInit ==
  /\ moment = 0 /\ stopped = FALSE /\ recorded = 0 /\ lines = 0 /\ owed = 0
  /\ buckets = [k \in {} |-> 0] /\ overflow = [k \in {} |-> 0]

Put(f, k, v) == [x \in DOMAIN f \cup {k} |-> IF x = k THEN v ELSE f[x]]
Without(f, ks) == [x \in DOMAIN f \ ks |-> f[x]]
Opened == [count |-> 1, opened |-> moment]
Open(b) == moment - b.opened < EventWindow

\* Faulty: the line says how many there were, the first one included.
BugFlushed(b) == IF b.count <= 1 THEN 0 ELSE b.count

\* flushLocked and flushOverflowLocked: "N more", or nothing when there was one.
Flushed(b) == IF b.count <= 1 THEN 0 ELSE b.count - 1

\* record, for an address whose window is over, writes its line first.
Closing(b) == Flushed(b)

\* record, which a connection still in dispatch may call after the sweeper's end.
Record(ev, addr) ==
  LET key == <<ev, addr>>
      old == IF key \in DOMAIN buckets /\ ~Open(buckets[key]) THEN {key} ELSE {}
      rest == Without(buckets, old)
      closing == IF old = {} THEN 0 ELSE Closing(buckets[key])
  IN /\ recorded < LastEvent /\ recorded' = recorded + 1
     /\ \/ /\ key \in DOMAIN rest
           /\ buckets' = [buckets EXCEPT ![key].count = @ + 1]
           /\ UNCHANGED <<overflow, lines>>
        \/ /\ key \notin DOMAIN rest /\ Cardinality(DOMAIN rest) < MaxAddrs
           /\ buckets' = Put(rest, key, Opened) /\ lines' = lines + closing + 1
           /\ UNCHANGED overflow
        \/ /\ key \notin DOMAIN rest /\ Cardinality(DOMAIN rest) >= MaxAddrs
           /\ buckets' = rest
           /\ IF ev \in DOMAIN overflow /\ Open(overflow[ev])
              THEN /\ overflow' = [overflow EXCEPT ![ev].count = @ + 1]
                   /\ lines' = lines + closing
              ELSE /\ overflow' = Put(overflow, ev, Opened)
                   /\ lines' = lines + closing + 1
                               + (IF ev \in DOMAIN overflow THEN Flushed(overflow[ev]) ELSE 0)
     /\ UNCHANGED <<moment, stopped, owed>>

Total(f, ks) == FoldSet(LAMBDA k, n : n + Flushed(f[k]), 0, ks)

\* sweep: every window that is over gets its line and goes.
Sweep(all) ==
  LET b == {k \in DOMAIN buckets : all \/ ~Open(buckets[k])}
      o == {k \in DOMAIN overflow : all \/ ~Open(overflow[k])}
  IN /\ buckets' = Without(buckets, b) /\ overflow' = Without(overflow, o)
     /\ lines' = lines + Total(buckets, b) + Total(overflow, o)

SweepTick ==
  /\ ~stopped /\ Sweep(FALSE)
  /\ UNCHANGED <<moment, stopped, recorded, owed>>

\* The sweep on the way out closes every window.
StopEvents ==
  /\ ~stopped /\ stopped' = TRUE /\ owed' = recorded /\ Sweep(TRUE)
  /\ UNCHANGED <<moment, recorded>>

Later ==
  /\ moment < LastMoment /\ moment' = moment + 1
  /\ UNCHANGED <<buckets, overflow, stopped, recorded, lines, owed>>

EventsNext ==
  \/ SweepTick \/ StopEvents \/ Later \/ \E ev \in Event, addr \in Addr : Record(ev, addr)

-----------------------------------------------------------------------------
\* EveryEventCounted: the audit lines and the open buckets account for every
\* event exactly once, whichever window closed, overflowed or was swept, and
\* once the sweeper has ended the lines alone hold every event recorded before
\* (record, sweep, run).
EveryEventCounted ==
  /\ lines + Total(buckets, DOMAIN buckets) + Total(overflow, DOMAIN overflow) = recorded
  /\ lines >= owed
=============================================================================
