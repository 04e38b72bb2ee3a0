-------------------------------- MODULE Usage --------------------------------
(***************************************************************************)
(* How much each port rule has carried.  The kernel counts in the table,   *)
(* and every write of the rules starts the table's counters again;         *)
(* usage.json keeps totals, and the counter value each total was last      *)
(* brought up to.  A ticker and each write collect, and the write resets   *)
(* the baselines after the kernel has the new table.  Nothing orders the   *)
(* ticker against a write but the locks of the single steps.  The model    *)
(* follows one rule that stays in the rules throughout.                    *)
(***************************************************************************)
EXTENDS Integers

CONSTANT UsageBounds \* bounds of the runs: packets, writes, ticks, failing steps, hand flushes

ASSUME UsageAssumption ==
  UsageBounds \subseteq [packets : Nat, writes : Nat, ticks : Nat, fails : Nat, flushes : Nat]

VARIABLES
  counter,  \* the rule's counter in the kernel
  entry,    \* its entry in usage.json: the total and the baseline
  ticker,   \* CollectUsage on the ticker: idle, or the counter it has read
  write,    \* a write of the rules: where it is, and the counter it has read
  ration,   \* what the run may still do
  carried,  \* history: packets the rule really carried
  crossed   \* history: the ticker and a write overlapped, a step failed or
            \* the table was flushed by hand

usageVars == <<counter, entry, ticker, write, ration, carried, crossed>>

Nothing == [pc |-> "idle", read |-> 0]
Take(what) == ration[what] > 0 /\ ration' = [ration EXCEPT ![what] = @ - 1]

UsageInit ==
  /\ counter = 0 /\ entry = [total |-> 0, kernel |-> 0]
  /\ ticker = Nothing /\ write = Nothing /\ ration \in UsageBounds
  /\ carried = 0 /\ crossed = FALSE

Packet ==
  /\ Take("packets") /\ counter' = counter + 1 /\ carried' = carried + 1
  /\ UNCHANGED <<entry, ticker, write, crossed>>

\* A counter below its baseline has started again.
Delta(read) == IF read >= entry.kernel THEN read - entry.kernel ELSE read

\* UsageStore.Collect books what was read.
Collect(read) ==
  entry' = [total |-> entry.total + Delta(read), kernel |-> read]

\* CollectUsage: RuleCounters under the nft lock, then Collect under the store's.
TickerReads ==
  /\ ticker.pc = "idle" /\ Take("ticks")
  /\ ticker' = [pc |-> "read", read |-> counter]
  /\ crossed' = (crossed \/ write.pc # "idle")
  /\ UNCHANGED <<counter, entry, write, carried>>

TickerCollects ==
  /\ ticker.pc # "idle" /\ Collect(ticker.read) /\ ticker' = Nothing
  /\ UNCHANGED <<counter, write, ration, carried, crossed>>

\* collectUsageBeforeWrite, whose failure is logged and no more.
WriteReads ==
  /\ write.pc = "idle" /\ Take("writes")
  /\ write' = [pc |-> "collect", read |-> counter]
  /\ crossed' = (crossed \/ ticker.pc # "idle")
  /\ UNCHANGED <<counter, entry, ticker, carried>>

WriteCollects ==
  /\ write.pc = "collect" /\ write' = [write EXCEPT !.pc = "apply"]
  /\ \/ Collect(write.read) /\ UNCHANGED <<ration, crossed>>
     \/ Take("fails") /\ crossed' = TRUE /\ UNCHANGED entry
  /\ UNCHANGED <<counter, ticker, carried>>

\* nft.Apply replaces the table; packets since the read are in no counter now.
WriteApplies ==
  /\ write.pc = "apply" /\ write' = [write EXCEPT !.pc = "reset"]
  /\ counter' = 0
  /\ carried' = carried - (counter - write.read)  \* of the packets that can be counted
  /\ UNCHANGED <<entry, ticker, ration, crossed>>

\* Faulty: no reset after the write.
BugReset == UNCHANGED entry

\* ResetBaselines.
Reset == entry' = [entry EXCEPT !.kernel = 0]

WriteResets ==
  /\ write.pc = "reset" /\ write' = Nothing
  /\ \/ Reset /\ UNCHANGED <<ration, crossed>>
     \/ Take("fails") /\ crossed' = TRUE /\ UNCHANGED entry
  /\ UNCHANGED <<counter, ticker, carried>>

\* `nft flush ruleset` by hand: the reconciler's business, and a known loss.
HandFlush ==
  /\ Take("flushes") /\ counter' = 0 /\ crossed' = TRUE
  /\ UNCHANGED <<entry, ticker, write, carried>>

UsageNext ==
  \/ Packet \/ TickerReads \/ TickerCollects \/ WriteReads \/ WriteCollects
  \/ WriteApplies \/ WriteResets \/ HandFlush

UsageSpec == UsageInit /\ [][UsageNext]_usageVars

-----------------------------------------------------------------------------
\* CountsOnce: while the ticker and a write do not overlap and no step fails,
\* every packet that survived to a read is booked once: total and what the
\* counter holds above its baseline add up to the traffic, across any number of
\* writes (Collect, ResetBaselines).
CountsOnce ==
  ~crossed /\ ticker.pc = "idle" /\ write.pc # "reset"
    => entry.total + (counter - entry.kernel) = carried
=============================================================================
