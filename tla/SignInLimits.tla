----------------------------- MODULE SignInLimits -----------------------------
(***************************************************************************)
(* What bounds sign-in attempts and what tells the operator of them: the   *)
(* login limiter's token buckets, swept every minute and bounded in        *)
(* number, and the burst notification's windows, evicted only when their   *)
(* table is full.  Both are kept by the limiter's key, under which the     *)
(* addresses of one IPv6 /64 are one client.  Tokens are counted in the    *)
(* fraction a tick returns.                                                *)
(***************************************************************************)
EXTENDS Integers, Sequences, FiniteSets, SequencesExt

CONSTANTS
  Client,         \* addresses
  LimiterKey,     \* limiterKey: an address to its bucket
  LoginBudget,
  Refill,         \* loginBudgetRefill, in ticks
  LoginIdle,      \* the 15 minutes of sweepLoginBuckets
  MaxBuckets,     \* loginMaxBuckets
  BurstThreshold, BurstWindow, BurstQuiet, BurstMaxAddrs,
  LimitBounds     \* bounds of the runs: attempts and ticks

ASSUME SignInLimitsAssumption ==
  /\ {LoginBudget, Refill, MaxBuckets, BurstThreshold, BurstMaxAddrs} \subseteq Nat \ {0}
  /\ {LoginIdle, BurstWindow, BurstQuiet} \subseteq Nat /\ LoginIdle >= Refill
  /\ LimitBounds \subseteq [attempts : Nat, ticks : Nat]

VARIABLES
  moment,
  limiter,   \* key to tokens and when it was last seen
  bursts,    \* key to count, when opened and when fired, or Never
  left,      \* what the run may still do
  allowed,   \* history: key to the moments it was let in
  failures,  \* history: key to the moments it failed or was refused
  notified   \* history: key to the moments it was notified of

limitVars == <<moment, limiter, bursts, left, allowed, failures, notified>>

Key64 == {LimiterKey[c] : c \in Client}
Never == -1
Full == LoginBudget * Refill
Set(f, k, v) == [x \in DOMAIN f \cup {k} |-> IF x = k THEN v ELSE f[x]]

LimitsInit ==
  /\ moment = 0 /\ limiter = [k \in {} |-> 0] /\ bursts = [k \in {} |-> 0] /\ left \in LimitBounds
  /\ allowed = [k \in Key64 |-> <<>>] /\ failures = [k \in Key64 |-> <<>>] /\ notified = [k \in Key64 |-> <<>>]

\* rate.Limiter: a token comes back every Refill ticks, up to the budget.
Tokens(b) == IF b.tokens + (moment - b.at) > Full THEN Full ELSE b.tokens + (moment - b.at)

\* LoginRateLimit: the bucket after a request, and whether it was let in.
Limited(k) ==
  IF k \notin DOMAIN limiter /\ Cardinality(DOMAIN limiter) >= MaxBuckets
  THEN [in |-> FALSE, limiter |-> limiter]
  ELSE LET has == IF k \in DOMAIN limiter THEN Tokens(limiter[k]) ELSE Full
           in == has >= Refill
       IN [in |-> in,
           limiter |-> Set(limiter, k, [tokens |-> IF in THEN has - Refill ELSE has, at |-> moment])]

\* Faulty: a bucket that lets somebody in is swept.
BugLimitsNobody(b) == Tokens(b) >= Refill

\* sweepLoginBuckets drops the buckets that limit nobody.
LimitsNobody(b) == moment - b.at > LoginIdle \/ Tokens(b) >= Full

SweepBuckets ==
  /\ limiter' = [k \in {x \in DOMAIN limiter : ~LimitsNobody(limiter[x])} |-> limiter[k]]
  /\ UNCHANGED <<moment, bursts, left, allowed, failures, notified>>

\* Faulty: a bucket is dead once its window is over, its quiet time or not.
BugDeadAt(b) == moment - b.opened > BurstWindow

\* burstBucket.deadAt.
DeadAt(b) == IF b.firedAt # Never THEN moment - b.firedAt >= BurstQuiet
             ELSE moment - b.opened > BurstWindow

NewBurst == [count |-> 0, opened |-> moment, firedAt |-> Never]

\* A bucket whose quiet time or window is over starts again.
Reopened(b) == IF b.firedAt # Never \/ moment - b.opened > BurstWindow THEN NewBurst ELSE b

\* loginBurst.record: the table after a failure of k, and whether it fires.
Burst(k) ==
  LET known == k \in DOMAIN bursts
      table == IF known \/ Cardinality(DOMAIN bursts) < BurstMaxAddrs THEN bursts
               ELSE [x \in {y \in DOMAIN bursts : ~DeadAt(bursts[y])} |-> bursts[x]]
      b == IF known THEN bursts[k] ELSE NewBurst
      quiet == b.firedAt # Never /\ moment - b.firedAt < BurstQuiet
      n == Reopened(b)
      fires == n.count + 1 >= BurstThreshold
  IN IF ~known /\ Cardinality(DOMAIN table) >= BurstMaxAddrs THEN [table |-> table, fires |-> FALSE]
     ELSE IF quiet THEN [table |-> bursts, fires |-> FALSE]
     ELSE [table |-> Set(table, k, [n EXCEPT !.count = @ + 1, !.firedAt = IF fires THEN moment ELSE Never]),
           fires |-> fires]

Fail(k) ==
  LET r == Burst(k)
  IN /\ bursts' = r.table /\ failures' = [failures EXCEPT ![k] = Append(@, moment)]
     /\ notified' = IF r.fires THEN [notified EXCEPT ![k] = Append(@, moment)] ELSE notified

\* A sign-in: refused by the limiter, or let in and then right or wrong.
Attempt(c, right) ==
  LET k == LimiterKey[c]
      r == Limited(k)
  IN /\ left.attempts > 0 /\ left' = [left EXCEPT !.attempts = @ - 1] /\ limiter' = r.limiter
     /\ allowed' = (IF r.in THEN [allowed EXCEPT ![k] = Append(@, moment)] ELSE allowed)
     /\ \/ r.in /\ right /\ UNCHANGED <<bursts, failures, notified>>
        \/ ~(r.in /\ right) /\ Fail(k)
     /\ UNCHANGED moment

Minute ==
  /\ left.ticks > 0 /\ left' = [left EXCEPT !.ticks = @ - 1] /\ moment' = moment + 1
  /\ UNCHANGED <<limiter, bursts, allowed, failures, notified>>

LimitsNext ==
  \/ SweepBuckets \/ Minute \/ \E c \in Client, right \in BOOLEAN : Attempt(c, right)

LimitsSpec == LimitsInit /\ [][LimitsNext]_limitVars

-----------------------------------------------------------------------------
\* NoWindowHoldsMore: no ten minutes let a client in more often than the budget,
\* however the sweep and the refill fall and whichever address of its /64 it
\* uses (LoginRateLimit, sweepLoginBuckets).
NoWindowHoldsMore ==
  \A k \in Key64 : LET s == allowed[k] IN
    \A i \in 1..Len(s) : i + LoginBudget <= Len(s) => s[i + LoginBudget] - s[i] >= Refill

\* NoticesEarned: a notification stands for a threshold of failures of that
\* client inside the window, and one client's notifications are the quiet time
\* apart, also when the table was full and evicted in between (record,
\* evictDeadLocked).
NoticesEarned ==
  \A k \in Key64 : \A i \in DOMAIN notified[k] :
    /\ Len(SelectSeq(failures[k], LAMBDA t :
             notified[k][i] - BurstWindow <= t /\ t <= notified[k][i])) >= BurstThreshold
    /\ i > 1 => notified[k][i] - notified[k][i - 1] >= BurstQuiet
=============================================================================
