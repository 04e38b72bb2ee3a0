--------------------------- MODULE HistoryProofs ------------------------------
(***************************************************************************)
(* Two properties of a history that grows without bound: the admissions of *)
(* the login limiter and the audit log of the demo. Each has its own       *)
(* variables and its own theorem.                                          *)
(***************************************************************************)
EXTENDS SignInLimits, Demo, SequenceTheorems, TLAPS

-------------------------------------------------------------------------------

\* The login limiter (NoWindowHoldsMore). The sweep forgets buckets, so the
\* buckets alone do not bound the admissions: what does is that an admission
\* less than Refill ago is still in its bucket, which holds at most what is
\* left after it and all that followed.

\* An admission less than Refill ago, what it and those after it cost, and what the
\* client's bucket has now.
Recent(k, i) == moment - allowed[k][i] < Refill
Debt(k, i) == (Len(allowed[k]) - i + 1) * Refill
Balance(k) == limiter[k].tokens + (moment - limiter[k].at)

LimitTypes ==
  /\ moment \in Nat
  /\ \A k \in DOMAIN limiter : /\ limiter[k] = [tokens |-> limiter[k].tokens, at |-> limiter[k].at]
                               /\ limiter[k].tokens \in Int /\ limiter[k].tokens <= Full
                               /\ limiter[k].at \in Nat /\ limiter[k].at <= moment
  /\ allowed \in [Key64 -> Seq(Nat)]
  /\ \A k \in Key64 : \A i \in 1..Len(allowed[k]) : allowed[k][i] <= moment

\* An admission less than Refill ago still weighs on the bucket, with all that came
\* after it: no sweep forgot it, and the bucket holds at most what is left of it.
Weighs(k) ==
  \A i \in 1..Len(allowed[k]) : Recent(k, i) =>
    /\ k \in DOMAIN limiter /\ allowed[k][i] <= limiter[k].at
    /\ Balance(k) <= Full - Debt(k, i) + (moment - allowed[k][i])

LimitInv == LimitTypes /\ NoWindowHoldsMore /\ \A k \in Key64 : Weighs(k)

\* The constants are positive, and so is a full bucket.
LEMMA Constants ==
  /\ LoginBudget \in Nat /\ LoginBudget > 0 /\ Refill \in Nat /\ Refill > 0
  /\ LoginIdle \in Nat /\ LoginIdle >= Refill /\ Full \in Nat
<1>1. /\ LoginBudget \in Nat /\ LoginBudget > 0 /\ Refill \in Nat /\ Refill > 0
      /\ LoginIdle \in Nat /\ LoginIdle >= Refill
  BY SignInLimitsAssumption DEF SignInLimitsAssumption
<1> QED
  BY <1>1 DEF Full

\* Multiplication, for the provers.
LEMMA Multiples == ASSUME NEW a \in Nat, NEW b \in Nat
               PROVE  a * b \in Nat /\ (a + 1) * b = a * b + b /\ (a + 1) * b >= b
OBVIOUS

\* As time passes, and as a token is taken.
LEMMA Older ==
  ASSUME NEW ta \in Int, NEW tl \in Int, NEW td \in Int, NEW tf \in Int, NEW ti \in Int, NEW tm \in Int,
         ta + (tm - tl) <= tf - td + (tm - ti)
  PROVE  ta + ((tm + 1) - tl) <= tf - td + ((tm + 1) - ti)
OBVIOUS

\* A bucket with a recent admission is neither full nor idle.
LEMMA Younger ==
  ASSUME NEW ta \in Int, NEW tl \in Int, NEW td \in Int, NEW tf \in Int, NEW ti \in Int, NEW tm \in Int,
         NEW tr \in Int, ta + (tm - tl) <= tf - td + (tm - ti), td >= tr, tm - ti < tr, ti <= tl
  PROVE  ta + (tm - tl) < tf /\ tm - tl < tr
OBVIOUS

\* Order, for the provers.
LEMMA Through == ASSUME NEW th \in Int, NEW tb \in Int, NEW tc \in Int, th <= tb, tb <= tc PROVE th <= tc
OBVIOUS

\* The facts about one admission that is recent.
LEMMA RecentFacts ==
  ASSUME LimitInv, NEW k \in Key64, NEW i \in 1..Len(allowed[k]), Recent(k, i)
  PROVE  \E a, t, l \in Int, d \in Nat :
           /\ a = allowed[k][i] /\ t = limiter[k].tokens /\ l = limiter[k].at /\ d = Debt(k, i)
           /\ k \in DOMAIN limiter /\ a <= l /\ t + (moment - l) <= Full - d + (moment - a)
           /\ d >= Refill /\ moment - a < Refill /\ l <= moment
<1>1. k \in DOMAIN limiter /\ allowed[k][i] <= limiter[k].at
      /\ Balance(k) <= Full - Debt(k, i) + (moment - allowed[k][i])
  BY DEF LimitInv, Weighs
<1>2. allowed[k] \in Seq(Nat) /\ allowed[k][i] \in Int /\ Len(allowed[k]) \in Nat
  BY DEF LimitInv, LimitTypes
<1>3. limiter[k].tokens \in Int /\ limiter[k].at \in Int /\ limiter[k].at <= moment
  BY <1>1 DEF LimitInv, LimitTypes
<1>4. Debt(k, i) \in Nat /\ Debt(k, i) >= Refill
  <2>1. PICK m \in Nat : Len(allowed[k]) - i = m
    BY <1>2
  <2>2. Debt(k, i) = (m + 1) * Refill /\ m + 1 \in Nat
    BY <2>1 DEF Debt
  <2> QED
    BY <2>2, Multiples, Constants
<1> QED
  BY <1>1, <1>2, <1>3, <1>4, Zenon DEF Balance, Recent

\* At the start nobody was let in.
LEMMA LimitStart == LimitsInit => LimitInv
<1> SUFFICES ASSUME LimitsInit PROVE LimitInv
  OBVIOUS
<1>1. moment = 0 /\ DOMAIN limiter = {} /\ allowed = [k \in Key64 |-> <<>>]
  BY DEF LimitsInit
<1>2. allowed \in [Key64 -> Seq(Nat)] /\ \A k \in Key64 : Len(allowed[k]) = 0
  BY <1>1
<1>3. LimitTypes
  BY <1>1, <1>2 DEF LimitTypes
<1>4. NoWindowHoldsMore /\ \A k \in Key64 : Weighs(k)
  BY <1>2, Constants DEF NoWindowHoldsMore, Weighs
<1> QED
  BY <1>3, <1>4 DEF LimitInv

\* A minute: what was admitted grows older by as much as comes back.
LEMMA MinuteKeeps == ASSUME LimitInv, Minute PROVE LimitInv'
<1>1. moment \in Nat /\ moment' = moment + 1 /\ limiter' = limiter /\ allowed' = allowed
  BY Zenon DEF Minute, LimitInv, LimitTypes
<1>2. LimitTypes'
  BY <1>1 DEF LimitInv, LimitTypes
<1>3. NoWindowHoldsMore'
  BY <1>1 DEF LimitInv, NoWindowHoldsMore
<1>4. ASSUME NEW k \in Key64, NEW i \in 1..Len(allowed'[k]), Recent(k, i)'
      PROVE  /\ k \in DOMAIN limiter' /\ allowed'[k][i] <= limiter'[k].at
             /\ Balance(k)' <= Full - Debt(k, i)' + (moment' - allowed'[k][i])
  <2>1. i \in 1..Len(allowed[k]) /\ allowed[k][i] \in Nat
    BY <1>1 DEF LimitInv, LimitTypes
  <2>2. Recent(k, i) /\ Debt(k, i)' = Debt(k, i) /\ Balance(k)' = limiter[k].tokens + (moment' - limiter[k].at)
    BY <1>1, <1>4, <2>1, Constants DEF Recent, Debt, Balance
  <2>3. PICK a, t, l \in Int, d \in Nat :
           /\ a = allowed[k][i] /\ t = limiter[k].tokens /\ l = limiter[k].at /\ d = Debt(k, i)
           /\ k \in DOMAIN limiter /\ a <= l /\ t + (moment - l) <= Full - d + (moment - a)
           /\ d >= Refill /\ moment - a < Refill /\ l <= moment
    BY <2>1, <2>2, RecentFacts
  <2>4. moment \in Int /\ Full \in Int /\ d \in Int
    BY <1>1, Constants
  <2>5. t + ((moment + 1) - l) <= Full - d + ((moment + 1) - a)
    BY <2>3, <2>4, Older, Zenon
  <2> QED
    BY <1>1, <2>2, <2>3, <2>5, Zenon
<1> QED
  BY <1>2, <1>3, <1>4 DEF LimitInv, Weighs

\* The sweep: a bucket it drops is of a client last let in long ago.
LEMMA SweepKeeps == ASSUME LimitInv, SweepBuckets PROVE LimitInv'
<1>1. /\ moment \in Nat /\ moment' = moment /\ allowed' = allowed
      /\ DOMAIN limiter' = {x \in DOMAIN limiter : ~LimitsNobody(limiter[x])}
      /\ \A k \in DOMAIN limiter' : limiter'[k] = limiter[k]
  BY Zenon DEF SweepBuckets, LimitInv, LimitTypes
<1>2. LimitTypes' /\ NoWindowHoldsMore'
  BY <1>1 DEF LimitInv, LimitTypes, NoWindowHoldsMore
<1>3. ASSUME NEW k \in Key64, NEW i \in 1..Len(allowed[k]), Recent(k, i)
      PROVE  ~LimitsNobody(limiter[k])
  <2>1. PICK a, t, l \in Int, d \in Nat :
           /\ a = allowed[k][i] /\ t = limiter[k].tokens /\ l = limiter[k].at /\ d = Debt(k, i)
           /\ k \in DOMAIN limiter /\ a <= l /\ t + (moment - l) <= Full - d + (moment - a)
           /\ d >= Refill /\ moment - a < Refill /\ l <= moment
    BY <1>3, RecentFacts, Zenon
  <2>2. moment \in Int /\ Full \in Int /\ d \in Int /\ Refill \in Int
    BY <1>1, Constants
  <2>3. t + (moment - l) < Full /\ moment - l < Refill
    BY <2>1, <2>2, Younger, Zenon
  <2>4. ~(t + (moment - l) > Full) /\ ~(t + (moment - l) >= Full) /\ ~(moment - l > LoginIdle)
    BY <2>2, <2>3, Constants
  <2> QED
    BY <2>1, <2>4, Zenon DEF LimitsNobody, Tokens
<1>4. \A k \in Key64 : Weighs(k)'
  BY <1>1, <1>3 DEF LimitInv, Weighs, Recent, Debt, Balance
<1> QED
  BY <1>2, <1>4, Zenon DEF LimitInv

\* What a request finds: no more than the balance.
Held(k) == IF k \in DOMAIN limiter THEN Tokens(limiter[k]) ELSE Full

\* Held is a number, and bounded by the balance of a bucket that is there.
LEMMA HeldFacts ==
  ASSUME LimitInv, NEW k
  PROVE  Held(k) \in Int /\ Held(k) <= Full /\ (k \in DOMAIN limiter => Held(k) <= Balance(k))
<1>1. moment \in Int /\ Full \in Int /\ Full <= Full
  BY Constants DEF LimitInv, LimitTypes
<1>2. CASE k \notin DOMAIN limiter
  BY <1>1, <1>2, Zenon DEF Held
<1>3. CASE k \in DOMAIN limiter
  <2>1. PICK t, l \in Int : t = limiter[k].tokens /\ l = limiter[k].at
    BY <1>3 DEF LimitInv, LimitTypes
  <2>2. LET bal == t + (moment - l) IN
        (IF bal > Full THEN Full ELSE bal) \in Int /\ (IF bal > Full THEN Full ELSE bal) <= Full
        /\ (IF bal > Full THEN Full ELSE bal) <= bal
    BY <1>1
  <2> QED
    BY <1>3, <2>1, <2>2, Zenon DEF Held, Tokens, Balance
<1> QED
  BY <1>2, <1>3, Zenon

\* What an attempt does: nothing when the table is full, and else it spends or it does not.
LEMMA AttemptCases ==
  ASSUME LimitInv, NEW c \in Client, NEW right \in BOOLEAN, Attempt(c, right), NEW k, k = LimiterKey[c]
  PROVE  /\ moment' = moment /\ k \in Key64
         /\ \/ limiter' = limiter /\ allowed' = allowed
            \/ /\ Held(k) >= Refill /\ limiter' = Set(limiter, k, [tokens |-> Held(k) - Refill, at |-> moment])
               /\ allowed' = [allowed EXCEPT ![k] = Append(@, moment)]
            \/ /\ limiter' = Set(limiter, k, [tokens |-> Held(k), at |-> moment])
               /\ allowed' = allowed
<1>1. k \in Key64
  BY Zenon DEF Key64
<1>2. moment' = moment /\ limiter' = Limited(k).limiter
      /\ allowed' = (IF Limited(k).in THEN [allowed EXCEPT ![k] = Append(@, moment)] ELSE allowed)
  BY Zenon DEF Attempt
<1>3. CASE k \notin DOMAIN limiter /\ Cardinality(DOMAIN limiter) >= MaxBuckets
  <2>1. ~Limited(k).in /\ Limited(k).limiter = limiter
    BY <1>3, Zenon DEF Limited
  <2> QED
    BY <1>1, <1>2, <2>1, Zenon
<1>4. CASE ~(k \notin DOMAIN limiter /\ Cardinality(DOMAIN limiter) >= MaxBuckets)
  <2>2. /\ Limited(k).in <=> Held(k) >= Refill
        /\ Limited(k).limiter = Set(limiter, k, [tokens |-> IF Held(k) >= Refill THEN Held(k) - Refill
                                                            ELSE Held(k), at |-> moment])
    BY <1>4, Zenon DEF Limited, Held
  <2>3. CASE Held(k) >= Refill
    BY <1>1, <1>2, <2>2, <2>3, Zenon
  <2>4. CASE ~(Held(k) >= Refill)
    BY <1>1, <1>2, <2>2, <2>4, Zenon
  <2> QED
    BY <2>3, <2>4
<1> QED
  BY <1>3, <1>4

\* The bucket of k after a request, and the buckets of the others.
LEMMA BucketSet ==
  ASSUME LimitInv, NEW k, NEW n \in Int, n <= Full, moment' = moment,
         limiter' = Set(limiter, k, [tokens |-> n, at |-> moment])
  PROVE  /\ DOMAIN limiter' = DOMAIN limiter \cup {k} /\ Balance(k)' = n /\ limiter'[k].at = moment
         /\ \A l \in DOMAIN limiter : l # k => limiter'[l] = limiter[l]
         /\ \A l \in DOMAIN limiter' : /\ limiter'[l] = [tokens |-> limiter'[l].tokens, at |-> limiter'[l].at]
                                       /\ limiter'[l].tokens \in Int /\ limiter'[l].tokens <= Full
                                       /\ limiter'[l].at \in Nat /\ limiter'[l].at <= moment'
<1>1. /\ DOMAIN limiter' = DOMAIN limiter \cup {k} /\ limiter'[k] = [tokens |-> n, at |-> moment]
      /\ \A l \in DOMAIN limiter : l # k => limiter'[l] = limiter[l]
  BY Zenon DEF Set
<1>2. limiter'[k].tokens = n /\ limiter'[k].at = moment
  BY <1>1
<1>3. moment \in Nat /\ moment <= moment /\ n + (moment - moment) = n
  BY DEF LimitInv, LimitTypes
<1>4. Balance(k)' = n
  BY <1>2, <1>3, Zenon DEF Balance
<1>5. \A l \in DOMAIN limiter : /\ limiter[l] = [tokens |-> limiter[l].tokens, at |-> limiter[l].at]
                                /\ limiter[l].tokens \in Int /\ limiter[l].tokens <= Full
                                /\ limiter[l].at \in Nat /\ limiter[l].at <= moment
  BY Zenon DEF LimitInv, LimitTypes
<1> QED
  BY <1>1, <1>2, <1>3, <1>4, <1>5, Zenon

\* An attempt that was turned away: its bucket holds what it held.
LEMMA RefusedKeeps ==
  ASSUME LimitInv, NEW k \in Key64, moment' = moment, allowed' = allowed,
         limiter' = Set(limiter, k, [tokens |-> Held(k), at |-> moment])
  PROVE  LimitInv'
<1>1. Held(k) \in Int /\ Held(k) <= Full /\ (k \in DOMAIN limiter => Held(k) <= Balance(k))
  BY HeldFacts
<1>2. /\ DOMAIN limiter' = DOMAIN limiter \cup {k} /\ Balance(k)' = Held(k) /\ limiter'[k].at = moment
      /\ \A l \in DOMAIN limiter : l # k => limiter'[l] = limiter[l]
      /\ \A l \in DOMAIN limiter' : /\ limiter'[l] = [tokens |-> limiter'[l].tokens, at |-> limiter'[l].at]
                                    /\ limiter'[l].tokens \in Int /\ limiter'[l].tokens <= Full
                                    /\ limiter'[l].at \in Nat /\ limiter'[l].at <= moment'
  BY <1>1, BucketSet, Zenon
<1>3. LimitTypes' /\ NoWindowHoldsMore'
  BY <1>2, Zenon DEF LimitInv, LimitTypes, NoWindowHoldsMore
<1>4. ASSUME NEW l \in Key64, l # k PROVE Weighs(l)'
  <2>1. Weighs(l)
    BY Zenon DEF LimitInv
  <2>2. l \in DOMAIN limiter => Balance(l)' = Balance(l)
    BY <1>2, <1>4, Zenon DEF Balance
  <2> QED
    BY <1>2, <1>4, <2>1, <2>2, Zenon DEF Weighs, Recent, Debt
<1>5. ASSUME NEW i \in 1..Len(allowed[k]), Recent(k, i)
      PROVE  Held(k) <= Full - Debt(k, i) + (moment - allowed[k][i]) /\ allowed[k][i] <= moment
  <2>1. PICK a, t, l \in Int, d \in Nat :
           /\ a = allowed[k][i] /\ t = limiter[k].tokens /\ l = limiter[k].at /\ d = Debt(k, i)
           /\ k \in DOMAIN limiter /\ a <= l /\ t + (moment - l) <= Full - d + (moment - a)
           /\ d >= Refill /\ moment - a < Refill /\ l <= moment
    BY <1>5, RecentFacts, Zenon
  <2>2. moment \in Int /\ Full \in Int /\ Refill \in Int /\ d \in Int
    BY Constants DEF LimitInv, LimitTypes
  <2>3. PICK h \in Int : h = Held(k) /\ h <= t + (moment - l)
    BY <1>1, <2>1, Zenon DEF Balance
  <2>4. t + (moment - l) \in Int /\ Full - d + (moment - a) \in Int
    BY <2>2
  <2>5. h <= Full - d + (moment - a) /\ a <= moment
    BY <2>1, <2>2, <2>3, <2>4, Through, Zenon
  <2> QED
    BY <2>1, <2>3, <2>5, Zenon
<1>6. Weighs(k)'
  BY <1>2, <1>5, Zenon DEF Weighs, Recent, Debt
<1> QED
  BY <1>3, <1>4, <1>6, Zenon DEF LimitInv

\* An attempt that was let in has taken a token, and there was one to take: the
\* admission LoginBudget before it is Refill old.
LEMMA AdmittedKeeps ==
  ASSUME LimitInv, NEW k \in Key64, moment' = moment, Held(k) >= Refill,
         allowed' = [allowed EXCEPT ![k] = Append(@, moment)],
         limiter' = Set(limiter, k, [tokens |-> Held(k) - Refill, at |-> moment])
  PROVE  LimitInv'
<1> DEFINE s == allowed[k]
<1>1. Held(k) \in Int /\ Held(k) <= Full /\ (k \in DOMAIN limiter => Held(k) <= Balance(k))
  BY HeldFacts, Zenon
<1>2. Held(k) - Refill \in Int /\ Held(k) - Refill <= Full
  BY <1>1, Constants
<1>3. /\ DOMAIN limiter' = DOMAIN limiter \cup {k} /\ Balance(k)' = Held(k) - Refill
      /\ limiter'[k].at = moment
      /\ \A l \in DOMAIN limiter : l # k => limiter'[l] = limiter[l]
      /\ \A l \in DOMAIN limiter' : /\ limiter'[l] = [tokens |-> limiter'[l].tokens, at |-> limiter'[l].at]
                                    /\ limiter'[l].tokens \in Int /\ limiter'[l].tokens <= Full
                                    /\ limiter'[l].at \in Nat /\ limiter'[l].at <= moment'
  BY <1>2, BucketSet, Zenon
<1>4. s \in Seq(Nat) /\ Len(s) \in Nat /\ moment \in Nat
  BY DEF LimitInv, LimitTypes
<1>5. /\ allowed' \in [Key64 -> Seq(Nat)] /\ \A l \in Key64 : l # k => allowed'[l] = allowed[l]
      /\ allowed'[k] = Append(s, moment)
  BY <1>4 DEF LimitInv, LimitTypes
<1>6. /\ Len(allowed'[k]) = Len(s) + 1 /\ allowed'[k][Len(s) + 1] = moment
      /\ \A i \in 1..Len(s) : allowed'[k][i] = s[i]
  BY <1>4, <1>5
<1>7. LimitTypes'
  <2>1. \A i \in 1..Len(allowed'[k]) : allowed'[k][i] <= moment
    BY <1>4, <1>6 DEF LimitInv, LimitTypes
  <2> QED
    BY <1>3, <1>4, <1>5, <2>1, Zenon DEF LimitInv, LimitTypes
<1>8. ASSUME NEW i \in 1..Len(s), Recent(k, i)
      PROVE  /\ Held(k) - Refill <= Full - (Debt(k, i) + Refill) + (moment - s[i])
             /\ s[i] <= moment /\ Debt(k, i) < Full
  <2>1. PICK a, t, l \in Int, d \in Nat :
           /\ a = allowed[k][i] /\ t = limiter[k].tokens /\ l = limiter[k].at /\ d = Debt(k, i)
           /\ k \in DOMAIN limiter /\ a <= l /\ t + (moment - l) <= Full - d + (moment - a)
           /\ d >= Refill /\ moment - a < Refill /\ l <= moment
    BY <1>8, RecentFacts
  <2>2. moment \in Int /\ Full \in Int /\ Refill \in Int /\ d \in Int
    BY <1>4, Constants
  <2>3. PICK h \in Int : h = Held(k) /\ h <= t + (moment - l) /\ h >= Refill
    BY <1>1, <2>1, Zenon DEF Balance
  <2>4. t + (moment - l) \in Int /\ Full - d + (moment - a) \in Int
    BY <2>2
  <2>5. h <= Full - d + (moment - a) /\ a <= moment /\ h >= Refill /\ moment - a < Refill
    BY <2>1, <2>2, <2>3, <2>4, Through, Zenon
  <2>6. h - Refill <= Full - (d + Refill) + (moment - a) /\ d < Full
    BY <2>2, <2>5
  <2> QED
    BY <2>1, <2>3, <2>5, <2>6, Zenon
<1>9. \A i \in 1..Len(s) : Debt(k, i)' = Debt(k, i) + Refill
  <2> SUFFICES ASSUME NEW i \in 1..Len(s) PROVE Debt(k, i)' = Debt(k, i) + Refill
    OBVIOUS
  <2>1. PICK m \in Nat : m = Len(s) - i
    <3>1. Len(s) - i \in Nat
      BY <1>4
    <3> QED
      BY <3>1, Zenon
  <2>2. m + 1 \in Nat /\ Debt(k, i) = (m + 1) * Refill /\ Debt(k, i)' = ((m + 1) + 1) * Refill
    BY <1>4, <1>6, <2>1 DEF Debt
  <2> QED
    BY <2>2, Multiples, Constants, Zenon
<1>10. Weighs(k)'
  <2> SUFFICES ASSUME NEW i \in 1..(Len(s) + 1), moment - allowed'[k][i] < Refill
               PROVE  /\ allowed'[k][i] <= moment
                      /\ Held(k) - Refill <= Full - Debt(k, i)' + (moment - allowed'[k][i])
    BY <1>3, <1>6, Zenon DEF Weighs, Recent
  <2>1. CASE i \in 1..Len(s)
    BY <1>6, <1>8, <1>9, <2>1, Zenon DEF Recent
  <2>2. CASE i = Len(s) + 1
    <3>1. Debt(k, i)' = Refill
      BY <1>4, <1>6, <2>2, Constants DEF Debt
    <3> QED
      BY <1>1, <1>4, <1>6, <2>2, <3>1, Constants
  <2> QED
    BY <1>4, <2>1, <2>2
<1>11. ASSUME NEW i \in 1..Len(s), i + LoginBudget = Len(s) + 1 PROVE moment - s[i] >= Refill
  <2>1. Debt(k, i) = Full
    <3>1. (Len(s) - i) + 1 = LoginBudget
      BY <1>4, <1>11, Constants
    <3> QED
      BY <3>1, Zenon DEF Debt, Full
  <2>2. ~Recent(k, i)
    BY <1>8, <2>1, Constants
  <2> QED
    BY <1>4, <2>2, Constants DEF Recent
<1>12. NoWindowHoldsMore'
  <2> SUFFICES ASSUME NEW l \in Key64, NEW i \in 1..Len(allowed'[l]), i + LoginBudget <= Len(allowed'[l])
               PROVE  allowed'[l][i + LoginBudget] - allowed'[l][i] >= Refill
    BY Zenon DEF NoWindowHoldsMore
  <2>1. CASE l # k
    BY <1>5, <2>1, Zenon DEF LimitInv, NoWindowHoldsMore
  <2>2. CASE l = k /\ i + LoginBudget <= Len(s)
    <3>1. i \in 1..Len(s) /\ i + LoginBudget \in 1..Len(s)
      BY <1>4, <2>2, Constants
    <3>2. s[i + LoginBudget] - s[i] >= Refill
      BY <2>2, <3>1, Zenon DEF LimitInv, NoWindowHoldsMore
    <3> QED
      BY <1>6, <2>2, <3>1, <3>2, Zenon
  <2>3. CASE l = k /\ ~(i + LoginBudget <= Len(s))
    <3>1. i \in 1..Len(s) /\ i + LoginBudget = Len(s) + 1
      BY <1>4, <1>6, <2>3, Constants
    <3> QED
      BY <1>6, <1>11, <2>3, <3>1, Zenon
  <2> QED
    BY <2>1, <2>2, <2>3, Zenon
<1>13. ASSUME NEW l \in Key64, l # k PROVE Weighs(l)'
  <2>1. Weighs(l) /\ allowed'[l] = allowed[l]
    BY <1>5, <1>13, Zenon DEF LimitInv
  <2>2. l \in DOMAIN limiter => Balance(l)' = Balance(l)
    BY <1>3, <1>13, Zenon DEF Balance
  <2> QED
    BY <1>3, <1>13, <2>1, <2>2, Zenon DEF Weighs, Recent, Debt
<1> QED
  BY <1>7, <1>10, <1>12, <1>13, Zenon DEF LimitInv

\* WindowsHold: however many clients, buckets, attempts and sweeps there are, no
\* Refill long stretch lets one client in more than LoginBudget times
\* (LoginRateLimit, sweepLoginBuckets).
THEOREM WindowsHold == LimitsSpec => []NoWindowHoldsMore
<1>1. LimitInv /\ [LimitsNext]_limitVars => LimitInv'
  <2> SUFFICES ASSUME LimitInv, [LimitsNext]_limitVars PROVE LimitInv'
    BY Zenon
  <2>1. CASE UNCHANGED <<moment, limiter, allowed>>
    BY <2>1, Zenon DEF LimitInv, LimitTypes, NoWindowHoldsMore, Weighs, Recent, Debt, Balance
  <2>2. CASE UNCHANGED limitVars
    BY <2>1, <2>2, Zenon DEF limitVars
  <2>3. ASSUME NEW c \in Client, NEW right \in BOOLEAN, Attempt(c, right) PROVE LimitInv'
    <3>1. PICK k : k = LimiterKey[c]
      BY Zenon
    <3>2. /\ moment' = moment /\ k \in Key64
          /\ \/ limiter' = limiter /\ allowed' = allowed
             \/ /\ Held(k) >= Refill
                /\ limiter' = Set(limiter, k, [tokens |-> Held(k) - Refill, at |-> moment])
                /\ allowed' = [allowed EXCEPT ![k] = Append(@, moment)]
             \/ /\ limiter' = Set(limiter, k, [tokens |-> Held(k), at |-> moment])
                /\ allowed' = allowed
      BY <2>3, <3>1, AttemptCases, Zenon
    <3> QED
      BY <2>1, <3>2, AdmittedKeeps, RefusedKeeps
  <2> QED
    BY <2>2, <2>3, MinuteKeeps, SweepKeeps DEF LimitsNext
<1> QED
  BY <1>1, LimitStart, PTL DEF LimitsSpec, LimitInv

-------------------------------------------------------------------------------

\* The demo service (OneOutcome). The log alone is not inductive: the apply
\* whose window is open has no outcome yet, and no line names an apply that has
\* not begun.

Outcomes == {"apply_accepted", "apply_rolledback"}
Remarks == {"rules_saved", "options_saved", "system_saved", "apply_started", "panic_engaged",
            "panic_resumed"}
Lines == [action : Outcomes \cup Remarks, apply : Nat]

DemoTypes ==
  /\ demo = [current |-> demo.current, staged |-> demo.staged, backup |-> demo.backup,
             config |-> demo.config, applied |-> demo.applied, panic |-> demo.panic,
             enabled |-> demo.enabled, acceptance |-> demo.acceptance, reason |-> demo.reason,
             applies |-> demo.applies]
  /\ demo.applies \in Nat
  /\ log \in Seq(Lines)

\* The log says of no apply later than the last, nor of the one whose window is
\* open, that it ended.
Undecided ==
  \A i \in 1..Len(log) : log[i].action \in Outcomes =>
    /\ log[i].apply <= demo.applies
    /\ demo.acceptance = "pending" => log[i].apply < demo.applies

DemoInv == DemoTypes /\ Undecided /\ OneOutcome

\* A line names an apply by its number.
LEMMA LinesApply == ASSUME NEW l \in Seq(Lines), NEW at \in 1..Len(l) PROVE l[at].apply \in Nat
<1>1. l[at] \in Lines
  OBVIOUS
<1> QED
  BY <1>1 DEF Lines

\* auditAs puts the new lines before the old ones and cuts off only old ones:
\* each line of the new log is one of the new lines or the line before it was.
LEMMA AuditedLines ==
  ASSUME NEW l \in Seq(Lines), NEW e \in Seq(Lines)
  PROVE  /\ Audited(l, e) \in Seq(Lines)
         /\ Len(Audited(l, e)) <= Len(e) + Len(l)
         /\ \A i \in 1..Len(Audited(l, e)) :
              Audited(l, e)[i] = IF i <= Len(e) THEN e[i] ELSE l[i - Len(e)]
<1> DEFINE all == e \o l
           cut == IF Len(all) > DemoAuditCap THEN DemoAuditCap ELSE Len(all)
<1>1. /\ all \in Seq(Lines) /\ Len(all) = Len(e) + Len(l)
      /\ \A i \in 1..(Len(e) + Len(l)) : all[i] = IF i <= Len(e) THEN e[i] ELSE l[i - Len(e)]
  BY ConcatProperties, Zenon
<1>2. cut \in Nat /\ cut <= Len(all) /\ \A i \in 1..cut : all[i] \in Lines
  BY <1>1, DemoAssumption DEF DemoAssumption
<1> HIDE DEF all, cut
<1>3. /\ SubSeq(all, 1, cut) \in Seq(Lines)
      /\ Len(SubSeq(all, 1, cut)) = cut
      /\ \A i \in 1..cut : SubSeq(all, 1, cut)[i] = all[i]
  BY <1>2, SubSeqProperties
<1>4. Audited(l, e) = SubSeq(all, 1, cut)
  BY Zenon DEF Audited, all, cut
<1> QED
  BY <1>1, <1>2, <1>3, <1>4

\* Where the lines of the log come from once e was audited.
LEMMA NewLines ==
  ASSUME DemoTypes, NEW e \in Seq(Lines), log' = Audited(log, e)
  PROVE  /\ log' \in Seq(Lines)
         /\ \A i \in 1..Len(log') :
              \/ i \in 1..Len(e) /\ log'[i] = e[i]
              \/ i - Len(e) \in 1..Len(log) /\ log'[i] = log[i - Len(e)]
<1>1. log \in Seq(Lines)
  BY Zenon DEF DemoTypes
<1>2. /\ log' \in Seq(Lines)
      /\ Len(log') <= Len(e) + Len(log)
      /\ \A i \in 1..Len(log') : log'[i] = IF i <= Len(e) THEN e[i] ELSE log[i - Len(e)]
  BY <1>1, AuditedLines, Zenon
<1>3. Len(log) \in Nat /\ Len(e) \in Nat /\ Len(log') \in Nat
  BY <1>1, <1>2
<1> QED
  BY <1>2, <1>3

\* New lines of which at most one says that an apply ended, an apply of which the
\* log has not said so, keep one outcome to an apply.
LEMMA OneMoreOutcome ==
  ASSUME DemoInv, NEW e \in Seq(Lines), log' = Audited(log, e), NEW n \in Nat,
         \A i \in 1..Len(e) : e[i].action \in Outcomes => i = 1 /\ e[i].apply = n,
         \A i \in 1..Len(log) : log[i].action \in Outcomes => log[i].apply # n
  PROVE  OneOutcome'
<1>1. log \in Seq(Lines) /\ log' \in Seq(Lines)
  BY NewLines, Zenon DEF DemoInv, DemoTypes
<1>a. DOMAIN log = 1..Len(log) /\ DOMAIN log' = 1..Len(log') /\ Len(e) \in Nat /\ Len(log) \in Nat
  BY <1>1
<1>2. \A k \in 1..Len(log') : log'[k].action \in Outcomes =>
        \/ k = 1 /\ log'[k].apply = n
        \/ k - Len(e) \in 1..Len(log) /\ log'[k] = log[k - Len(e)]
  <2> TAKE k \in 1..Len(log')
  <2>1. \/ k \in 1..Len(e) /\ log'[k] = e[k]
        \/ k - Len(e) \in 1..Len(log) /\ log'[k] = log[k - Len(e)]
    BY NewLines, Zenon DEF DemoInv
  <2> QED
    BY <2>1, Zenon
<1>3. \A k, m \in 1..Len(log) :
        k # m /\ log[k].action \in Outcomes /\ log[m].action \in Outcomes => log[k].apply # log[m].apply
  BY <1>a, Zenon DEF DemoInv, OneOutcome, Outcomes
<1>4. ASSUME NEW x \in 1..Len(log'), NEW y \in 1..Len(log'), x # y,
             log'[x].action \in Outcomes, log'[y].action \in Outcomes
      PROVE  log'[x].apply # log'[y].apply
  <2>1. x \in Int /\ y \in Int
    BY <1>1
  <2>2. CASE x = 1 /\ log'[x].apply = n
    <3>1. y - Len(e) \in 1..Len(log) /\ log'[y] = log[y - Len(e)]
      BY <1>2, <1>4, <2>2, Zenon
    <3> QED
      BY <1>4, <2>2, <3>1, Zenon
  <2>3. CASE y = 1 /\ log'[y].apply = n
    <3>1. x - Len(e) \in 1..Len(log) /\ log'[x] = log[x - Len(e)]
      BY <1>2, <1>4, <2>3, Zenon
    <3> QED
      BY <1>4, <2>3, <3>1, Zenon
  <2>4. CASE /\ x - Len(e) \in 1..Len(log) /\ log'[x] = log[x - Len(e)]
             /\ y - Len(e) \in 1..Len(log) /\ log'[y] = log[y - Len(e)]
    <3>1. x - Len(e) # y - Len(e)
      BY <1>a, <1>4, <2>1
    <3> QED
      BY <1>3, <1>4, <2>4, <3>1
  <2> QED
    BY <1>2, <1>4, <2>2, <2>3, <2>4, Zenon
<1> QED
  BY <1>a, <1>4 DEF OneOutcome, Outcomes

\* One line, and two.
LEMMA LinesAreLines ==
  ASSUME NEW a \in Outcomes \cup Remarks, NEW b \in Outcomes \cup Remarks, NEW n \in Nat
  PROVE  /\ <<Entry(a, n)>> \in Seq(Lines) /\ <<Entry(a, n), Entry(b, n)>> \in Seq(Lines)
         /\ Len(<<Entry(a, n)>>) = 1 /\ Len(<<Entry(a, n), Entry(b, n)>>) = 2
         /\ Entry(a, n).action = a /\ Entry(a, n).apply = n
<1>1. Entry(a, n) \in Lines /\ Entry(b, n) \in Lines
  BY Zenon DEF Entry, Lines
<1>2. Entry(a, n).action = a /\ Entry(a, n).apply = n
  BY DEF Entry
<1> QED
  BY <1>1, <1>2

\* Nothing has been applied and nothing audited.
LEMMA DemoStart == DemoInit => DemoInv
<1> SUFFICES ASSUME DemoInit PROVE DemoInv
  OBVIOUS
<1>1. log = <<>>
  BY Zenon DEF DemoInit
<1>2. log \in Seq(Lines) /\ Len(log) = 0 /\ DOMAIN log = {}
  BY <1>1
<1>3. DemoTypes
  BY <1>2, Zenon DEF DemoInit, DemoTypes
<1> QED
  BY <1>2, <1>3 DEF DemoInv, Undecided, OneOutcome

\* Lines about a save or a panic end nothing.
LEMMA PlainLines ==
  ASSUME DemoInv, NEW a \in Remarks, log' = Audited(log, <<Entry(a, 0)>>),
         demo'.applies = demo.applies, demo'.acceptance = demo.acceptance
  PROVE  log' \in Seq(Lines) /\ Undecided' /\ OneOutcome'
<1> DEFINE e == <<Entry(a, 0)>>
<1>1. e \in Seq(Lines) /\ Len(e) = 1 /\ \A i \in 1..Len(e) : e[i].action \notin Outcomes
  <2>1. e \in Seq(Lines) /\ Len(e) = 1 /\ e[1].action = a
    BY LinesAreLines, Zenon
  <2> QED
    BY <2>1 DEF Outcomes, Remarks
<1>2. log' = Audited(log, e)
  BY Zenon
<1> HIDE DEF e
<1>3. demo.applies + 1 \in Nat /\ log \in Seq(Lines) /\ Len(log) \in Nat
  BY DEF DemoInv, DemoTypes
<1>4. \A i \in 1..Len(log) : log[i].action \in Outcomes => log[i].apply # demo.applies + 1
  BY <1>3 DEF DemoInv, DemoTypes, Undecided, Lines
<1>5. OneOutcome'
  BY <1>1, <1>2, <1>3, <1>4, OneMoreOutcome, Zenon
<1>6. log' \in Seq(Lines) /\ \A i \in 1..Len(log') : log'[i].action \in Outcomes =>
        i - 1 \in 1..Len(log) /\ log'[i] = log[i - 1]
  BY <1>1, <1>2, <1>3, NewLines, Zenon DEF DemoInv
<1> QED
  BY <1>5, <1>6, Zenon DEF DemoInv, Undecided

\* The line that ends the apply whose window is open.
LEMMA OutcomeLine ==
  ASSUME DemoInv, demo.acceptance = "pending", NEW a \in Outcomes,
         log' = Audited(log, <<Entry(a, demo.applies)>>),
         demo'.applies = demo.applies, demo'.acceptance # "pending"
  PROVE  log' \in Seq(Lines) /\ Undecided' /\ OneOutcome'
<1> DEFINE e == <<Entry(a, demo.applies)>>
<1>0. demo.applies \in Nat /\ log \in Seq(Lines) /\ Len(log) \in Nat
  BY DEF DemoInv, DemoTypes
<1>1. e \in Seq(Lines) /\ Len(e) = 1 /\ \A i \in 1..Len(e) : i = 1 /\ e[i].apply = demo.applies
  <2>1. e \in Seq(Lines) /\ Len(e) = 1 /\ e[1].apply = demo.applies
    BY <1>0, LinesAreLines
  <2> QED
    BY <2>1
<1>2. log' = Audited(log, e)
  BY Zenon
<1> HIDE DEF e
<1>4. \A i \in 1..Len(log) : log[i].action \in Outcomes =>
        log[i].apply # demo.applies /\ log[i].apply <= demo.applies
  BY <1>0 DEF DemoInv, DemoTypes, Undecided, Lines
<1>5. OneOutcome'
  BY <1>0, <1>1, <1>2, <1>4, OneMoreOutcome, Zenon
<1>6. log' \in Seq(Lines) /\ \A i \in 1..Len(log') :
        log'[i].apply = demo.applies \/ (i - 1 \in 1..Len(log) /\ log'[i] = log[i - 1])
  BY <1>0, <1>1, <1>2, NewLines, Zenon DEF DemoInv
<1>7. \A i \in 1..Len(log') : log'[i].action \in Outcomes => log'[i].apply <= demo.applies
  <2> SUFFICES ASSUME NEW told \in 1..Len(log'), log'[told].action \in Outcomes
               PROVE  log'[told].apply <= demo.applies
    BY Zenon
  <2>1. CASE log'[told].apply = demo.applies
    BY <1>0, <2>1
  <2>2. CASE told - 1 \in 1..Len(log) /\ log'[told] = log[told - 1]
    BY <1>4, <2>2
  <2> QED
    BY <1>6, <2>1, <2>2, Zenon
<1> QED
  BY <1>5, <1>6, <1>7, Zenon DEF Undecided

\* An apply, with the lines it audits: it is later than every one in the log.
LEMMA ApplyLines == DemoInv /\ ApplyRules => DemoInv'
<1> SUFFICES ASSUME DemoInv, ApplyRules PROVE DemoInv'
  BY Zenon
<1> DEFINE n == demo.applies + 1
           one == <<Entry("apply_started", n)>>
           two == <<Entry("apply_accepted", n), Entry("apply_started", n)>>
           e == IF demo.enabled THEN one ELSE two
<1>0. demo.applies \in Nat /\ n \in Nat /\ log \in Seq(Lines) /\ Len(log) \in Nat
  BY DEF DemoInv, DemoTypes
<1>1. log' = Audited(log, e)
  BY DEF ApplyRules
<1>a. /\ demo' = [demo EXCEPT !.backup = demo.current, !.current = demo.staged, !.applied = demo.config,
                              !.applies = n,
                              !.acceptance = IF demo.enabled THEN "pending" ELSE "accepted"]
  BY Zenon DEF ApplyRules, DemoInv, DemoTypes
<1>b. demo'.applies = n /\ (demo'.acceptance = "pending" => demo.enabled)
  BY <1>a, Zenon DEF DemoInv, DemoTypes
<1>2. /\ e \in Seq(Lines)
      /\ \A i \in 1..Len(e) : e[i].action \in Outcomes => i = 1 /\ e[i].apply = n /\ ~demo.enabled
  <2>0. "apply_started" \in Remarks /\ "apply_started" \notin Outcomes /\ "apply_accepted" \in Outcomes
    BY Zenon DEF Outcomes, Remarks
  <2>1. one \in Seq(Lines) /\ Len(one) = 1 /\ one[1].action \notin Outcomes
    BY <1>0, <2>0, LinesAreLines, Zenon
  <2>2. two \in Seq(Lines) /\ Len(two) = 2 /\ two[1].apply = n /\ two[2].action \notin Outcomes
    BY <1>0, <2>0, LinesAreLines
  <2> QED
    BY <2>1, <2>2
<1>3. \A i \in 1..Len(log) : log[i].action \in Outcomes => log[i].apply < n
  <2>1. \A i \in 1..Len(log) : log[i].apply \in Nat
    BY <1>0, LinesApply, Zenon
  <2> QED
    BY <1>0, <2>1 DEF DemoInv, Undecided
<1> HIDE DEF e, one, two, n
<1>4. OneOutcome'
  <2>1. \A i \in 1..Len(log) : log[i].action \in Outcomes => log[i].apply # n
    BY <1>0, <1>3
  <2>2. \A i \in 1..Len(e) : e[i].action \in Outcomes => i = 1 /\ e[i].apply = n
    BY <1>2, Zenon
  <2> QED
    BY <1>0, <1>1, <1>2, <2>1, <2>2, OneMoreOutcome
<1>5. log' \in Seq(Lines) /\ \A i \in 1..Len(log') : log'[i].action \in Outcomes =>
        \/ log'[i].apply = n /\ ~demo.enabled
        \/ i - Len(e) \in 1..Len(log) /\ log'[i] = log[i - Len(e)]
  BY <1>0, <1>1, <1>2, NewLines DEF DemoInv
<1>6. Undecided'
  <2>1. \A i \in 1..Len(log') : log'[i].action \in Outcomes =>
          log'[i].apply <= n /\ (demo.enabled => log'[i].apply < n)
    <3> SUFFICES ASSUME NEW now \in 1..Len(log'), log'[now].action \in Outcomes
                 PROVE  log'[now].apply <= n /\ (demo.enabled => log'[now].apply < n)
      BY Zenon
    <3>1. CASE log'[now].apply = n /\ ~demo.enabled
      BY <1>0, <3>1
    <3>2. CASE now - Len(e) \in 1..Len(log) /\ log'[now] = log[now - Len(e)]
      <4>1. log[now - Len(e)].apply < n /\ log[now - Len(e)].apply \in Nat
        BY <1>0, <1>3, <3>2, LinesApply
      <4> QED
        BY <1>0, <3>2, <4>1
    <3> QED
      BY <1>5, <3>1, <3>2, Zenon
  <2> QED
    BY <1>b, <2>1, Zenon DEF Undecided
<1>7. DemoTypes'
  BY <1>0, <1>a, <1>5, Zenon DEF DemoInv, DemoTypes
<1> QED
  BY <1>4, <1>6, <1>7 DEF DemoInv

\* Every step of a visitor, a timer or the reset keeps the invariant.
LEMMA DemoStep == DemoInv /\ [DemoNext]_demoVars => DemoInv'
<1> SUFFICES ASSUME DemoInv, [DemoNext]_demoVars PROVE DemoInv'
  BY Zenon
<1>1. ASSUME NEW set \in DemoSets, SaveRules(set) \/ SaveOptions(set) PROVE DemoInv'
  <2>1. DemoTypes' /\ Undecided' /\ OneOutcome'
    BY <1>1, PlainLines, Zenon DEF SaveRules, SaveOptions, DemoInv, DemoTypes, Remarks
  <2> QED
    BY <2>1, Zenon DEF DemoInv
<1>2. ASSUME NEW on \in BOOLEAN, SaveSystem(on) \/ Panic(on) PROVE DemoInv'
  <2>1. DemoTypes' /\ Undecided' /\ OneOutcome'
    BY <1>2, PlainLines, Zenon DEF SaveSystem, Panic, DemoInv, DemoTypes, Remarks
  <2> QED
    BY <2>1, Zenon DEF DemoInv
<1>3. CASE ApplyRules
  BY <1>3, ApplyLines, Zenon
<1>4. CASE DemoAccept
  BY <1>4, OutcomeLine, Zenon DEF DemoAccept, DemoInv, DemoTypes, Outcomes
<1>5. ASSUME NEW why, demo.acceptance = "pending", RollbackWithDetail(why) PROVE DemoInv'
  BY <1>5, OutcomeLine, Zenon DEF RollbackWithDetail, DemoInv, DemoTypes, Outcomes
<1>6. ASSUME UNCHANGED log, demo'.applies = demo.applies, DemoTypes',
             demo'.acceptance \in {demo.acceptance, "idle"}
      PROVE  DemoInv'
  BY <1>6 DEF DemoInv, Undecided, OneOutcome
<1>7. CASE CancelAcceptance
  BY <1>5, <1>7, Zenon DEF CancelAcceptance
<1>8. CASE DelayedReset
  BY <1>6, <1>8, Zenon DEF DelayedReset, DemoInv, DemoTypes
<1>9. ASSUME NEW t \in fired, Callback(t) PROVE DemoInv'
  BY <1>5, <1>6, <1>9, Zenon DEF Callback, DemoExpire, DemoInv, DemoTypes
<1>10. CASE UNCHANGED <<demo, log>>
  BY <1>6, <1>10 DEF DemoInv, DemoTypes
<1> QED
  BY <1>1, <1>2, <1>3, <1>4, <1>7, <1>8, <1>9, <1>10 DEF DemoNext, ApplyRefused, Fire, demoVars

\* OneOutcomeEach: however many applies, confirmations, cancels and late timers a
\* visitor of the demo causes, its audit log never says of one apply that it was
\* both confirmed and rolled back, nor either of them twice (Accept, Cancel, rollback).
THEOREM OneOutcomeEach == DemoSpec => []OneOutcome
<1>1. DemoInv => OneOutcome
  BY DEF DemoInv
<1> QED
  BY <1>1, DemoStart, DemoStep, PTL DEF DemoSpec
===============================================================================
