------------------------ MODULE SecondFactorProofs ----------------------------
(***************************************************************************)
(* The second factor for any number of states, requests and attempts.      *)
(* AttemptBudget: the table of counts is swept by age, so the count itself *)
(* does not bound the checks: what does is that a count is never older     *)
(* than the state it is for, so that a state whose count was swept has     *)
(* expired, and that the count of one that lives covers the checks made    *)
(* for it, however late a request is charged. ProofOnce: a proof that was  *)
(* taken, by a request still to grant its session or by one that has, is   *)
(* barred: a step of the app by the last accepted one, in memory and on    *)
(* disk, a recovery code by not being stored. At most one request is about *)
(* to grant a session for it, and none once one was granted.               *)
(***************************************************************************)
EXTENDS SecondFactor, TLAPS

-------------------------------------------------------------------------------

LedgerTypes ==
  /\ now \in Nat
  /\ at = [r \in Visit |-> at[r]] /\ visit = [r \in Visit |-> visit[r]]
  /\ pendings = [p \in DOMAIN pendings |-> pendings[p]]
  /\ \A p \in DOMAIN pendings : pendings[p].issued \in Nat /\ 2 * pendings[p].issued <= now
  /\ attempts = [p \in DOMAIN attempts |-> attempts[p]]
  /\ \A p \in DOMAIN attempts : attempts[p].n \in Nat /\ attempts[p].begun \in Nat
  /\ checks = [p \in DOMAIN checks |-> checks[p]]
  /\ \A p \in DOMAIN checks : checks[p] \in Nat

\* The checks of a state are within its count while it lives: a count begins no
\* earlier than its state, so it is swept no earlier than the state expires.
Charged ==
  /\ DOMAIN attempts \subseteq DOMAIN pendings /\ DOMAIN checks \subseteq DOMAIN pendings
  /\ \A p \in DOMAIN attempts : attempts[p].begun >= 2 * pendings[p].issued
  /\ \A p \in DOMAIN checks : Lives(p) => p \in DOMAIN attempts /\ checks[p] <= attempts[p].n

\* A request between its read and its charge is for a state that was issued.
SpendsIssued == \A r \in Visit : at[r] = "spend" => visit[r].pid \in DOMAIN pendings

FactorInv == LedgerTypes /\ Charged /\ AttemptBudget /\ SpendsIssued

\* At the start nothing is issued, counted or being served.
LEMMA FactorStart == FactorInit => FactorInv
<1> SUFFICES ASSUME FactorInit PROVE FactorInv
  OBVIOUS
<1>1. DOMAIN Empty = {} /\ Empty = [p \in DOMAIN Empty |-> Empty[p]]
  BY DEF Empty
<1>2. /\ now = 2 /\ pendings = Empty /\ attempts = Empty /\ checks = Empty
      /\ at = [r \in Visit |-> "idle"] /\ visit = [r \in Visit |-> None]
  BY DEF FactorInit
<1> QED
  BY <1>1, <1>2 DEF FactorInv, LedgerTypes, Charged, AttemptBudget, SpendsIssued

\* A request's step moves that request alone.
LEMMA StepFacts ==
  ASSUME LedgerTypes, NEW r \in Visit, NEW pc, NEW what, Step(r, pc, what)
  PROVE  /\ at' = [q \in Visit |-> at'[q]] /\ visit' = [q \in Visit |-> visit'[q]]
         /\ at'[r] = pc /\ visit'[r] = what
         /\ \A q \in Visit : q # r => at'[q] = at[q] /\ visit'[q] = visit[q]
BY Zenon DEF LedgerTypes, Step

\* A request that moves on past the charge, or ends, leaves the ledger alone.
LEMMA OthersKeep ==
  ASSUME FactorInv, UNCHANGED ledger, NEW r \in Visit, NEW pc, NEW what, pc # "spend",
         Step(r, pc, what)
  PROVE  FactorInv'
<1>1. /\ at' = [q \in Visit |-> at'[q]] /\ visit' = [q \in Visit |-> visit'[q]]
      /\ at'[r] = pc /\ visit'[r] = what
      /\ \A q \in Visit : q # r => at'[q] = at[q] /\ visit'[q] = visit[q]
  BY StepFacts DEF FactorInv
<1>2. now' = now /\ pendings' = pendings /\ attempts' = attempts /\ checks' = checks
  BY DEF ledger
<1> QED
  BY <1>1, <1>2 DEF FactorInv, LedgerTypes, Charged, AttemptBudget, SpendsIssued, Lives

\* A state that lives after a tick lived before it.
LEMMA TimeKeeps == FactorInv /\ TimePasses => FactorInv'
<1> SUFFICES ASSUME FactorInv, TimePasses PROVE FactorInv'
  OBVIOUS
<1>1. /\ now' = now + 1 /\ pendings' = pendings /\ attempts' = attempts /\ checks' = checks
      /\ at' = at /\ visit' = visit
  BY DEF TimePasses
<1>2. PendingLifetime \in Nat
  BY SecondFactorAssumption DEF SecondFactorAssumption
<1> QED
  BY <1>1, <1>2 DEF FactorInv, LedgerTypes, Charged, AttemptBudget, SpendsIssued, Lives

\* A new state has no count and no check yet.
LEMMA PasswordKeeps == ASSUME FactorInv, NEW p \in Pid, PasswordStep(p) PROVE FactorInv'
<1>1. /\ p \notin DOMAIN pendings
      /\ pendings' = With(pendings, p, [print |-> FactorPrint, issued |-> SecondNow])
      /\ now' = now /\ attempts' = attempts /\ checks' = checks /\ at' = at /\ visit' = visit
  BY DEF PasswordStep
<1>2. SecondNow \in Nat /\ 2 * SecondNow <= now
  BY DEF FactorInv, LedgerTypes, SecondNow
<1>3. /\ DOMAIN pendings' = DOMAIN pendings \cup {p}
      /\ pendings'[p] = [print |-> FactorPrint, issued |-> SecondNow]
      /\ \A q \in DOMAIN pendings : pendings'[q] = pendings[q]
      /\ pendings' = [q \in DOMAIN pendings' |-> pendings'[q]]
  BY <1>1 DEF With
<1>4. LedgerTypes'
  BY <1>1, <1>2, <1>3 DEF FactorInv, LedgerTypes
<1>5. Charged' /\ AttemptBudget' /\ SpendsIssued'
  BY <1>1, <1>3 DEF FactorInv, Charged, AttemptBudget, SpendsIssued, Lives
<1> QED
  BY <1>4, <1>5 DEF FactorInv

\* A request that read its state read one that was issued.
LEMMA VerifyKeeps ==
  ASSUME FactorInv, NEW r \in Visit, NEW p \in DOMAIN pendings, NEW kind, NEW proof,
         VerifyPOST(r, p, kind, proof)
  PROVE  FactorInv'
<1> DEFINE carried == [pid |-> p, kind |-> kind, proof |-> proof]
<1>1. Step(r, "spend", carried) /\ UNCHANGED ledger
  BY DEF VerifyPOST
<1>2. now' = now /\ pendings' = pendings /\ attempts' = attempts /\ checks' = checks
  BY <1>1 DEF ledger
<1>3. /\ at' = [q \in Visit |-> at'[q]] /\ visit' = [q \in Visit |-> visit'[q]]
      /\ visit'[r] = carried
      /\ \A q \in Visit : q # r => at'[q] = at[q] /\ visit'[q] = visit[q]
  BY <1>1, StepFacts DEF FactorInv
<1>4. visit'[r].pid = p
  BY <1>3
<1>5. LedgerTypes' /\ Charged' /\ AttemptBudget'
  BY <1>2, <1>3 DEF FactorInv, LedgerTypes, Charged, AttemptBudget, Lives
<1>6. SpendsIssued'
  BY <1>2, <1>3, <1>4 DEF FactorInv, SpendsIssued
<1> QED
  BY <1>5, <1>6 DEF FactorInv

\* The charge: a count that is swept is an expired state's, and a live state has
\* at most its count of checks.
LEMMA SpendKeeps == ASSUME FactorInv, NEW r \in Visit, SpendAttempt(r) PROVE FactorInv'
<1> DEFINE p == visit[r].pid
           left == [q \in {q \in DOMAIN attempts : Counted(q)} |-> attempts[q]]
           c == IF p \in DOMAIN left THEN left[p] ELSE [n |-> 0, begun |-> now]
           charged == [n |-> c.n + 1, begun |-> c.begun]
           once == 1 + (IF p \in DOMAIN checks THEN checks[p] ELSE 0)
<1>1. /\ at[r] = "spend" /\ now' = now /\ pendings' = pendings
      /\ \/ c.n >= MaxAttempts /\ attempts' = left /\ Done(r) /\ checks' = checks
         \/ /\ ~(c.n >= MaxAttempts) /\ attempts' = With(left, p, charged)
            /\ checks' = (IF Lives(p) THEN With(checks, p, once) ELSE checks)
            /\ Onto(r, "check")
  BY Zenon DEF SpendAttempt, ReservePendingAttempt, Looked
<1>2. p \in DOMAIN pendings
  BY <1>1, Zenon DEF FactorInv, SpendsIssued
<1>3. DOMAIN left = {q \in DOMAIN attempts : Counted(q)} /\ \A q \in DOMAIN left : left[q] = attempts[q]
  OBVIOUS
<1>4. left = [q \in DOMAIN left |-> left[q]]
  OBVIOUS
<1>5. PendingLifetime \in Nat /\ MaxAttempts \in Nat
  BY SecondFactorAssumption DEF SecondFactorAssumption
<1>6. \A q \in DOMAIN attempts : Lives(q) => q \in DOMAIN left
  BY <1>3, <1>5 DEF Counted, Lives, FactorInv, LedgerTypes, Charged
<1>7. c.n \in Nat /\ c.begun \in Nat /\ c.begun >= 2 * pendings[p].issued
  <2>1. CASE p \in DOMAIN left
    BY <2>1, <1>2, <1>3 DEF FactorInv, LedgerTypes, Charged
  <2>2. CASE p \notin DOMAIN left
    BY <2>2, <1>2 DEF FactorInv, LedgerTypes
  <2> QED
    BY <2>1, <2>2, Zenon
<1>8. once \in Nat /\ (Lives(p) => once <= c.n + 1)
  <2>1. CASE p \in DOMAIN checks
    BY <2>1, <1>3, <1>6, <1>7 DEF FactorInv, LedgerTypes, Charged
  <2>2. CASE p \notin DOMAIN checks
    BY <2>2, <1>7
  <2> QED
    BY <2>1, <2>2, Zenon
<1>9. /\ at' = [q \in Visit |-> at'[q]] /\ visit' = [q \in Visit |-> visit'[q]]
      /\ at'[r] # "spend"
      /\ \A q \in Visit : q # r => at'[q] = at[q] /\ visit'[q] = visit[q]
  <2>1. LedgerTypes /\ (Done(r) \/ Onto(r, "check"))
    BY <1>1, Zenon DEF FactorInv
  <2> QED
    BY <2>1, StepFacts DEF Done, Onto
<1>10. SpendsIssued'
  BY <1>1, <1>9, Zenon DEF FactorInv, SpendsIssued
<1>11. charged.n = c.n + 1 /\ charged.begun = c.begun
  OBVIOUS
<1>12. \A q : Lives(q)' <=> Lives(q)
  BY <1>1 DEF Lives
<1> HIDE DEF p, left, c, charged, once
<1>13. CASE attempts' = left /\ checks' = checks
  BY <1>13, <1>1, <1>3, <1>4, <1>6, <1>9, <1>10, <1>12
     DEF FactorInv, LedgerTypes, Charged, AttemptBudget
<1>14. CASE ~(c.n >= MaxAttempts) /\ attempts' = With(left, p, charged)
  <2>1. /\ DOMAIN attempts' = DOMAIN left \cup {p} /\ attempts'[p] = charged
        /\ \A q \in DOMAIN left : q # p => attempts'[q] = left[q]
        /\ attempts' = [q \in DOMAIN attempts' |-> attempts'[q]]
    BY <1>14 DEF With
  <2>2. /\ DOMAIN checks' \subseteq DOMAIN checks \cup {p}
        /\ \A q \in DOMAIN checks : q # p => checks'[q] = checks[q]
        /\ checks' = [q \in DOMAIN checks' |-> checks'[q]]
        /\ p \in DOMAIN checks' => /\ Lives(p) => checks'[p] = once
                                   /\ ~Lives(p) => p \in DOMAIN checks /\ checks'[p] = checks[p]
    <3>1. CASE checks' = With(checks, p, once) /\ Lives(p)
      BY <3>1, Zenon DEF With
    <3>2. CASE checks' = checks /\ ~Lives(p)
      BY <3>2, Zenon DEF FactorInv, LedgerTypes
    <3>3. checks' = (IF Lives(p) THEN With(checks, p, once) ELSE checks)
      BY <1>1, <1>14, <1>5, <1>7
    <3> QED
      BY <3>1, <3>2, <3>3, Zenon
  <2>3. LedgerTypes'
    BY <2>1, <2>2, <1>1, <1>3, <1>7, <1>8, <1>9, <1>11 DEF FactorInv, LedgerTypes
  <2>4. Charged'
    BY <2>1, <2>2, <1>1, <1>2, <1>3, <1>6, <1>7, <1>8, <1>11, <1>12 DEF FactorInv, Charged
  <2>5. AttemptBudget'
    BY <2>2, <1>5, <1>7, <1>8, <1>14 DEF FactorInv, AttemptBudget
  <2> QED
    BY <2>3, <2>4, <2>5, <1>10 DEF FactorInv
<1> QED
  BY <1>1, <1>13, <1>14

\* A restart forgets the counts and the requests alike.
LEMMA RestartKeepsInv == FactorInv /\ WebRestart => FactorInv'
<1> SUFFICES ASSUME FactorInv, WebRestart PROVE FactorInv'
  OBVIOUS
<1>1. DOMAIN Empty = {} /\ Empty = [p \in DOMAIN Empty |-> Empty[p]]
  BY DEF Empty
<1>2. /\ now' = now /\ pendings' = pendings /\ attempts' = Empty /\ checks' = Empty
      /\ at' = [r \in Visit |-> "idle"] /\ visit' = [r \in Visit |-> None]
  BY Zenon DEF WebRestart
<1> QED
  BY <1>1, <1>2 DEF FactorInv, LedgerTypes, Charged, AttemptBudget, SpendsIssued

\* The other steps of a request go where nothing is charged.
LEMMA RequestMoves ==
  ASSUME NEW r \in Visit,
         \/ CheckTOTP(r) \/ CheckRecovery(r) \/ RemoveRecoveryCode(r) \/ CheckPasskey(r) \/ Grant(r)
         \/ TOTPConfirm(r) \/ EnrolUnverified(r) \/ TOTPDisable(r) \/ SaveTOTP(r) \/ AddKey(r)
         \/ MintCodes(r) \/ StoreCodes(r) \/ RemoveKey(r)
         \/ \E k \in Key : PasskeyFinish(r, k) \/ PasskeyRemove(r, k)
  PROVE  UNCHANGED ledger /\ \E pc, what : pc # "spend" /\ Step(r, pc, what)
<1> USE DEF Onto, Done
<1>1. CASE CheckTOTP(r)
  BY <1>1 DEF CheckTOTP
<1>2. CASE CheckRecovery(r)
  BY <1>2, Zenon DEF CheckRecovery
<1>3. CASE RemoveRecoveryCode(r)
  BY <1>3, Zenon DEF RemoveRecoveryCode
<1>4. CASE CheckPasskey(r)
  BY <1>4, Zenon DEF CheckPasskey
<1>5. CASE Grant(r) \/ SaveTOTP(r) \/ MintCodes(r) \/ StoreCodes(r) \/ RemoveKey(r)
  BY <1>5, Zenon DEF Grant, SaveTOTP, MintCodes, StoreCodes, RemoveKey
<1>6. CASE TOTPConfirm(r)
  BY <1>6, Zenon DEF TOTPConfirm
<1>7. CASE EnrolUnverified(r)
  BY <1>7 DEF EnrolUnverified
<1>8. CASE TOTPDisable(r)
  BY <1>8, Zenon DEF TOTPDisable
<1>9. CASE AddKey(r)
  BY <1>9, Zenon DEF AddKey
<1>10. CASE \E k \in Key : PasskeyFinish(r, k) \/ PasskeyRemove(r, k)
  BY <1>10 DEF PasskeyFinish, PasskeyRemove
<1> QED
  BY <1>1, <1>2, <1>3, <1>4, <1>5, <1>6, <1>7, <1>8, <1>9, <1>10, Zenon

\* Every step keeps the invariant.
LEMMA FactorStep == FactorInv /\ [FactorNext]_factorVars => FactorInv'
<1> SUFFICES ASSUME FactorInv, [FactorNext]_factorVars PROVE FactorInv'
  OBVIOUS
<1>1. CASE TimePasses \/ WebRestart
  BY <1>1, TimeKeeps, RestartKeepsInv, Zenon
<1>2. CASE RenewCodes \/ UNCHANGED factorVars
      \/ \E p \in Pid : \E ch \in Challenge : PasskeyBegin(p, ch)
  <2>1. UNCHANGED <<ledger, at, visit>>
    BY <1>2 DEF RenewCodes, factorVars, ledger, PasskeyBegin
  <2> QED
    BY <2>1 DEF ledger, FactorInv, LedgerTypes, Charged, AttemptBudget, SpendsIssued, Lives
<1>3. ASSUME NEW p \in Pid, PasswordStep(p) PROVE FactorInv'
  BY <1>3, PasswordKeeps
<1>4. ASSUME NEW r \in Visit, SpendAttempt(r) PROVE FactorInv'
  BY <1>4, SpendKeeps
<1>5. ASSUME NEW r \in Visit,
             \E p \in DOMAIN pendings, kind \in {"totp", "recovery", "passkey"} :
               \E proof \in Proofs(kind) : VerifyPOST(r, p, kind, proof)
      PROVE FactorInv'
  BY <1>5, VerifyKeeps
<1>6. ASSUME NEW r \in Visit,
         \/ CheckTOTP(r) \/ CheckRecovery(r) \/ RemoveRecoveryCode(r) \/ CheckPasskey(r) \/ Grant(r)
         \/ TOTPConfirm(r) \/ EnrolUnverified(r) \/ TOTPDisable(r) \/ SaveTOTP(r) \/ AddKey(r)
         \/ MintCodes(r) \/ StoreCodes(r) \/ RemoveKey(r)
         \/ \E k \in Key : PasskeyFinish(r, k) \/ PasskeyRemove(r, k)
      PROVE FactorInv'
  BY <1>6, RequestMoves, OthersKeep
<1> QED
  BY <1>1, <1>2, <1>3, <1>4, <1>5, <1>6 DEF FactorNext

\* FactorBudget: however many requests for however many states overlap, and however
\* long each waits between its read and its charge, a state has at most MaxAttempts
\* proofs looked at while it lives (reservePendingAttempt).
THEOREM FactorBudget == FactorSpec => []AttemptBudget
BY FactorStart, FactorStep, PTL DEF FactorSpec, FactorInv

-------------------------------------------------------------------------------

\* ProofOnce.

\* A proof that opens a session, the requests about to grant one for it, and
\* whether ProofOnce answers for it.
Use(k, p) == [kind |-> k, proof |-> p]
Granting(k, p) == {r \in Visit : at[r] = "grant" /\ visit[r].kind = k /\ visit[r].proof = p}
Granted(k, p) == Use(k, p) \in DOMAIN past.grants
Answered(k, p) == Use(k, p) \notin past.unrecorded /\ (k = "recovery" => p \notin past.restored)

\* What keeps a proof from being taken again, also after a restart.
Barred(k, p) ==
  \/ k = "totp" /\ p \in Int /\ p <= replay.mem /\ p <= replay.disk
  \/ k = "recovery" /\ p \in past.minted /\ p \notin account.codes

\* A proof that was taken is barred, by one request that grants or has granted.
UsedOnce(k, p) ==
  /\ Granted(k, p) \/ Granting(k, p) # {} => Barred(k, p)
  /\ Granted(k, p) => past.grants[Use(k, p)] = 1 /\ Granting(k, p) = {}
  /\ \A q, r \in Granting(k, p) : q = r

ProofTypes ==
  /\ at = [r \in Visit |-> at[r]] /\ visit = [r \in Visit |-> visit[r]]
  /\ past = [grants |-> past.grants, unrecorded |-> past.unrecorded,
             restored |-> past.restored, minted |-> past.minted]
  /\ account = [totp |-> account.totp, codes |-> account.codes]
  /\ account.codes \subseteq past.minted
  /\ replay = [mem |-> replay.mem, disk |-> replay.disk] /\ replay.mem \in Int /\ replay.disk \in Int
  /\ \A r \in Visit : /\ at[r] = "remove" => visit[r].kind = "recovery"
                      /\ at[r] = "grant" => visit[r].kind \in {"totp", "recovery", "passkey"}
  /\ \A g \in DOMAIN past.grants : /\ g = Use(g.kind, g.proof)
                                   /\ g.kind \in {"totp", "recovery", "passkey"}

ProofInv ==
  /\ ProofTypes
  /\ \A k \in {"totp", "recovery"} : \A p : Answered(k, p) => UsedOnce(k, p)

\* A proof is known by its kind and by what it is.
LEMMA SameUse == \A k, p, l, q : Use(k, p) = Use(l, q) <=> k = l /\ p = q
BY DEF Use

\* The invariant says what ProofOnce says.
LEMMA OnceOut == ASSUME ProofInv PROVE ProofOnce
<1> SUFFICES ASSUME NEW g \in DOMAIN past.grants, g.kind # "passkey", g \notin past.unrecorded,
                    ~(g.kind = "recovery" /\ g.proof \in past.restored)
             PROVE  Times(g) = 1
  BY Zenon DEF ProofOnce
<1>1. g = Use(g.kind, g.proof) /\ g.kind \in {"totp", "recovery"}
  BY Zenon DEF ProofInv, ProofTypes
<1>2. UsedOnce(g.kind, g.proof)
  BY <1>1, Zenon DEF ProofInv, Answered
<1> QED
  BY <1>1, <1>2, Zenon DEF UsedOnce, Granted, Times

\* At the start nothing has been granted.
LEMMA OnceStart == FactorInit => ProofInv
<1> SUFFICES ASSUME FactorInit PROVE ProofInv
  OBVIOUS
<1>1. PICK b \in FactorBounds :
        /\ account = [totp |-> b.totp, codes |-> b.codes] /\ replay = [mem |-> 0, disk |-> 0]
        /\ at = [r \in Visit |-> "idle"] /\ visit = [r \in Visit |-> None]
        /\ past = [Past EXCEPT !.minted = b.codes]
  BY Zenon DEF FactorInit
<1>2. past = [grants |-> Empty, unrecorded |-> {}, restored |-> {}, minted |-> b.codes]
  BY <1>1 DEF Past
<1>3. /\ past.grants = Empty /\ past.unrecorded = {} /\ past.restored = {} /\ past.minted = b.codes
      /\ DOMAIN Empty = {} /\ account.codes = b.codes /\ account.totp = b.totp
  BY <1>1, <1>2 DEF Empty
<1>4. replay.mem = 0 /\ replay.disk = 0 /\ replay.mem \in Int /\ replay.disk \in Int
  BY <1>1
<1>5. \A r \in Visit : at[r] = "idle"
  BY <1>1, Zenon
<1>6. ProofTypes
  BY <1>1, <1>2, <1>3, <1>4, <1>5, Zenon DEF ProofTypes
<1>7. \A k, p : ~Granted(k, p) /\ Granting(k, p) = {}
  BY <1>3, <1>5, Zenon DEF Granted, Granting
<1> QED
  BY <1>6, <1>7, Zenon DEF ProofInv, UsedOnce

\* A use is still single when no request more is about to grant a session for it,
\* it is granted no more often, and what bars it stands.
LEMMA UseKept ==
  ASSUME NEW k, NEW p, UsedOnce(k, p), Granting(k, p)' \subseteq Granting(k, p),
         Granted(k, p)' => Granted(k, p) /\ past'.grants[Use(k, p)] = past.grants[Use(k, p)],
         Granted(k, p) \/ Granting(k, p) # {} => (Barred(k, p) => Barred(k, p)')
  PROVE  UsedOnce(k, p)'
<1>1. Use(k, p)' = Use(k, p)
  BY DEF Use
<1> QED
  BY <1>1, Zenon DEF UsedOnce

\* A request's step moves that request alone, and takes no other to a grant.
LEMMA MoveFacts ==
  ASSUME ProofTypes, NEW r \in Visit, NEW pc, NEW what, Step(r, pc, what)
  PROVE  /\ at' = [q \in Visit |-> at'[q]] /\ visit' = [q \in Visit |-> visit'[q]]
         /\ at'[r] = pc /\ visit'[r] = what
         /\ \A q \in Visit : q # r => at'[q] = at[q] /\ visit'[q] = visit[q]
         /\ \A k, p : (pc = "grant" => what.kind # k \/ what.proof # p)
                      => Granting(k, p)' \subseteq Granting(k, p)
<1>1. /\ at' = [q \in Visit |-> at'[q]] /\ visit' = [q \in Visit |-> visit'[q]]
      /\ at'[r] = pc /\ visit'[r] = what
      /\ \A q \in Visit : q # r => at'[q] = at[q] /\ visit'[q] = visit[q]
  BY Zenon DEF ProofTypes, Step
<1>2. ASSUME NEW k, NEW p, pc = "grant" => what.kind # k \/ what.proof # p
      PROVE  Granting(k, p)' \subseteq Granting(k, p)
  BY <1>1, <1>2, Zenon DEF Granting
<1> QED
  BY <1>1, <1>2, Zenon

\* The steps that touch neither the factors nor what the properties look back on,
\* but for codes they mint.
Bystands(r) ==
  /\ UNCHANGED <<account, replay>>
  /\ past' = past \/ \E set : Mints(set)
  /\ \E pc, what : /\ Step(r, pc, what)
                   /\ pc = "grant" => what.kind = "passkey"
                   /\ pc = "remove" => what.kind = "recovery"

\* They keep the invariant.
LEMMA BystanderKeeps == ASSUME ProofInv, NEW r \in Visit, Bystands(r) PROVE ProofInv'
<1>1. PICK pc, what : /\ Step(r, pc, what)
                      /\ pc = "grant" => what.kind = "passkey"
                      /\ pc = "remove" => what.kind = "recovery"
  BY Zenon DEF Bystands
<1>2. /\ account' = account /\ replay' = replay
      /\ past'.grants = past.grants /\ past'.unrecorded = past.unrecorded
      /\ past'.restored = past.restored /\ past.minted \subseteq past'.minted
      /\ past' = [grants |-> past'.grants, unrecorded |-> past'.unrecorded,
                  restored |-> past'.restored, minted |-> past'.minted]
  <2>1. CASE past' = past
    BY <2>1, Zenon DEF Bystands, ProofInv, ProofTypes
  <2>2. ASSUME NEW set, past' = [past EXCEPT !.minted = @ \cup set]
        PROVE  /\ past'.grants = past.grants /\ past'.unrecorded = past.unrecorded
               /\ past'.restored = past.restored /\ past.minted \subseteq past'.minted
               /\ past' = [grants |-> past'.grants, unrecorded |-> past'.unrecorded,
                           restored |-> past'.restored, minted |-> past'.minted]
    BY <2>2, Zenon DEF ProofInv, ProofTypes
  <2> QED
    BY <2>1, <2>2, Zenon DEF Bystands, Mints
<1>3. /\ at' = [q \in Visit |-> at'[q]] /\ visit' = [q \in Visit |-> visit'[q]]
      /\ at'[r] = pc /\ visit'[r] = what
      /\ \A q \in Visit : q # r => at'[q] = at[q] /\ visit'[q] = visit[q]
      /\ \A k, p : (pc = "grant" => what.kind # k \/ what.proof # p)
                   => Granting(k, p)' \subseteq Granting(k, p)
  <2>1. ProofTypes
    BY Zenon DEF ProofInv
  <2> QED
    BY <1>1, <2>1, MoveFacts
<1>4. \A q \in Visit : /\ at'[q] = "remove" => visit'[q].kind = "recovery"
                       /\ at'[q] = "grant" => visit'[q].kind \in {"totp", "recovery", "passkey"}
  BY <1>1, <1>3 DEF ProofInv, ProofTypes
<1>5. ProofTypes'
  BY <1>2, <1>3, <1>4, Zenon DEF ProofInv, ProofTypes, Use
<1>6. ASSUME NEW k \in {"totp", "recovery"}, NEW p, Answered(k, p)' PROVE UsedOnce(k, p)'
  <2>1. UsedOnce(k, p)
    BY <1>2, <1>6, Zenon DEF ProofInv, Answered, Use
  <2>2. Granting(k, p)' \subseteq Granting(k, p)
    BY <1>1, <1>3, Zenon
  <2>3. (Barred(k, p) => Barred(k, p)') /\ Granted(k, p)' = Granted(k, p)
    BY <1>2, Zenon DEF Barred, Granted, Use
  <2> QED
    BY <1>2, <2>1, <2>2, <2>3, UseKept, Zenon
<1> QED
  BY <1>5, <1>6, Zenon DEF ProofInv

\* A proof that nothing bars is taken by one request, and barred from then on.
LEMMA TakenOnce ==
  ASSUME ProofInv, NEW r \in Visit, at[r] # "grant", NEW k0, NEW p0,
         visit[r].kind = k0, visit[r].proof = p0, Step(r, "grant", visit[r]),
         past'.grants = past.grants, past'.restored = past.restored, past'.minted = past.minted,
         past.unrecorded \subseteq past'.unrecorded,
         Answered(k0, p0)' => ~Barred(k0, p0) /\ Barred(k0, p0)',
         \A k, p : Barred(k, p) => Barred(k, p)'
  PROVE  \A k \in {"totp", "recovery"} : \A p : Answered(k, p)' => UsedOnce(k, p)'
<1> SUFFICES ASSUME NEW k \in {"totp", "recovery"}, NEW p, Answered(k, p)' PROVE UsedOnce(k, p)'
  BY Zenon
<1>1. /\ at'[r] = "grant" /\ visit'[r] = visit[r]
      /\ \A q \in Visit : q # r => at'[q] = at[q] /\ visit'[q] = visit[q]
      /\ \A l, q : ("grant" = "grant" => visit[r].kind # l \/ visit[r].proof # q)
                   => Granting(l, q)' \subseteq Granting(l, q)
  <2>1. ProofTypes
    BY Zenon DEF ProofInv
  <2> QED
    BY <2>1, MoveFacts
<1>2. UsedOnce(k, p)
  BY Zenon DEF ProofInv, Answered, Use
<1>3. Granted(k, p)' = Granted(k, p)
  BY Zenon DEF Granted, Use
<1>4. CASE k # k0 \/ p # p0
  <2>1. Granting(k, p)' \subseteq Granting(k, p)
    BY <1>1, <1>4, Zenon
  <2> QED
    BY <1>2, <1>3, <2>1, UseKept, Zenon
<1>5. CASE k = k0 /\ p = p0
  <2>1. ~Granted(k, p) /\ Granting(k, p) = {} /\ Barred(k, p)'
    BY <1>2, <1>5, Zenon DEF UsedOnce
  <2>2. ASSUME NEW q \in Granting(k, p)', q # r PROVE q \in Granting(k, p)
    BY <1>1, <2>2, Zenon DEF Granting
  <2> QED
    BY <1>3, <2>1, <2>2, Zenon DEF UsedOnce
<1> QED
  BY <1>4, <1>5, Zenon

\* The types survive a step to a grant.
LEMMA GrantTypes ==
  ASSUME ProofTypes, NEW r \in Visit, visit[r].kind \in {"totp", "recovery", "passkey"},
         Step(r, "grant", visit[r]), past'.grants = past.grants, past'.minted = past.minted,
         past' = [grants |-> past'.grants, unrecorded |-> past'.unrecorded,
                  restored |-> past'.restored, minted |-> past'.minted],
         account' = [totp |-> account'.totp, codes |-> account'.codes],
         account'.codes \subseteq account.codes,
         replay' = [mem |-> replay'.mem, disk |-> replay'.disk],
         replay'.mem \in Int, replay'.disk \in Int
  PROVE  ProofTypes'
<1>1. /\ at' = [q \in Visit |-> at'[q]] /\ visit' = [q \in Visit |-> visit'[q]]
      /\ at'[r] = "grant" /\ visit'[r] = visit[r]
      /\ \A q \in Visit : q # r => at'[q] = at[q] /\ visit'[q] = visit[q]
  BY MoveFacts
<1>2. \A q \in Visit : /\ at'[q] = "remove" => visit'[q].kind = "recovery"
                       /\ at'[q] = "grant" => visit'[q].kind \in {"totp", "recovery", "passkey"}
  BY <1>1 DEF ProofTypes
<1>3. \A g \in DOMAIN past'.grants : /\ g = Use(g.kind, g.proof)
                                     /\ g.kind \in {"totp", "recovery", "passkey"}
  BY Zenon DEF ProofTypes
<1> QED
  BY <1>1, <1>2, <1>3, Zenon DEF ProofTypes, Use

\* A request that ends stands by.
LEMMA EndBystands == ASSUME NEW r, Done(r), UNCHANGED <<account, replay, past>> PROVE Bystands(r)
<1>1. Step(r, "idle", None) /\ "idle" # "grant" /\ "idle" # "remove"
  BY DEF Done
<1> QED
  BY <1>1, Zenon DEF Bystands

\* A code of the app is taken when it is later than any before it.
LEMMA TOTPOnce == ASSUME ProofInv, NEW r \in Visit, CheckTOTP(r) PROVE ProofInv'
<1>1. CASE Done(r) /\ UNCHANGED <<replay, allow, past>>
  <2>1. account' = account /\ replay' = replay /\ past' = past
    BY <1>1, Zenon DEF CheckTOTP
  <2> QED
    BY <1>1, <2>1, EndBystands, BystanderKeeps
<1>2. CASE ~(Done(r) /\ UNCHANGED <<replay, allow, past>>)
  <2>0. PICK step : step = visit[r].proof
    OBVIOUS
  <2>1. PICK ok \in BOOLEAN :
          /\ replay' = [mem |-> step, disk |-> IF ok THEN step ELSE replay.disk]
          /\ past' = IF ok THEN past
                     ELSE [past EXCEPT !.unrecorded = @ \cup {[kind |-> "totp", proof |-> step]}]
    BY <1>2, <2>0, Zenon DEF CheckTOTP
  <2>2. /\ at[r] = "check" /\ visit[r].kind = "totp" /\ account' = account
        /\ step \in (SecondNow - 1)..(SecondNow + 1) /\ step > replay.mem
        /\ Step(r, "grant", visit[r])
    BY <1>2, <2>0, Zenon DEF CheckTOTP, ReplayAccepts, Onto
  <2>3. step \in Int /\ replay.mem \in Int /\ replay.disk \in Int
    BY <2>2 DEF ProofInv, ProofTypes
  <2>4. replay'.mem = step /\ (ok => replay'.disk = step) /\ (~ok => replay'.disk = replay.disk)
    BY <2>1
  <2>5. /\ past'.grants = past.grants /\ past'.restored = past.restored /\ past'.minted = past.minted
        /\ past.unrecorded \subseteq past'.unrecorded /\ (~ok => Use("totp", step) \in past'.unrecorded)
        /\ past' = [grants |-> past'.grants, unrecorded |-> past'.unrecorded,
                    restored |-> past'.restored, minted |-> past'.minted]
    BY <2>1, Zenon DEF ProofInv, ProofTypes, Use
  <2>6. /\ replay' = [mem |-> replay'.mem, disk |-> replay'.disk]
        /\ replay'.mem \in Int /\ replay'.disk \in Int
    BY <2>1, <2>3, <2>4
  <2>7. ProofTypes'
    <3>1. ProofTypes /\ account'.codes \subseteq account.codes
          /\ account' = [totp |-> account'.totp, codes |-> account'.codes]
      BY <2>2, Zenon DEF ProofInv, ProofTypes
    <3> QED
      BY <2>2, <2>5, <2>6, <3>1, GrantTypes, Zenon
  <2>8. Answered("totp", step)' => ~Barred("totp", step) /\ Barred("totp", step)'
    <3>1. Answered("totp", step)' => ok
      BY <2>5, Zenon DEF Answered, Use
    <3>2. ~Barred("totp", step)
      BY <2>2, <2>3 DEF Barred
    <3>3. ok => Barred("totp", step)'
      BY <2>3, <2>4 DEF Barred
    <3> QED
      BY <3>1, <3>2, <3>3, Zenon
  <2>9. ASSUME NEW k, NEW p, Barred(k, p) PROVE Barred(k, p)'
    <3>1. CASE k = "totp"
      BY <2>2, <2>3, <2>4, <2>9, <3>1 DEF Barred
    <3>2. CASE k # "totp"
      BY <2>2, <2>5, <2>9, <3>2, Zenon DEF Barred
    <3> QED
      BY <3>1, <3>2
  <2>10. \A k \in {"totp", "recovery"} : \A p : Answered(k, p)' => UsedOnce(k, p)'
    <3>1. at[r] # "grant"
      BY <2>2
    <3> QED
      BY <2>0, <2>2, <2>5, <2>8, <2>9, <3>1, TakenOnce
  <2> QED
    BY <2>7, <2>10, Zenon DEF ProofInv
<1> QED
  BY <1>1, <1>2

\* A recovery code is taken while it is stored, and goes as it is taken.
LEMMA RecoveryOnce == ASSUME ProofInv, NEW r \in Visit, RemoveRecoveryCode(r) PROVE ProofInv'
<1>1. CASE Done(r) /\ UNCHANGED <<account, allow, past>>
  <2>1. account' = account /\ replay' = replay /\ past' = past
    BY <1>1, Zenon DEF RemoveRecoveryCode
  <2> QED
    BY <1>1, <2>1, EndBystands, BystanderKeeps
<1>2. CASE ~(Done(r) /\ UNCHANGED <<account, allow, past>>)
  <2>0. PICK rc : rc = visit[r].proof
    OBVIOUS
  <2>1. PICK ok \in BOOLEAN :
          /\ account' = IF ok THEN [account EXCEPT !.codes = @ \ {rc}] ELSE account
          /\ past' = IF ok THEN past
                     ELSE [past EXCEPT !.unrecorded = @ \cup {[kind |-> "recovery", proof |-> rc]}]
    BY <1>2, <2>0, Zenon DEF RemoveRecoveryCode
  <2>2. /\ at[r] = "remove" /\ replay' = replay /\ rc \in account.codes /\ Step(r, "grant", visit[r])
    BY <1>2, <2>0, Zenon DEF RemoveRecoveryCode, StillStored, Onto
  <2>3. ProofTypes /\ visit[r].kind = "recovery" /\ rc \in past.minted
    BY <2>2, Zenon DEF ProofInv, ProofTypes
  <2>4. /\ account' = [totp |-> account'.totp, codes |-> account'.codes]
        /\ account'.codes \subseteq account.codes /\ (ok => rc \notin account'.codes)
    BY <2>1, <2>3, Zenon DEF ProofTypes
  <2>5. /\ past'.grants = past.grants /\ past'.restored = past.restored /\ past'.minted = past.minted
        /\ past.unrecorded \subseteq past'.unrecorded /\ (~ok => Use("recovery", rc) \in past'.unrecorded)
        /\ past' = [grants |-> past'.grants, unrecorded |-> past'.unrecorded,
                    restored |-> past'.restored, minted |-> past'.minted]
    BY <2>1, Zenon DEF ProofInv, ProofTypes, Use
  <2>6. ProofTypes'
    <3>1. /\ replay' = [mem |-> replay'.mem, disk |-> replay'.disk]
          /\ replay'.mem \in Int /\ replay'.disk \in Int
      BY <2>2, <2>3, Zenon DEF ProofTypes
    <3> QED
      BY <2>2, <2>3, <2>4, <2>5, <3>1, GrantTypes, Zenon
  <2>7. Answered("recovery", rc)' => ~Barred("recovery", rc) /\ Barred("recovery", rc)'
    <3>1. Answered("recovery", rc)' => ok
      BY <2>5, Zenon DEF Answered, Use
    <3>2. ~Barred("recovery", rc)
      BY <2>2 DEF Barred
    <3>3. ok => Barred("recovery", rc)'
      BY <2>3, <2>4, <2>5, Zenon DEF Barred
    <3> QED
      BY <3>1, <3>2, <3>3, Zenon
  <2>8. ASSUME NEW k, NEW p, Barred(k, p) PROVE Barred(k, p)'
    BY <2>2, <2>4, <2>5, <2>8, Zenon DEF Barred
  <2>9. \A k \in {"totp", "recovery"} : \A p : Answered(k, p)' => UsedOnce(k, p)'
    <3>1. at[r] # "grant"
      BY <2>2
    <3> QED
      BY <2>0, <2>2, <2>3, <2>5, <2>7, <2>8, <3>1, TakenOnce
  <2> QED
    BY <2>6, <2>9, Zenon DEF ProofInv
<1> QED
  BY <1>1, <1>2

\* The session is granted, once, by the request that took the proof.
LEMMA GrantOnce == ASSUME ProofInv, NEW r \in Visit, Grant(r) PROVE ProofInv'
<1>0. PICK k0, p0 : k0 = visit[r].kind /\ p0 = visit[r].proof
  OBVIOUS
<1> DEFINE g0 == Use(k0, p0)
<1>1. /\ at[r] = "grant" /\ Step(r, "idle", None) /\ account' = account /\ replay' = replay
      /\ past' = [past EXCEPT !.grants = With(@, g0, 1 + (IF g0 \in DOMAIN @ THEN @[g0] ELSE 0))]
  BY <1>0, Zenon DEF Grant, Done, Use
<1>2. ProofTypes /\ k0 \in {"totp", "recovery", "passkey"} /\ r \in Granting(k0, p0)
  BY <1>0, <1>1, Zenon DEF ProofInv, ProofTypes, Granting
<1>3. /\ past'.grants = With(past.grants, g0, 1 + (IF g0 \in DOMAIN past.grants
                                                    THEN past.grants[g0] ELSE 0))
      /\ past'.unrecorded = past.unrecorded /\ past'.restored = past.restored
      /\ past'.minted = past.minted
      /\ past' = [grants |-> past'.grants, unrecorded |-> past'.unrecorded,
                  restored |-> past'.restored, minted |-> past'.minted]
  BY <1>1, <1>2 DEF ProofTypes
<1>4. /\ DOMAIN past'.grants = DOMAIN past.grants \cup {g0}
      /\ g0 \notin DOMAIN past.grants => past'.grants[g0] = 1 + 0
      /\ \A g \in DOMAIN past.grants : g # g0 => past'.grants[g] = past.grants[g]
  BY <1>3, Zenon DEF With
<1>5. /\ at' = [q \in Visit |-> at'[q]] /\ visit' = [q \in Visit |-> visit'[q]]
      /\ at'[r] = "idle" /\ visit'[r] = None
      /\ \A q \in Visit : q # r => at'[q] = at[q] /\ visit'[q] = visit[q]
      /\ \A k, p : ("idle" = "grant" => None.kind # k \/ None.proof # p)
                   => Granting(k, p)' \subseteq Granting(k, p)
  BY <1>1, <1>2, MoveFacts
<1>6. \A k, p : Granting(k, p)' \subseteq Granting(k, p)
  <2>1. "idle" # "grant"
    OBVIOUS
  <2> QED
    BY <1>5, <2>1, Zenon
<1>7. ProofTypes'
  <2>1. \A g \in DOMAIN past'.grants : /\ g = Use(g.kind, g.proof)
                                       /\ g.kind \in {"totp", "recovery", "passkey"}
    <3>1. g0.kind = k0 /\ g0.proof = p0
      BY DEF Use
    <3> QED
      BY <1>2, <1>4, <3>1, Zenon DEF ProofTypes
  <2>2. \A q \in Visit : /\ at'[q] = "remove" => visit'[q].kind = "recovery"
                         /\ at'[q] = "grant" => visit'[q].kind \in {"totp", "recovery", "passkey"}
    BY <1>2, <1>5 DEF ProofTypes
  <2>3. account'.codes \subseteq past'.minted
    BY <1>1, <1>2, <1>3, Zenon DEF ProofTypes
  <2> QED
    BY <1>1, <1>2, <1>3, <1>5, <2>1, <2>2, <2>3, Zenon DEF ProofTypes, Use
<1>8. ASSUME NEW k \in {"totp", "recovery"}, NEW p, Answered(k, p)' PROVE UsedOnce(k, p)'
  <2>1. UsedOnce(k, p)
    BY <1>3, <1>8, Zenon DEF ProofInv, Answered, Use
  <2>2. Barred(k, p)' = Barred(k, p)
    BY <1>1, <1>3, Zenon DEF Barred
  <2>3. CASE Use(k, p) # g0
    <3>1. Granted(k, p)' => Granted(k, p) /\ past'.grants[Use(k, p)] = past.grants[Use(k, p)]
      BY <1>4, <2>3, Zenon DEF Granted, Use
    <3> QED
      BY <1>6, <2>1, <2>2, <3>1, UseKept
  <2>4. CASE Use(k, p) = g0
    <3>1. k = k0 /\ p = p0
      BY <2>4, SameUse
    <3>2. Barred(k, p) /\ ~Granted(k, p) /\ \A q \in Granting(k, p) : q = r
      BY <1>2, <2>1, <3>1, Zenon DEF UsedOnce
    <3>3. past'.grants[Use(k, p)] = 1
      BY <1>4, <2>4, <3>2 DEF Granted
    <3>4. Granting(k, p)' = {}
      BY <1>5, <1>6, <3>2 DEF Granting
    <3> QED
      BY <2>2, <3>2, <3>3, <3>4, Zenon DEF UsedOnce, Use
  <2> QED
    BY <2>3, <2>4
<1> QED
  BY <1>7, <1>8, Zenon DEF ProofInv

\* Codes are stored anew: no request goes on to a grant, and a code that was
\* taken is not among them unless it counts as restored.
LEMMA CodesStored ==
  ASSUME ProofInv, \A k, p : Granting(k, p)' \subseteq Granting(k, p), replay' = replay,
         at' = [q \in Visit |-> at'[q]], visit' = [q \in Visit |-> visit'[q]],
         \A q \in Visit : at'[q] = "idle" \/ (at'[q] = at[q] /\ visit'[q] = visit[q]),
         past'.grants = past.grants, past'.unrecorded = past.unrecorded,
         past.restored \subseteq past'.restored, past.minted \subseteq past'.minted,
         past' = [grants |-> past'.grants, unrecorded |-> past'.unrecorded,
                  restored |-> past'.restored, minted |-> past'.minted],
         account' = [totp |-> account'.totp, codes |-> account'.codes],
         account'.codes \subseteq past'.minted,
         \A p \in account'.codes \ account.codes :
           \/ p \notin past.minted \/ p \in past'.restored
           \/ ~Granted("recovery", p) /\ Granting("recovery", p) = {}
  PROVE  ProofInv'
<1>1. \A q \in Visit : /\ at'[q] = "remove" => visit'[q].kind = "recovery"
                       /\ at'[q] = "grant" => visit'[q].kind \in {"totp", "recovery", "passkey"}
  BY Zenon DEF ProofInv, ProofTypes
<1>2. ProofTypes'
  BY <1>1, Zenon DEF ProofInv, ProofTypes, Use
<1>3. ASSUME NEW k \in {"totp", "recovery"}, NEW p, Answered(k, p)' PROVE UsedOnce(k, p)'
  <2>1. UsedOnce(k, p)
    BY <1>3, Zenon DEF ProofInv, Answered, Use
  <2>2. ASSUME Granted(k, p) \/ Granting(k, p) # {}, Barred(k, p) PROVE Barred(k, p)'
    <3>1. CASE k = "totp"
      BY <2>2, <3>1, Zenon DEF Barred
    <3>2. CASE k = "recovery"
      <4>1. p \in past.minted /\ p \notin account.codes
        BY <2>2, <3>2, Zenon DEF Barred
      <4>2. p \notin account'.codes
        BY <1>3, <2>2, <3>2, <4>1, Zenon DEF Answered
      <4> QED
        BY <3>2, <4>1, <4>2, Zenon DEF Barred
    <3> QED
      BY <3>1, <3>2, Zenon
  <2>3. Granted(k, p)' => Granted(k, p) /\ past'.grants[Use(k, p)] = past.grants[Use(k, p)]
    BY Zenon DEF Granted, Use
  <2> QED
    BY <2>1, <2>2, <2>3, UseKept
<1> QED
  BY <1>2, <1>3, Zenon DEF ProofInv

\* A request that ends, for the lemma above.
LEMMA EndMoves ==
  ASSUME ProofTypes, NEW r \in Visit, Done(r)
  PROVE  /\ \A k, p : Granting(k, p)' \subseteq Granting(k, p)
         /\ at' = [q \in Visit |-> at'[q]] /\ visit' = [q \in Visit |-> visit'[q]]
         /\ \A q \in Visit : at'[q] = "idle" \/ (at'[q] = at[q] /\ visit'[q] = visit[q])
<1>1. Step(r, "idle", None) /\ "idle" # "grant"
  BY DEF Done
<1>2. /\ at' = [q \in Visit |-> at'[q]] /\ visit' = [q \in Visit |-> visit'[q]]
      /\ at'[r] = "idle" /\ visit'[r] = None
      /\ \A q \in Visit : q # r => at'[q] = at[q] /\ visit'[q] = visit[q]
      /\ \A k, p : ("idle" = "grant" => None.kind # k \/ None.proof # p)
                   => Granting(k, p)' \subseteq Granting(k, p)
  BY <1>1, MoveFacts
<1> QED
  BY <1>1, <1>2, Zenon

\* SaveTOTP and SaveRecoveryCodes: the codes they bring back are counted as restored.
LEMMA SaveOnce == ASSUME ProofInv, NEW r \in Visit, SaveTOTP(r) \/ StoreCodes(r) PROVE ProofInv'
<1>0. PICK set : set = visit[r].codes
  OBVIOUS
<1>1. PICK ok \in BOOLEAN :
        /\ account' = IF ok THEN [totp |-> account'.totp, codes |-> set] ELSE account
        /\ past' = IF ok THEN [past EXCEPT !.minted = @ \cup set, !.restored = @ \cup Revived(set)]
                   ELSE past
  <2>1. CASE SaveTOTP(r)
    <3>1. PICK ok \in BOOLEAN :
            /\ account' = IF ok THEN [totp |-> visit[r].secret, codes |-> set] ELSE account
            /\ IF ok THEN Stores(set) ELSE UNCHANGED past
      BY <1>0, <2>1, Zenon DEF SaveTOTP
    <3> QED
      BY <3>1 DEF Stores
  <2>2. CASE StoreCodes(r)
    <3>1. PICK ok \in BOOLEAN :
            /\ account' = IF ok THEN [account EXCEPT !.codes = set] ELSE account
            /\ IF ok THEN Stores(set) ELSE UNCHANGED past
      BY <1>0, <2>2, Zenon DEF StoreCodes
    <3>2. account = [totp |-> account.totp, codes |-> account.codes]
      BY Zenon DEF ProofInv, ProofTypes
    <3> QED
      BY <3>1, <3>2 DEF Stores
  <2> QED
    BY <2>1, <2>2
<1>2. ProofTypes /\ Done(r) /\ replay' = replay
  BY Zenon DEF SaveTOTP, StoreCodes, ProofInv
<1>3. CASE ~ok
  BY <1>1, <1>2, <1>3, EndBystands, BystanderKeeps
<1>4. CASE ok
  <2>1. /\ past'.grants = past.grants /\ past'.unrecorded = past.unrecorded
        /\ past'.restored = past.restored \cup Revived(set) /\ past'.minted = past.minted \cup set
        /\ past' = [grants |-> past'.grants, unrecorded |-> past'.unrecorded,
                    restored |-> past'.restored, minted |-> past'.minted]
    BY <1>1, <1>2, <1>4, Zenon DEF ProofTypes
  <2>2. account'.codes = set /\ account' = [totp |-> account'.totp, codes |-> account'.codes]
    BY <1>1, <1>4
  <2>3. ASSUME NEW p \in account'.codes \ account.codes,
               Granted("recovery", p) \/ Granting("recovery", p) # {}
        PROVE  p \in past'.restored
    <3>1. p \in Revived(set)
      BY <2>2, <2>3, Zenon DEF Revived, Granted, Granting, Use
    <3> QED
      BY <2>1, <3>1, Zenon
  <2>4. /\ past.restored \subseteq past'.restored /\ past.minted \subseteq past'.minted
        /\ account'.codes \subseteq past'.minted
    BY <2>1, <2>2, Zenon
  <2>5. \A p \in account'.codes \ account.codes :
           \/ p \notin past.minted \/ p \in past'.restored
           \/ ~Granted("recovery", p) /\ Granting("recovery", p) = {}
    BY <2>3, Zenon
  <2> QED
    BY <1>2, <2>1, <2>2, <2>4, <2>5, EndMoves, CodesStored, Zenon
<1> QED
  BY <1>3, <1>4

\* Codes nobody has held before.
LEMMA FreshOnce ==
  ASSUME ProofInv, NEW set \in Fresh, account' = [account EXCEPT !.codes = set],
         past' = [past EXCEPT !.minted = @ \cup set], replay' = replay,
         \A k, p : Granting(k, p)' \subseteq Granting(k, p),
         at' = [q \in Visit |-> at'[q]], visit' = [q \in Visit |-> visit'[q]],
         \A q \in Visit : at'[q] = "idle" \/ (at'[q] = at[q] /\ visit'[q] = visit[q])
  PROVE  ProofInv'
<1>1. /\ past'.grants = past.grants /\ past'.unrecorded = past.unrecorded
      /\ past'.restored = past.restored /\ past'.minted = past.minted \cup set
      /\ past' = [grants |-> past'.grants, unrecorded |-> past'.unrecorded,
                  restored |-> past'.restored, minted |-> past'.minted]
  BY Zenon DEF ProofInv, ProofTypes
<1>2. account'.codes = set /\ account' = [totp |-> account'.totp, codes |-> account'.codes]
  BY DEF ProofInv, ProofTypes
<1>3. \A p \in set : p \notin past.minted
  BY Zenon DEF Fresh
<1>4. /\ past.restored \subseteq past'.restored /\ past.minted \subseteq past'.minted
      /\ account'.codes \subseteq past'.minted
      /\ \A p \in account'.codes \ account.codes :
           \/ p \notin past.minted \/ p \in past'.restored
           \/ ~Granted("recovery", p) /\ Granting("recovery", p) = {}
  BY <1>1, <1>2, <1>3, Zenon
<1> QED
  BY <1>1, <1>2, <1>4, CodesStored

\* A request is where it was: nothing is newly about to be granted.
LEMMA StillMoves ==
  ASSUME ProofTypes, UNCHANGED <<at, visit>>
  PROVE  /\ \A k, p : Granting(k, p)' \subseteq Granting(k, p)
         /\ at' = [q \in Visit |-> at'[q]] /\ visit' = [q \in Visit |-> visit'[q]]
         /\ \A q \in Visit : at'[q] = "idle" \/ (at'[q] = at[q] /\ visit'[q] = visit[q])
BY Zenon DEF ProofTypes, Granting

\* The codes a request for new ones mints were never handed out before
\* (handle2FARecovery).
LEMMA RenewOnce == ASSUME ProofInv, RenewCodes PROVE ProofInv'
<1>1. ProofTypes /\ UNCHANGED <<at, visit>> /\ replay' = replay
  BY Zenon DEF RenewCodes, ProofInv
<1>2. PICK set \in Fresh : account' = [account EXCEPT !.codes = set]
                           /\ past' = [past EXCEPT !.minted = @ \cup set]
  BY Zenon DEF RenewCodes, Mints
<1> QED
  BY <1>1, <1>2, StillMoves, FreshOnce

\* A restart: the step on disk bars what was recorded, and what it cannot read back
\* counts as unrecorded.
LEMMA RestartOnce == ASSUME ProofInv, WebRestart PROVE ProofInv'
<1>1. PICK lost \in BOOLEAN :
        /\ account' = account /\ NewTOTPReplay(lost)
        /\ at' = [r \in Visit |-> "idle"] /\ visit' = [r \in Visit |-> None]
        /\ past' = [past EXCEPT
             !.grants = [g \in {h \in DOMAIN @ : h.kind # "passkey"} |-> @[g]],
             !.unrecorded = @ \cup (IF lost THEN {g \in DOMAIN past.grants : g.kind = "totp"} ELSE {})]
  BY Zenon DEF WebRestart
<1>2. /\ past'.grants = [g \in {h \in DOMAIN past.grants : h.kind # "passkey"} |-> past.grants[g]]
      /\ past.unrecorded \subseteq past'.unrecorded
      /\ lost => \A g \in DOMAIN past.grants : g.kind = "totp" => g \in past'.unrecorded
      /\ past'.restored = past.restored /\ past'.minted = past.minted
      /\ past' = [grants |-> past'.grants, unrecorded |-> past'.unrecorded,
                  restored |-> past'.restored, minted |-> past'.minted]
  BY <1>1 DEF ProofInv, ProofTypes
<1>3. /\ DOMAIN past'.grants \subseteq DOMAIN past.grants
      /\ \A g \in DOMAIN past'.grants : past'.grants[g] = past.grants[g]
  BY <1>2, Zenon
<1>4. /\ replay' = [mem |-> replay'.mem, disk |-> replay'.disk]
      /\ ~lost => replay'.mem = replay.disk /\ replay'.disk = replay.disk
      /\ replay'.mem \in Int /\ replay'.disk \in Int
  BY <1>1 DEF ProofInv, ProofTypes, NewTOTPReplay
<1>5. \A r \in Visit : at'[r] = "idle"
  BY <1>1, Zenon
<1>6. ProofTypes'
  <2>1. at' = [r \in Visit |-> at'[r]] /\ visit' = [r \in Visit |-> visit'[r]]
    BY <1>1, Zenon
  <2>2. /\ account'.codes \subseteq past'.minted
        /\ account' = [totp |-> account'.totp, codes |-> account'.codes]
    BY <1>1, <1>2, Zenon DEF ProofInv, ProofTypes
  <2>3. \A g \in DOMAIN past'.grants : /\ g = Use(g.kind, g.proof)
                                       /\ g.kind \in {"totp", "recovery", "passkey"}
    BY <1>3, Zenon DEF ProofInv, ProofTypes
  <2>4. "idle" # "remove" /\ "idle" # "grant"
    BY Zenon
  <2> QED
    BY <1>2, <1>4, <1>5, <2>1, <2>2, <2>3, <2>4, Zenon DEF ProofTypes, Use
<1>7. ASSUME NEW k \in {"totp", "recovery"}, NEW p, Answered(k, p)' PROVE UsedOnce(k, p)'
  <2>1. UsedOnce(k, p)
    BY <1>2, <1>7, Zenon DEF ProofInv, Answered, Use
  <2>2. Granting(k, p)' = {}
    BY <1>5 DEF Granting
  <2>3. Granted(k, p)' => Granted(k, p) /\ past'.grants[Use(k, p)] = past.grants[Use(k, p)]
    BY <1>3, Zenon DEF Granted, Use
  <2>4. Granted(k, p) /\ Barred(k, p) => Barred(k, p)'
    <3>1. CASE k = "recovery"
      BY <1>1, <1>2, <3>1 DEF Barred
    <3>2. CASE k = "totp" /\ ~lost
      BY <1>4, <3>2, Zenon DEF Barred
    <3>3. CASE k = "totp" /\ lost
      <4>1. Use(k, p).kind = "totp" /\ Use(k, p)' = Use(k, p)
        BY <3>3 DEF Use
      <4>2. Use(k, p) \notin past'.unrecorded
        BY <1>7, <4>1, Zenon DEF Answered
      <4> QED
        BY <1>2, <3>3, <4>1, <4>2, Zenon DEF Granted
    <3> QED
      BY <3>1, <3>2, <3>3
  <2>5. Use(k, p)' = Use(k, p)
    BY DEF Use
  <2> QED
    BY <2>1, <2>2, <2>3, <2>4, <2>5, Zenon DEF UsedOnce
<1> QED
  BY <1>6, <1>7, Zenon DEF ProofInv

\* The steps that stand by.
LEMMA OtherSteps ==
  ASSUME NEW r \in Visit,
         \/ \E p \in DOMAIN pendings : \E kind, proof : VerifyPOST(r, p, kind, proof)
         \/ SpendAttempt(r) \/ CheckRecovery(r) \/ CheckPasskey(r) \/ TOTPConfirm(r)
         \/ EnrolUnverified(r) \/ TOTPDisable(r) \/ AddKey(r) \/ MintCodes(r) \/ RemoveKey(r)
         \/ \E k \in Key : PasskeyFinish(r, k) \/ PasskeyRemove(r, k)
  PROVE  Bystands(r)
<1> DEFINE Fine(pc, what) == (pc = "grant" => what.kind = "passkey")
                             /\ (pc = "remove" => what.kind = "recovery")
<1>1. /\ \A what : /\ Fine("spend", what) /\ Fine("check", what) /\ Fine("idle", what)
                   /\ Fine("savetotp", what) /\ Fine("addkey", what) /\ Fine("mint", what)
                   /\ Fine("storecodes", what) /\ Fine("removekey", what)
      /\ \A what : what.kind = "passkey" => Fine("grant", what)
      /\ \A what : what.kind = "recovery" => Fine("remove", what)
  OBVIOUS
<1>2. UNCHANGED <<account, replay>> /\ (past' = past \/ \E set : Mints(set))
  BY Zenon DEF VerifyPOST, SpendAttempt, CheckRecovery, CheckPasskey, TOTPConfirm, EnrolUnverified,
               TOTPDisable, AddKey, MintCodes, RemoveKey, PasskeyFinish, PasskeyRemove
<1> HIDE DEF Fine
<1>3. \E pc, what : Step(r, pc, what) /\ Fine(pc, what)
  <2>1. CASE \E p \in DOMAIN pendings : \E kind, proof : VerifyPOST(r, p, kind, proof)
    BY <1>1, <2>1, Zenon DEF VerifyPOST
  <2>2. CASE SpendAttempt(r)
    BY <1>1, <2>2, Zenon DEF SpendAttempt, ReservePendingAttempt, Onto, Done
  <2>3. CASE CheckRecovery(r)
    BY <1>1, <2>3, Zenon DEF CheckRecovery, Onto, Done
  <2>4. CASE CheckPasskey(r)
    BY <1>1, <2>4, Zenon DEF CheckPasskey, Onto, Done
  <2>5. CASE TOTPConfirm(r) \/ EnrolUnverified(r) \/ TOTPDisable(r)
    BY <1>1, <2>5, Zenon DEF TOTPConfirm, EnrolUnverified, TOTPDisable
  <2>6. CASE AddKey(r) \/ MintCodes(r) \/ RemoveKey(r)
    BY <1>1, <2>6, Zenon DEF AddKey, MintCodes, RemoveKey, Done
  <2>7. CASE \E k \in Key : PasskeyFinish(r, k) \/ PasskeyRemove(r, k)
    BY <1>1, <2>7, Zenon DEF PasskeyFinish, PasskeyRemove
  <2> QED
    BY <2>1, <2>2, <2>3, <2>4, <2>5, <2>6, <2>7, Zenon
<1> QED
  BY <1>2, <1>3, Zenon DEF Bystands, Fine

\* Every step keeps the invariant.
LEMMA OnceStep == ProofInv /\ [FactorNext]_factorVars => ProofInv'
<1> SUFFICES ASSUME ProofInv, [FactorNext]_factorVars PROVE ProofInv'
  OBVIOUS
<1>1. CASE UNCHANGED <<account, replay, past, at, visit>>
  <2>1. account' = account /\ replay' = replay /\ past' = past /\ at' = at /\ visit' = visit
    BY <1>1
  <2>2. ProofTypes'
    BY <2>1, Zenon DEF ProofInv, ProofTypes, Use
  <2>3. \A k, p : (UsedOnce(k, p)' <=> UsedOnce(k, p)) /\ Answered(k, p)' = Answered(k, p)
    <3>1. \A k, p : /\ Granted(k, p)' <=> Granted(k, p)
                    /\ Granting(k, p)' = Granting(k, p)
                    /\ Answered(k, p)' = Answered(k, p)
                    /\ Use(k, p)' = Use(k, p)
      BY <2>1, Zenon DEF Answered, Granted, Granting, Use
    <3>2. \A k, p : Barred(k, p)' <=> Barred(k, p)
      BY <2>1, Zenon DEF Barred
    <3> QED
      BY <2>1, <3>1, <3>2, Zenon DEF UsedOnce
  <2> QED
    BY <2>2, <2>3, Zenon DEF ProofInv
<1>2. CASE TimePasses \/ UNCHANGED factorVars
      \/ \E p \in Pid : PasswordStep(p) \/ \E ch \in Challenge : PasskeyBegin(p, ch)
  <2>1. UNCHANGED <<account, replay, past, at, visit>>
    BY <1>2, Zenon DEF TimePasses, factorVars, PasswordStep, PasskeyBegin
  <2> QED
    BY <1>1, <2>1
<1>3. CASE RenewCodes \/ WebRestart
  BY <1>3, RenewOnce, RestartOnce
<1>4. ASSUME NEW r \in Visit,
             CheckTOTP(r) \/ RemoveRecoveryCode(r) \/ Grant(r) \/ SaveTOTP(r) \/ StoreCodes(r)
      PROVE  ProofInv'
  BY <1>4, TOTPOnce, RecoveryOnce, GrantOnce, SaveOnce
<1>5. ASSUME NEW r \in Visit,
         \/ \E p \in DOMAIN pendings : \E kind, proof : VerifyPOST(r, p, kind, proof)
         \/ SpendAttempt(r) \/ CheckRecovery(r) \/ CheckPasskey(r) \/ TOTPConfirm(r)
         \/ EnrolUnverified(r) \/ TOTPDisable(r) \/ AddKey(r) \/ MintCodes(r) \/ RemoveKey(r)
         \/ \E k \in Key : PasskeyFinish(r, k) \/ PasskeyRemove(r, k)
      PROVE  ProofInv'
  BY <1>5, OtherSteps, BystanderKeeps
<1> QED
  BY <1>2, <1>3, <1>4, <1>5, Zenon DEF FactorNext

\* FactorOnce: however many requests post it, at once or after a restart, a code of
\* the app or a recovery code opens one session, unless its use could not be written
\* or read back, or another page's save brought the code back (totpReplay.accept,
\* newTOTPReplay, RemoveRecoveryCode).
THEOREM FactorOnce == FactorSpec => []ProofOnce
BY OnceStart, OnceStep, OnceOut, PTL DEF FactorSpec
===============================================================================
