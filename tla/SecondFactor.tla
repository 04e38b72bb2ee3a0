---------------------------- MODULE SecondFactor -----------------------------
(***************************************************************************)
(* The second step of a login and the pages that edit the factors.  A      *)
(* correct password leaves an intermediate state, a signed cookie good for *)
(* a short time and a few attempts; a code from the authenticator app, a   *)
(* recovery code or a passkey's answer turns it into a session.  Requests  *)
(* of all these kinds overlap: each handler takes its locks one at a time, *)
(* so its steps here are the critical sections of the code.                *)
(*                                                                         *)
(* Time runs in ticks of half a second, as in Sessions; one authenticator  *)
(* code lasts one second.  A cookie once signed may be presented again.    *)
(***************************************************************************)
EXTENDS Naturals, FiniteSets, Functions

CONSTANTS
  Pid,                \* ids of intermediate states
  Code,               \* recovery codes that may be minted
  Key,                \* passkeys
  Challenge,          \* passkey challenges
  Visit,              \* requests in flight at a time
  MaxAttempts,        \* pendingMaxAttempts
  PendingLifetime,    \* seconds
  ChallengeLifetime,  \* loginPasskeyPendingLifetime, seconds
  FactorBounds        \* bounds of the runs: ticks, logins, attempts, edits, failing writes, restarts

ASSUME SecondFactorAssumption ==
  /\ MaxAttempts \in Nat /\ PendingLifetime \in Nat /\ ChallengeLifetime \in Nat
  /\ IsFiniteSet(Key)
  /\ FactorBounds \subseteq [ticks : Nat, logins : Nat, attempts : Nat, edits : Nat, fails : Nat,
                            restarts : Nat, totp : Nat, keys : SUBSET Key, codes : SUBSET Code,
                            corrupt : BOOLEAN]

VARIABLES
  now,        \* half seconds
  account,    \* web.toml: the TOTP secret (0 is none) and the recovery codes
  keys,       \* the passkey store, in memory and in passkeys.json
  replay,     \* the last accepted TOTP step, in memory and on disk
  pendings,   \* the intermediate states issued
  attempts,   \* pendingAttempts
  challenges, \* when each login challenge was signed
  spent,      \* spentChallenges: when each record lapses
  at,         \* where each request being served is
  visit,      \* and what it carries
  allow,      \* what the run may still do
  checks,     \* history: the proofs looked at for each state while it lives
  past        \* history, see Past

factorVars == <<now, account, keys, replay, pendings, attempts, challenges, spent, at, visit,
                allow, checks, past>>
ledger == <<now, pendings, attempts, checks>>  \* what only a login's first steps touch

None == [kind |-> "none"]
SecondNow == now \div 2
Empty == [x \in {} |-> 0]
With(f, x, v) == [y \in DOMAIN f \cup {x} |-> IF y = x THEN v ELSE f[y]]

\* What the properties look back on: sessions per proof, the proofs whose use
\* could not be recorded, the codes a save brought back, the codes minted.
Past == [grants |-> Empty, unrecorded |-> {}, restored |-> {}, minted |-> {}]

May(what) == allow[what] > 0 /\ allow' = [allow EXCEPT ![what] = @ - 1]

FactorInit ==
  \E b \in FactorBounds :
    /\ now = 2 /\ allow = b
    /\ account = [totp |-> b.totp, codes |-> b.codes]
    /\ keys = [mem |-> b.keys, disk |-> b.keys, corrupt |-> b.corrupt]
    /\ replay = [mem |-> 0, disk |-> 0]
    /\ pendings = Empty /\ attempts = Empty /\ challenges = Empty /\ spent = Empty
    /\ at = [r \in Visit |-> "idle"] /\ visit = [r \in Visit |-> None] /\ checks = Empty
    /\ past = [Past EXCEPT !.minted = b.codes]

FactorCount == (IF account.totp > 0 THEN 1 ELSE 0) + Cardinality(keys.mem)
               + (IF keys.corrupt THEN 1 ELSE 0)
HasSecondFactor == FactorCount > 0

MayRemoveFactor == ~keys.corrupt /\ FactorCount > 1
FactorPrint == [totp |-> account.totp, keys |-> keys.mem]

Step(r, pc, what) == at' = [at EXCEPT ![r] = pc] /\ visit' = [visit EXCEPT ![r] = what]
Onto(r, pc) == Step(r, pc, visit[r])
Done(r) == Step(r, "idle", None)

TimePasses ==
  /\ May("ticks") /\ now' = now + 1
  /\ UNCHANGED <<account, keys, replay, pendings, attempts, challenges, spent, at, visit,
                 checks, past>>

\* handleLoginPOST after a correct password: without a factor it is a session.
PasswordStep(p) ==
  /\ HasSecondFactor /\ p \notin DOMAIN pendings /\ May("logins")
  /\ pendings' = With(pendings, p, [print |-> FactorPrint, issued |-> SecondNow])
  /\ UNCHANGED <<now, account, keys, replay, attempts, challenges, spent, at, visit,
                 checks, past>>

\* pendingAttemptCount and the sweep of reservePendingAttempt.
Counted(p) == p \in DOMAIN attempts /\ now - attempts[p].begun <= 2 * PendingLifetime
AttemptCount(p) == IF Counted(p) THEN attempts[p].n ELSE 0

\* The age up to which readPending takes the cookie.
Lives(p) == now - 2 * pendings[p].issued <= 2 * PendingLifetime

\* readPending and pendingForRequest.
PendingForRequest(p) ==
  /\ p \in DOMAIN pendings /\ Lives(p)
  /\ AttemptCount(p) < MaxAttempts
  /\ pendings[p].print = FactorPrint

\* handleLoginPasskeyBegin.
PasskeyBegin(p, c) ==
  /\ PendingForRequest(p) /\ keys.mem # {} /\ c \notin DOMAIN challenges
  /\ challenges' = With(challenges, c, SecondNow)
  /\ UNCHANGED <<ledger, account, keys, replay, spent, at, visit, allow, past>>

\* handleLoginVerifyPOST and handleLoginPasskeyFinish: the state is read ...
VerifyPOST(r, p, kind, proof) ==
  /\ at[r] = "idle" /\ PendingForRequest(p) /\ May("attempts")
  /\ Step(r, "spend", [pid |-> p, kind |-> kind, proof |-> proof])
  /\ UNCHANGED <<ledger, account, keys, replay, challenges, spent, past>>

\* The history with one more proof looked at for p.
Looked(p) == IF Lives(p) THEN With(checks, p, 1 + (IF p \in DOMAIN checks THEN checks[p] ELSE 0))
             ELSE checks

\* Faulty: the charge trusts the count that was read before it.
BugReserve(r) ==
  LET p == visit[r].pid IN
  /\ attempts' = With(attempts, p, [n |-> AttemptCount(p) + 1, begun |-> now])
  /\ checks' = Looked(p)
  /\ Onto(r, "check")

\* ... then an attempt is charged, before the code is looked at; by then the state
\* may have expired and its count been swept.
ReservePendingAttempt(r) ==
  LET p == visit[r].pid
      left == [q \in {q \in DOMAIN attempts : Counted(q)} |-> attempts[q]]
      c == IF p \in DOMAIN left THEN left[p] ELSE [n |-> 0, begun |-> now]
  IN IF c.n >= MaxAttempts
     THEN attempts' = left /\ Done(r) /\ UNCHANGED checks
     ELSE /\ attempts' = With(left, p, [n |-> c.n + 1, begun |-> c.begun])
          /\ checks' = Looked(p)
          /\ Onto(r, "check")

SpendAttempt(r) ==
  /\ at[r] = "spend" /\ ReservePendingAttempt(r)
  /\ UNCHANGED <<now, account, keys, replay, pendings, challenges, spent, allow, past>>

\* A write that may fail, as the run's bounds allow.
Write(ok) == IF ok THEN UNCHANGED allow ELSE May("fails")

\* totpReplay.accept takes a step later than any before it.
ReplayAccepts(step) == step > replay.mem

\* acceptTOTP and totpReplay.accept; one second either way matches.
CheckTOTP(r) ==
  /\ at[r] = "check" /\ visit[r].kind = "totp"
  /\ LET step == visit[r].proof IN
     IF account.totp > 0 /\ step \in (SecondNow - 1)..(SecondNow + 1) /\ ReplayAccepts(step)
     THEN /\ Onto(r, "grant")
          /\ \E ok \in BOOLEAN :
               /\ Write(ok)
               /\ replay' = [mem |-> step, disk |-> IF ok THEN step ELSE replay.disk]
               /\ past' = IF ok THEN past
                          ELSE [past EXCEPT !.unrecorded = @ \cup {[kind |-> "totp", proof |-> step]}]
     ELSE Done(r) /\ UNCHANGED <<replay, allow, past>>
  /\ UNCHANGED <<ledger, account, keys, challenges, spent>>

\* matchRecoveryCode against the codes as they are read.
CheckRecovery(r) ==
  /\ at[r] = "check" /\ visit[r].kind = "recovery"
  /\ IF visit[r].proof \in account.codes THEN Onto(r, "remove") ELSE Done(r)
  /\ UNCHANGED <<ledger, account, keys, replay, challenges, spent, allow, past>>

\* Faulty: the set that was matched is written back, without the code.
BugRemoveStale(c) == TRUE

\* RemoveRecoveryCode finds the code still stored.
StillStored(c) == c \in account.codes

\* RemoveRecoveryCode; a failed write leaves the code and grants the session.
RemoveRecoveryCode(r) ==
  /\ at[r] = "remove"
  /\ LET c == visit[r].proof IN
     IF StillStored(c)
     THEN /\ Onto(r, "grant")
          /\ \E ok \in BOOLEAN :
               /\ Write(ok)
               /\ account' = IF ok THEN [account EXCEPT !.codes = @ \ {c}] ELSE account
               /\ past' = IF ok THEN past
                          ELSE [past EXCEPT !.unrecorded = @ \cup {[kind |-> "recovery", proof |-> c]}]
     ELSE Done(r) /\ UNCHANGED <<account, allow, past>>
  /\ UNCHANGED <<ledger, keys, replay, challenges, spent>>

\* A challenge cookie decodes while its age in seconds is within its lifetime.
ChallengeRead(c) == c \in DOMAIN challenges /\ SecondNow - challenges[c] <= ChallengeLifetime

\* spendChallenge: records whose time is past are swept first.
SpendChallenge(c) ==
  LET kept == [d \in {d \in DOMAIN spent : now <= spent[d]} |-> spent[d]] IN
  spent' = IF c \in DOMAIN kept THEN kept ELSE With(kept, c, now + 2 * ChallengeLifetime)

\* handleLoginPasskeyFinish: the challenge, then the assertion of a passkey.
CheckPasskey(r) ==
  /\ at[r] = "check" /\ visit[r].kind = "passkey"
  /\ LET c == visit[r].proof IN
     IF ChallengeRead(c)
     THEN /\ SpendChallenge(c)
          /\ \/ Done(r)
             \/ /\ ~(c \in DOMAIN spent /\ now <= spent[c]) /\ keys.mem # {}
                /\ Onto(r, "grant")
     ELSE Done(r) /\ UNCHANGED spent
  /\ UNCHANGED <<ledger, account, keys, replay, challenges, allow, past>>

\* clearPending and grantSession.
Grant(r) ==
  /\ at[r] = "grant" /\ Done(r)
  /\ LET g == [kind |-> visit[r].kind, proof |-> visit[r].proof] IN
     past' = [past EXCEPT !.grants = With(@, g, 1 + (IF g \in DOMAIN @ THEN @[g] ELSE 0))]
  /\ UNCHANGED <<ledger, account, keys, replay, challenges, spent, allow>>

-----------------------------------------------------------------------------
\* The pages that edit the factors, each for a signed-in operator.

\* What the first factor mints: codes nobody has held before.
Fresh == {{c} : c \in Code \ past.minted}
Mints(set) == past' = [past EXCEPT !.minted = @ \cup set]

\* The codes stored with a new secret: minted with the first factor only.
CodesFor(set) == IF FactorCount = 0 /\ account.codes = {} THEN set \in Fresh ELSE set = account.codes

\* handle2FAConfirm: whether this is the first factor is read, and the codes ...
TOTPConfirm(r) ==
  /\ at[r] = "idle" /\ May("edits")
  /\ \E set \in SUBSET Code :
       /\ CodesFor(set)
       /\ Step(r, "savetotp", [secret |-> allow.edits, codes |-> set]) /\ Mints(set)
  /\ UNCHANGED <<ledger, account, keys, replay, challenges, spent>>

\* handle2FAEnrolUnverified: a first factor whose code never matched.
EnrolUnverified(r) ==
  /\ at[r] = "idle" /\ ~HasSecondFactor /\ May("edits")
  /\ \E set \in Fresh :
       Step(r, "savetotp", [secret |-> allow.edits, codes |-> set]) /\ Mints(set)
  /\ UNCHANGED <<ledger, account, keys, replay, challenges, spent>>

\* handle2FADisable: may the factor go, and which codes are carried through ...
TOTPDisable(r) ==
  /\ at[r] = "idle" /\ MayRemoveFactor /\ May("edits")
  /\ Step(r, "savetotp", [secret |-> 0, codes |-> account.codes])
  /\ UNCHANGED <<ledger, account, keys, replay, challenges, spent, past>>

\* The codes a save would bring back: spent since the request read them.
Revived(set) == {c \in set \ account.codes : [kind |-> "recovery", proof |-> c] \in DOMAIN past.grants
                   \/ \E q \in Visit : at[q] = "grant" /\ visit[q].kind = "recovery"
                                       /\ visit[q].proof = c}

Stores(set) == past' = [past EXCEPT !.minted = @ \cup set, !.restored = @ \cup Revived(set)]

\* ... and SaveTOTP writes both; a failed write changes nothing.
SaveTOTP(r) ==
  /\ at[r] = "savetotp" /\ Done(r)
  /\ \E ok \in BOOLEAN :
       /\ Write(ok)
       /\ account' = IF ok THEN [totp |-> visit[r].secret, codes |-> visit[r].codes] ELSE account
       /\ IF ok THEN Stores(visit[r].codes) ELSE UNCHANGED past
  /\ UNCHANGED <<ledger, keys, replay, challenges, spent>>

\* handle2FARecovery: fresh codes replace the old ones.
RenewCodes ==
  /\ HasSecondFactor /\ May("edits")
  /\ \E set \in Fresh : /\ account' = [account EXCEPT !.codes = set]
                        /\ Mints(set)
  /\ UNCHANGED <<ledger, keys, replay, challenges, spent, at, visit>>

\* passkeyStore.saveLocked: the set in memory stays changed if the write fails; an
\* unreadable file is moved aside first, and is known again even if the write then
\* fails.  The move may be what fails.
SaveKeys(set, ok) ==
  /\ Write(ok)
  /\ \E moved \in {ok, TRUE} :
       keys' = [mem |-> set, disk |-> IF ok THEN set ELSE keys.disk,
                corrupt |-> keys.corrupt /\ ~moved]

\* handlePasskeyFinish: is this the first factor, ...
PasskeyFinish(r, k) ==
  /\ at[r] = "idle" /\ k \notin keys.mem /\ May("edits")
  /\ Step(r, "addkey", [key |-> k, first |-> FactorCount = 0])
  /\ UNCHANGED <<ledger, account, keys, replay, challenges, spent, past>>

\* ... the passkey is stored, or the operator told that it was not, ...
AddKey(r) ==
  /\ at[r] = "addkey"
  /\ \E ok \in BOOLEAN :
       /\ SaveKeys(keys.mem \cup {visit[r].key}, ok)
       /\ IF ok /\ visit[r].first THEN Step(r, "mint", None) ELSE Done(r)
  /\ UNCHANGED <<ledger, account, replay, challenges, spent, past>>

\* ... the first factor brings codes, unless some are stored, ...
MintCodes(r) ==
  /\ at[r] = "mint"
  /\ IF account.codes = {}
     THEN \E set \in Fresh : Step(r, "storecodes", [codes |-> set]) /\ Mints(set)
     ELSE Done(r) /\ UNCHANGED past
  /\ UNCHANGED <<ledger, account, keys, replay, challenges, spent, allow>>

\* ... and SaveRecoveryCodes writes them over whatever another page stored since.
StoreCodes(r) ==
  /\ at[r] = "storecodes" /\ Done(r)
  /\ \E ok \in BOOLEAN :
       /\ Write(ok)
       /\ account' = IF ok THEN [account EXCEPT !.codes = visit[r].codes] ELSE account
       /\ IF ok THEN Stores(visit[r].codes) ELSE UNCHANGED past
  /\ UNCHANGED <<ledger, keys, replay, challenges, spent>>

\* handlePasskeyRemove: the rule is asked, then the passkey removed.
PasskeyRemove(r, k) ==
  /\ at[r] = "idle" /\ MayRemoveFactor /\ k \in keys.mem /\ May("edits")
  /\ Step(r, "removekey", [key |-> k])
  /\ UNCHANGED <<ledger, account, keys, replay, challenges, spent, past>>

RemoveKey(r) ==
  /\ at[r] = "removekey" /\ Done(r)
  /\ \E ok \in BOOLEAN : SaveKeys(keys.mem \ {visit[r].key}, ok)
  /\ UNCHANGED <<ledger, account, replay, challenges, spent, past>>

\* newTOTPReplay: a store that is gone, or that cannot be read or parsed, is none.
NewTOTPReplay(lost) ==
  replay' \in IF lost THEN [mem : {0}, disk : {0, replay.disk}]
             ELSE {[mem |-> replay.disk, disk |-> replay.disk]}

\* A restart keeps what is on disk and can be read.
WebRestart ==
  \E lost \in BOOLEAN :
    /\ allow.restarts > 0 /\ (lost => allow.fails > 0)
    /\ allow' = [allow EXCEPT !.restarts = @ - 1, !.fails = IF lost THEN @ - 1 ELSE @]
    /\ keys' = [keys EXCEPT !.mem = keys.disk] /\ NewTOTPReplay(lost)
    /\ attempts' = Empty /\ spent' = Empty /\ checks' = Empty
    /\ at' = [r \in Visit |-> "idle"] /\ visit' = [r \in Visit |-> None]
    /\ past' = [past EXCEPT
         !.grants = [g \in {h \in DOMAIN @ : h.kind # "passkey"} |-> @[g]],
         !.unrecorded = @ \cup (IF lost THEN {g \in DOMAIN past.grants : g.kind = "totp"} ELSE {})]
    /\ UNCHANGED <<now, account, pendings, challenges>>

Proofs(kind) ==
  CASE kind = "totp" -> SecondNow..(SecondNow + 1) [] kind = "recovery" -> past.minted
    [] OTHER -> DOMAIN challenges

FactorNext ==
  \/ TimePasses \/ RenewCodes \/ WebRestart
  \/ \E p \in Pid : PasswordStep(p) \/ \E c \in Challenge : PasskeyBegin(p, c)
  \/ \E r \in Visit :
       \/ \E p \in DOMAIN pendings, kind \in {"totp", "recovery", "passkey"} :
            \E proof \in Proofs(kind) : VerifyPOST(r, p, kind, proof)
       \/ SpendAttempt(r) \/ CheckTOTP(r) \/ CheckRecovery(r) \/ RemoveRecoveryCode(r)
       \/ CheckPasskey(r) \/ Grant(r) \/ TOTPConfirm(r) \/ EnrolUnverified(r) \/ TOTPDisable(r)
       \/ SaveTOTP(r) \/ AddKey(r) \/ MintCodes(r) \/ StoreCodes(r) \/ RemoveKey(r)
       \/ \E k \in Key : PasskeyFinish(r, k) \/ PasskeyRemove(r, k)

FactorSpec == FactorInit /\ [][FactorNext]_factorVars

-----------------------------------------------------------------------------
\* AttemptBudget: while an intermediate state lives, at most MaxAttempts codes or
\* assertions are looked at for it, however its requests overlap and however long
\* each waits between its read and its charge (reservePendingAttempt).  A restart
\* gives a fresh budget, by its comment; so does the sweep, to a request that read
\* the state alive and is charged after it expired.
AttemptBudget == \A p \in DOMAIN checks : checks[p] <= MaxAttempts

Times(g) == IF g \in DOMAIN past.grants THEN past.grants[g] ELSE 0

\* ProofOnce: an authenticator step or a recovery code opens one session, also
\* when it is posted twice at once or after a restart, unless its use could not
\* be written or read back (totpReplay.accept, newTOTPReplay, RemoveRecoveryCode)
\* or another page's save brought the code back.
ProofOnce ==
  \A g \in DOMAIN past.grants :
    g.kind # "passkey" /\ g \notin past.unrecorded
    /\ ~(g.kind = "recovery" /\ g.proof \in past.restored) => Times(g) = 1
=============================================================================
