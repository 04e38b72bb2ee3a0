------------------------------ MODULE Sessions -------------------------------
(***************************************************************************)
(* The web interface's sessions.  A session is a signed cookie: the server *)
(* keeps no list of them, only the ids that were logged out and, for each  *)
(* request, the credentials now in force.  A cookie ends by age, by        *)
(* logout, or because the fingerprint of the credentials it carries is no  *)
(* longer the current one; every response signs the session again, with a  *)
(* fresh age.                                                              *)
(*                                                                         *)
(* Time runs in ticks of half a second, because a cookie's age counts in   *)
(* whole seconds and a logout's record does not.  Of the cookies signed    *)
(* for one session and one fingerprint only the youngest is kept: it is    *)
(* accepted whenever an older one is.                                      *)
(***************************************************************************)
EXTENDS Naturals, FiniteSets, Functions

CONSTANTS
  Sid,             \* session ids drawn by newSessionID
  Passkey,         \* passkeys that may be enrolled
  Request,         \* requests in flight at a time
  SessionLifetime, \* seconds
  WriteTimeout,    \* ticks within which a response reaches the browser
  SessionBounds    \* bounds of the runs: ticks, logins, changes and restarts

ASSUME SessionsAssumption ==
  /\ SessionLifetime \in Nat /\ WriteTimeout \in 0..(2 * SessionLifetime)
  /\ SessionBounds \subseteq [ticks : Nat, logins : Nat, passwords : Nat, passkeys : Nat,
                             restarts : Nat]

VARIABLES
  tick,
  password,  \* which password is set
  passkeys,  \* the enrolled passkeys
  cookies,   \* the second each signed session was last stamped
  used,      \* session ids drawn
  revoked,   \* revokedSessions: when each id was logged out
  serving,   \* the authenticated requests being served
  bound,     \* what the run may still do
  loggedOut, \* history: ids logged out in this process
  replaced   \* history: ids idle when another session changed the password

sessionVars == <<tick, password, passkeys, cookies, used, revoked, serving, bound, loggedOut,
                 replaced>>

Free == [pc |-> "free"]
Second == tick \div 2

\* credentialFingerprint of what is in force.
Fingerprint == [password |-> password, passkeys |-> passkeys]

\* Faulty: remembered for one lifetime and not a second longer.
BugRetention == 2 * SessionLifetime

RevocationRetention == 2 * (SessionLifetime + 1)
SessionRevoked(sid) == sid \in DOMAIN revoked /\ tick - revoked[sid] <= RevocationRetention

\* A cookie decodes while its age in seconds is within the lifetime (external).
Decodes(c) == c \in DOMAIN cookies /\ Second - cookies[c] <= SessionLifetime

\* sessionUser: signed in, not logged out, and of the credentials in force.
SignedIn(c) == Decodes(c) /\ ~SessionRevoked(c.sid) /\ c.print = Fingerprint

\* sessionStore.Save: a revoked identity is not signed again.
Save(sid, print) ==
  LET c == [sid |-> sid, print |-> print] IN
  cookies' = IF SessionRevoked(sid) THEN cookies
             ELSE [d \in DOMAIN cookies \cup {c} |-> IF d = c THEN Second ELSE cookies[d]]

SessionsInit ==
  /\ tick = 0 /\ password = 0 /\ passkeys = {} /\ used = {}
  /\ bound \in SessionBounds
  /\ cookies = [c \in {} |-> 0] /\ revoked = [s \in {} |-> 0]
  /\ serving = [r \in Request |-> Free]
  /\ loggedOut = {} /\ replaced = {}

Spend(what) == bound[what] > 0 /\ bound' = [bound EXCEPT ![what] = @ - 1]

Tick ==
  /\ tick' = tick + 1 /\ Spend("ticks")
  /\ UNCHANGED <<password, passkeys, cookies, used, revoked, serving, loggedOut, replaced>>

\* grantSession at the end of a login.
GrantSession(sid) ==
  /\ sid \notin used /\ used' = used \cup {sid} /\ Spend("logins")
  /\ Save(sid, Fingerprint)
  /\ UNCHANGED <<tick, password, passkeys, revoked, serving, loggedOut, replaced>>

\* RequireAuth: a signed-in request is served with the session it presented.
Authenticate(r, c, work) ==
  /\ serving[r] = Free /\ SignedIn(c)
  /\ serving' = [serving EXCEPT ![r] = [pc |-> work, sid |-> c.sid, print |-> c.print,
                                           since |-> tick]]
  /\ UNCHANGED <<tick, password, passkeys, cookies, used, revoked, bound, loggedOut, replaced>>

\* A public page that sets a flash saves whatever session it was shown.
SaveFlash(c) ==
  /\ Decodes(c) /\ Save(c.sid, c.print)
  /\ UNCHANGED <<tick, password, passkeys, used, revoked, serving, bound, loggedOut, replaced>>

\* The sessions other than sid's with no request being served.
IdleOthers(sid) ==
  used \ ({sid} \cup {serving[r].sid : r \in {q \in Request : serving[q] # Free}})

\* handlePasswordPOST: the new password is saved, then the session re-stamped.
ChangePassword(r) ==
  /\ serving[r].pc = "password" /\ Spend("passwords")
  /\ password' = password + 1
  /\ serving' = [serving EXCEPT ![r].pc = "restamp"]
  /\ replaced' = replaced \cup IdleOthers(serving[r].sid)
  /\ UNCHANGED <<tick, passkeys, cookies, used, revoked, loggedOut>>

\* handlePasskeyFinish and handlePasskeyRemove, up to the re-stamp.
ChangePasskey(r, k) ==
  /\ serving[r].pc = "passkey" /\ Spend("passkeys")
  /\ passkeys' = IF k \in passkeys THEN passkeys \ {k} ELSE passkeys \cup {k}
  /\ serving' = [serving EXCEPT ![r].pc = "restamp"]
  /\ UNCHANGED <<tick, password, cookies, used, revoked, loggedOut, replaced>>

\* restampSession: the acting session carries the credentials now in force.
Restamp(r) == Save(serving[r].sid, Fingerprint)

\* The response: a changed credential re-stamps, anything else renews, and
\* a response past the server's write timeout carries no cookie to anyone.
Respond(r) ==
  /\ serving[r] # Free
  /\ CASE tick - serving[r].since > WriteTimeout -> UNCHANGED cookies
       [] tick - serving[r].since <= WriteTimeout /\ serving[r].pc = "restamp" -> Restamp(r)
       [] OTHER -> Save(serving[r].sid, serving[r].print)
  /\ serving' = [serving EXCEPT ![r] = Free]
  /\ UNCHANGED <<tick, password, passkeys, used, revoked, bound, loggedOut, replaced>>

\* handleLogout and revokeSession; records past their retention are swept.
Logout(c) ==
  /\ Decodes(c)
  /\ revoked' = [s \in {t \in DOMAIN revoked : tick - revoked[t] <= RevocationRetention}
                       \cup {c.sid} |-> IF s = c.sid THEN tick ELSE revoked[s]]
  /\ loggedOut' = loggedOut \cup {c.sid}
  /\ UNCHANGED <<tick, password, passkeys, cookies, used, serving, bound, replaced>>

\* A restart forgets the logouts, as the comment on revokedSessions says.
RestartWeb ==
  /\ Spend("restarts")
  /\ revoked' = [s \in {} |-> 0] /\ loggedOut' = {}
  /\ serving' = [r \in Request |-> Free]
  /\ UNCHANGED <<tick, password, passkeys, cookies, used, replaced>>

SessionsNext ==
  \/ Tick \/ RestartWeb
  \/ \E sid \in Sid : GrantSession(sid)
  \/ \E c \in DOMAIN cookies : SaveFlash(c) \/ Logout(c)
  \/ \E r \in Request :
       \/ \E c \in DOMAIN cookies : \E work \in {"page", "password", "passkey"} :
            Authenticate(r, c, work)
       \/ ChangePassword(r) \/ Respond(r)
       \/ \E k \in Passkey : ChangePasskey(r, k)

SessionsSpec == SessionsInit /\ [][SessionsNext]_sessionVars

-----------------------------------------------------------------------------
\* EndedStaysEnded: a session that was logged out, or that had no request under
\* way when another one changed the password, never signs anyone in again: no
\* cookie of it, whatever was renewed, flashed or re-stamped before or since
\* (revokedSessions, sessionStore.Save, credentialFingerprint; a restart forgets
\* the logouts, the stated gap).
EndedStaysEnded == \A c \in DOMAIN cookies : c.sid \in loggedOut \cup replaced => ~SignedIn(c)
=============================================================================
