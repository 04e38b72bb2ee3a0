---------------------------- MODULE PagesProofs -------------------------------
(***************************************************************************)
(* State behind the pages of the web interface: the sessions, the first-   *)
(* run wizard and the configuration of the daemon, for any number of       *)
(* sessions, browsers, edits and restarts. Each part has its own variables *)
(* and its own theorem.                                                    *)
(***************************************************************************)
EXTENDS Sessions, FirstRun, CoreConfig, TLAPS

-------------------------------------------------------------------------------

\* The sessions (EndedStaysEnded). A logout is remembered only for a time, and a
\* response may renew a session after its logout: what makes it safe is that
\* every cookie and every request left of a session that was logged out is older
\* than the record of the logout, and that a record is swept only when all of
\* them are too old to be used.

\* The requests and the cookies of a session.
Served(sid) == {q \in Request : serving[q] # Free /\ serving[q].sid = sid}
CookiesOf(sid) == {c \in DOMAIN cookies : c.sid = sid}

SessionTypes ==
  /\ tick \in Nat /\ password \in Nat
  /\ \A c \in DOMAIN cookies : c.sid \in used /\ cookies[c] \in Nat /\ 2 * cookies[c] <= tick
                               /\ c.print.password \in Nat /\ c.print.password <= password
  /\ \A s \in DOMAIN revoked : revoked[s] \in Nat /\ revoked[s] <= tick
  /\ DOMAIN serving = Request
  /\ \A q \in Request : serving[q] = Free \/
       /\ serving[q] = [pc |-> serving[q].pc, sid |-> serving[q].sid, print |-> serving[q].print,
                        since |-> serving[q].since]
       /\ serving[q].pc # "free" /\ serving[q].sid \in used
       /\ serving[q].since \in Nat /\ serving[q].since <= tick
       /\ serving[q].print.password \in Nat /\ serving[q].print.password <= password
  /\ loggedOut \subseteq used /\ replaced \subseteq used

\* What is left of a session that was logged out is older than the record of it,
\* or, once the record may go, too old to be used.
Remembered(sid) ==
  /\ sid \in DOMAIN revoked
  /\ \A c \in CookiesOf(sid) : 2 * cookies[c] <= revoked[sid]
  /\ \A q \in Served(sid) : serving[q].since <= revoked[sid]

Outlived(sid) ==
  /\ \A c \in CookiesOf(sid) : 2 * cookies[c] + 2 * SessionLifetime + 2 <= tick
  /\ \A q \in Served(sid) : serving[q].since + 2 * SessionLifetime < tick

\* No cookie and no request of a session that was replaced has the password.
Shut(sid) ==
  /\ \A c \in CookiesOf(sid) : c.print.password < password
  /\ Served(sid) = {}

SessionInv ==
  /\ SessionTypes
  /\ \A sid \in loggedOut : Remembered(sid) \/ Outlived(sid)
  /\ \A sid \in replaced : Shut(sid)

\* Half a tick is lost at most.
LEMMA Halved == ASSUME NEW n \in Nat
                PROVE n \div 2 \in Nat /\ 2 * (n \div 2) <= n /\ n <= 2 * (n \div 2) + 1
OBVIOUS

\* A record that may be swept is of a session whose cookies and requests are too old.
LEMMA SweptIsOutlived ==
  ASSUME SessionTypes, NEW sid, Remembered(sid), ~SessionRevoked(sid) PROVE Outlived(sid)
<1>1. /\ tick \in Nat /\ revoked[sid] \in Nat /\ revoked[sid] + 2 * SessionLifetime + 2 < tick
  BY SessionsAssumption
     DEF SessionsAssumption, SessionTypes, Remembered, SessionRevoked, RevocationRetention
<1>2. SessionLifetime \in Nat
  BY SessionsAssumption DEF SessionsAssumption
<1> QED
  BY <1>1, <1>2 DEF Outlived, Remembered, CookiesOf, Served, SessionTypes

\* What is too old signs nobody in.
LEMMA EndedOut == ASSUME SessionInv PROVE EndedStaysEnded
<1> SUFFICES ASSUME NEW c \in DOMAIN cookies, c.sid \in loggedOut \cup replaced, SignedIn(c) PROVE FALSE
  BY DEF EndedStaysEnded
<1>1. CASE c.sid \in replaced
  <2>1. c.print.password < password
    BY <1>1 DEF SessionInv, Shut, CookiesOf
  <2>2. c.print.password = password
    BY DEF SignedIn, Fingerprint
  <2> QED
    BY <2>1, <2>2 DEF SessionInv, SessionTypes
<1>2. CASE c.sid \in loggedOut
  <2>1. Outlived(c.sid)
    BY <1>2, SweptIsOutlived DEF SessionInv, SignedIn
  <2>2. 2 * cookies[c] + 2 * SessionLifetime + 2 <= tick
    BY <2>1 DEF Outlived, CookiesOf
  <2>3. (tick \div 2) - cookies[c] <= SessionLifetime
    BY DEF SignedIn, Decodes, Second
  <2>4. /\ SessionLifetime \in Nat /\ tick \in Nat /\ cookies[c] \in Nat
        /\ tick \div 2 \in Nat /\ tick <= 2 * (tick \div 2) + 1
    BY Halved, SessionsAssumption DEF SessionsAssumption, SessionInv, SessionTypes
  <2> QED
    BY <2>2, <2>3, <2>4
<1> QED
  BY <1>1, <1>2

\* Save adds at most the one cookie, and none for a revoked session.
LEMMA Saved ==
  ASSUME NEW sid, NEW print, Save(sid, print), NEW d \in DOMAIN cookies'
  PROVE  \/ d \in DOMAIN cookies /\ cookies'[d] = cookies[d]
         \/ ~SessionRevoked(sid) /\ d.sid = sid /\ d.print = print /\ cookies'[d] = Second
BY DEF Save

\* Signing a session again keeps the invariant, if it has not ended.
LEMMA CookieKeeps ==
  ASSUME SessionInv, UNCHANGED <<tick, password, revoked, loggedOut, replaced>>,
         NEW sid, NEW print, Save(sid, print), sid \in used', used \subseteq used',
         print.password \in Nat, print.password <= password,
         sid \in loggedOut => SessionRevoked(sid), sid \in replaced => print.password < password,
         DOMAIN serving' = Request, \A q \in Request : serving'[q] \in {serving[q], Free}
  PROVE  SessionInv'
<1>1. tick \in Nat /\ Second \in Nat /\ 2 * Second <= tick /\ password \in Nat
  BY Halved, Zenon DEF SessionInv, SessionTypes, Second
<1>2. SessionTypes'
  <2>1. \A d \in DOMAIN cookies' :
          /\ d.sid \in used' /\ cookies'[d] \in Nat /\ 2 * cookies'[d] <= tick
          /\ d.print.password \in Nat /\ d.print.password <= password
    BY <1>1, Saved DEF SessionInv, SessionTypes
  <2> QED
    BY <2>1, Zenon DEF SessionInv, SessionTypes
<1>3. \A s : Served(s)' \subseteq Served(s) /\ \A q \in Served(s)' : serving'[q] = serving[q]
  BY Zenon DEF Served
<1>4. ASSUME NEW s \in loggedOut PROVE Remembered(s)' \/ Outlived(s)'
  <2>1. CookiesOf(s)' \subseteq CookiesOf(s) /\ \A d \in CookiesOf(s)' : cookies'[d] = cookies[d]
    BY <1>4, Saved DEF CookiesOf
  <2> QED
    BY <1>3, <1>4, <2>1, Zenon DEF SessionInv, Remembered, Outlived
<1>5. ASSUME NEW s \in replaced PROVE Shut(s)'
  <2>1. \A d \in CookiesOf(s)' : d.print.password < password
    BY <1>5, Saved DEF CookiesOf, SessionInv, Shut
  <2> QED
    BY <1>3, <1>5, <2>1, Zenon DEF SessionInv, Shut
<1> QED
  BY <1>2, <1>4, <1>5, Zenon DEF SessionInv

\* A cookie that decodes is of no session that outlived its record.
LEMMA DecodesRevoked ==
  ASSUME SessionInv, NEW c, Decodes(c), c.sid \in loggedOut PROVE SessionRevoked(c.sid)
<1> SUFFICES ASSUME ~SessionRevoked(c.sid) PROVE FALSE
  OBVIOUS
<1>1. Outlived(c.sid)
  BY SweptIsOutlived DEF SessionInv
<1>2. 2 * cookies[c] + 2 * SessionLifetime + 2 <= tick /\ (tick \div 2) - cookies[c] <= SessionLifetime
  BY <1>1, Zenon DEF Outlived, CookiesOf, Decodes, Second
<1>3. /\ SessionLifetime \in Nat /\ tick \in Nat /\ cookies[c] \in Nat
      /\ tick \div 2 \in Nat /\ tick <= 2 * (tick \div 2) + 1
  BY Halved, SessionsAssumption DEF SessionsAssumption, SessionInv, SessionTypes, Decodes
<1> QED
  BY <1>2, <1>3

\* A login draws an id nobody has used.
LEMMA GrantKeeps == ASSUME SessionInv, NEW sid \in Sid, GrantSession(sid) PROVE SessionInv'
<1>1. Fingerprint.password = password /\ password \in Nat
  BY Zenon DEF Fingerprint, SessionInv, SessionTypes
<1>2. sid \notin loggedOut /\ sid \notin replaced
  BY DEF GrantSession, SessionInv, SessionTypes
<1>3. DOMAIN serving' = Request /\ \A q \in Request : serving'[q] \in {serving[q], Free}
  BY Zenon DEF GrantSession, SessionInv, SessionTypes
<1> QED
  BY <1>1, <1>2, <1>3, CookieKeeps DEF GrantSession

\* A flash signs again what decodes, and what has ended does not or is revoked.
LEMMA FlashKeeps == ASSUME SessionInv, NEW c \in DOMAIN cookies, SaveFlash(c) PROVE SessionInv'
<1>1. c.sid \in used /\ c.print.password \in Nat /\ c.print.password <= password
  BY Zenon DEF SessionInv, SessionTypes
<1>2. c.sid \in loggedOut => SessionRevoked(c.sid)
  BY DecodesRevoked DEF SaveFlash
<1>3. c.sid \in replaced => c.print.password < password
  BY Zenon DEF SessionInv, Shut, CookiesOf
<1>4. DOMAIN serving' = Request /\ \A q \in Request : serving'[q] \in {serving[q], Free}
  BY DEF SaveFlash, SessionInv, SessionTypes
<1> QED
  BY <1>1, <1>2, <1>3, <1>4, CookieKeeps DEF SaveFlash

\* A response in time is of a request that began before any logout could lapse.
LEMMA RespondKeeps == ASSUME SessionInv, NEW r \in Request, Respond(r) PROVE SessionInv'
<1> DEFINE sid == serving[r].sid
<1>1. /\ serving[r] # Free /\ sid \in used /\ serving[r].since \in Nat /\ tick \in Nat /\ password \in Nat
      /\ serving[r].print.password \in Nat /\ serving[r].print.password <= password
      /\ Fingerprint.password = password
  BY Zenon DEF Respond, SessionInv, SessionTypes, Fingerprint
<1>2. /\ DOMAIN serving' = Request /\ \A q \in Request : serving'[q] \in {serving[q], Free}
      /\ UNCHANGED <<tick, password, revoked, loggedOut, replaced, used>>
  BY DEF Respond, SessionInv, SessionTypes
<1>3. sid \notin replaced
  BY <1>1, Zenon DEF SessionInv, Shut, Served
<1>4. CASE tick - serving[r].since > WriteTimeout
  <2>1. UNCHANGED cookies
    <3>1. ~(tick - serving[r].since <= WriteTimeout)
      BY <1>1, <1>4, SessionsAssumption DEF SessionsAssumption
    <3> QED
      BY <1>4, <3>1, Zenon DEF Respond
  <2>2. \A s : Served(s)' \subseteq Served(s) /\ \A q \in Served(s)' : serving'[q] = serving[q]
    BY <1>2, Zenon DEF Served
  <2>3. SessionTypes'
    BY <1>2, <2>1 DEF SessionInv, SessionTypes
  <2>4. \A s : CookiesOf(s)' = CookiesOf(s)
    BY <2>1 DEF CookiesOf
  <2> QED
    BY <1>2, <2>1, <2>2, <2>3, <2>4 DEF SessionInv, Remembered, Outlived, Shut
<1>5. CASE tick - serving[r].since <= WriteTimeout
  <2>1. sid \in loggedOut => SessionRevoked(sid)
    <3> SUFFICES ASSUME sid \in loggedOut, ~SessionRevoked(sid) PROVE FALSE
      OBVIOUS
    <3>1. Outlived(sid)
      BY SweptIsOutlived DEF SessionInv
    <3>2. serving[r].since + 2 * SessionLifetime < tick
      BY <1>1, <3>1 DEF Outlived, Served
    <3>3. SessionLifetime \in Nat /\ WriteTimeout \in Nat /\ WriteTimeout <= 2 * SessionLifetime
      BY SessionsAssumption DEF SessionsAssumption
    <3> QED
      BY <1>1, <1>5, <3>2, <3>3
  <2>2. Save(sid, Fingerprint) \/ Save(sid, serving[r].print)
    <3>1. ~(tick - serving[r].since > WriteTimeout)
      BY <1>1, <1>5, SessionsAssumption DEF SessionsAssumption
    <3> QED
      BY <1>5, <3>1, Zenon DEF Respond, Restamp
  <2> HIDE DEF sid
  <2>3. CASE Save(sid, Fingerprint)
    BY <1>1, <1>2, <1>3, <2>1, <2>3, CookieKeeps DEF sid
  <2>4. CASE Save(sid, serving[r].print)
    BY <1>1, <1>2, <1>3, <2>1, <2>4, CookieKeeps DEF sid
  <2> QED
    BY <2>2, <2>3, <2>4
<1> QED
  <2>1. tick - serving[r].since \in Int /\ WriteTimeout \in Int
    BY <1>1, SessionsAssumption DEF SessionsAssumption
  <2> QED
    BY <1>4, <1>5, <2>1

\* Only a session that signs in is served.
LEMMA AuthenticateKeeps ==
  ASSUME SessionInv, NEW r \in Request, NEW c \in DOMAIN cookies,
         NEW work \in {"page", "password", "passkey"}, Authenticate(r, c, work)
  PROVE  SessionInv'
<1>1. c.sid \notin loggedOut /\ c.sid \notin replaced
  BY EndedOut, Zenon DEF Authenticate, EndedStaysEnded
<1>2. \A q \in Request \ {r} : serving'[q] = serving[q]
  BY Zenon DEF Authenticate, SessionInv, SessionTypes
<1>3. serving'[r] = [pc |-> work, sid |-> c.sid, print |-> c.print, since |-> tick]
  BY Zenon DEF Authenticate, SessionInv, SessionTypes
<1>4. UNCHANGED <<tick, password, cookies, used, revoked, loggedOut, replaced>> /\ DOMAIN serving' = Request
  BY DEF Authenticate, SessionInv, SessionTypes
<1>5. SessionTypes'
  <2>1. /\ c.sid \in used /\ c.print.password \in Nat /\ c.print.password <= password
        /\ tick \in Nat /\ tick <= tick /\ work # "free"
    <3>1. c.sid \in used /\ c.print.password \in Nat /\ c.print.password <= password /\ tick \in Nat
      BY Zenon DEF SessionInv, SessionTypes
    <3>2. tick <= tick
      BY <3>1
    <3>3. work # "free"
      BY Zenon
    <3> QED
      BY <3>1, <3>2, <3>3, Zenon
  <2>2. /\ serving'[r].pc = work /\ serving'[r].sid = c.sid /\ serving'[r].print = c.print
        /\ serving'[r].since = tick
    BY <1>3
  <2> QED
    BY <1>2, <1>3, <1>4, <2>1, <2>2 DEF SessionInv, SessionTypes
<1>6. ASSUME NEW s, s # c.sid
      PROVE  Served(s)' \subseteq Served(s) /\ \A q \in Served(s)' : serving'[q] = serving[q]
  <2>1. serving'[r].sid = c.sid
    BY <1>3
  <2> QED
    BY <1>2, <1>6, <2>1, Zenon DEF Served
<1>7. \A s : CookiesOf(s)' = CookiesOf(s)
  BY <1>4, Zenon DEF CookiesOf
<1>8. \A s \in loggedOut : Remembered(s)' \/ Outlived(s)'
  BY <1>1, <1>4, <1>6, <1>7 DEF SessionInv, Remembered, Outlived
<1>9. \A s \in replaced : Shut(s)'
  BY <1>1, <1>4, <1>6, <1>7, Zenon DEF SessionInv, Shut
<1> QED
  BY <1>4, <1>5, <1>8, <1>9 DEF SessionInv

\* A changed credential leaves the requests as they were, but for where they are.
LEMMA ChangeKeeps ==
  ASSUME SessionInv, NEW r \in Request, ChangePassword(r) \/ \E k \in Passkey : ChangePasskey(r, k)
  PROVE  SessionInv'
<1>1. /\ DOMAIN serving' = Request /\ \A q \in Request \ {r} : serving'[q] = serving[q]
      /\ serving' = [serving EXCEPT ![r].pc = "restamp"]
      /\ serving[r].pc # "free"
      /\ UNCHANGED <<tick, cookies, used, revoked, loggedOut>>
      /\ password' = password \/ password' = password + 1
      /\ replaced' = replaced \/ (password' = password + 1 /\ replaced' = replaced \cup IdleOthers(serving[r].sid))
  BY DEF ChangePassword, ChangePasskey, SessionInv, SessionTypes
<1>2. serving[r] # Free
  BY <1>1 DEF Free
<1>3. serving[r] = [pc |-> serving[r].pc, sid |-> serving[r].sid, print |-> serving[r].print,
                    since |-> serving[r].since]
  BY <1>2 DEF SessionInv, SessionTypes
<1>4. serving'[r] = [pc |-> "restamp", sid |-> serving[r].sid, print |-> serving[r].print,
                     since |-> serving[r].since]
  BY <1>1, <1>3 DEF SessionInv, SessionTypes
<1>5. \A q \in Request : /\ serving'[q] # Free <=> serving[q] # Free
                         /\ serving[q] # Free => /\ serving'[q].sid = serving[q].sid
                                                 /\ serving'[q].since = serving[q].since
                                                 /\ serving'[q].print = serving[q].print
  <2> TAKE q \in Request
  <2>1. CASE q # r
    BY <1>1, <2>1, Zenon
  <2>2. CASE q = r
    <3>1. /\ serving'[r].pc = "restamp" /\ serving'[r].sid = serving[r].sid
          /\ serving'[r].since = serving[r].since /\ serving'[r].print = serving[r].print
      BY <1>4
    <3>2. serving'[r] # Free
      BY <3>1 DEF Free
    <3> QED
      BY <1>2, <2>2, <3>1, <3>2, Zenon
  <2> QED
    BY <2>1, <2>2, Zenon
<1>6. \A s : Served(s)' = Served(s) /\ CookiesOf(s)' = CookiesOf(s)
  BY <1>1, <1>5 DEF Served, CookiesOf
<1>7. password \in Nat /\ password' \in Nat /\ password <= password'
  BY <1>1 DEF SessionInv, SessionTypes
<1>8. SessionTypes'
  <2>1. \A q \in Request : serving'[q] = Free \/
          /\ serving'[q] = [pc |-> serving'[q].pc, sid |-> serving'[q].sid, print |-> serving'[q].print,
                            since |-> serving'[q].since]
          /\ serving'[q].pc # "free"
    BY <1>1, <1>4 DEF SessionInv, SessionTypes
  <2>2. \A q \in Request : serving'[q] = Free \/
          /\ serving'[q].sid \in used'
          /\ serving'[q].since \in Nat /\ serving'[q].since <= tick'
          /\ serving'[q].print.password \in Nat /\ serving'[q].print.password <= password'
    BY <1>1, <1>5, <1>7 DEF SessionInv, SessionTypes
  <2>3. \A c \in DOMAIN cookies : c.print.password <= password'
    <3>1. \A c \in DOMAIN cookies : c.print.password \in Nat /\ c.print.password <= password
      BY Zenon DEF SessionInv, SessionTypes
    <3> QED
      BY <1>7, <3>1
  <2>4. replaced' \subseteq used'
    BY <1>1 DEF SessionInv, SessionTypes, IdleOthers
  <2> QED
    BY <1>1, <1>7, <2>1, <2>2, <2>3, <2>4, Zenon DEF SessionInv, SessionTypes
<1>9. \A s \in loggedOut : Remembered(s)' \/ Outlived(s)'
  BY <1>1, <1>5, <1>6 DEF SessionInv, Remembered, Outlived, Served
<1>10. \A s \in replaced : Shut(s)'
  BY <1>1, <1>6, <1>7 DEF SessionInv, SessionTypes, Shut, CookiesOf
<1>11. ASSUME NEW s \in IdleOthers(serving[r].sid), password' = password + 1 PROVE Shut(s)'
  <2>1. Served(s) = {}
    BY DEF Served, IdleOthers
  <2>2. \A c \in CookiesOf(s)' : c.print.password < password'
    <3>1. \A c \in CookiesOf(s)' : c.print.password \in Nat /\ c.print.password <= password
      BY <1>6, Zenon DEF SessionInv, SessionTypes, CookiesOf
    <3> QED
      BY <1>7, <1>11, <3>1
  <2> QED
    BY <1>6, <2>1, <2>2 DEF Shut
<1> QED
  BY <1>1, <1>8, <1>9, <1>10, <1>11 DEF SessionInv

\* A logout is recorded now, and sweeps only records that have done their work.
LEMMA LogoutKeeps == ASSUME SessionInv, NEW c \in DOMAIN cookies, Logout(c) PROVE SessionInv'
<1> DEFINE kept == {t \in DOMAIN revoked : tick - revoked[t] <= RevocationRetention}
<1>1. /\ UNCHANGED <<tick, password, cookies, used, serving, replaced>> /\ loggedOut' = loggedOut \cup {c.sid}
      /\ DOMAIN revoked' = kept \cup {c.sid} /\ revoked'[c.sid] = tick
      /\ \A s \in kept : s # c.sid => revoked'[s] = revoked[s]
  BY Zenon DEF Logout
<1>2. c.sid \in used /\ tick \in Nat
  BY Zenon DEF SessionInv, SessionTypes
<1>3. SessionTypes'
  <2>1. \A s \in DOMAIN revoked' : revoked'[s] \in Nat /\ revoked'[s] <= tick
    <3>1. \A s \in DOMAIN revoked : revoked[s] \in Nat /\ revoked[s] <= tick
      BY Zenon DEF SessionInv, SessionTypes
    <3>2. tick <= tick
      BY <1>2
    <3> QED
      BY <1>1, <1>2, <3>1, <3>2, Zenon
  <2> QED
    BY <1>1, <1>2, <2>1, Zenon DEF SessionInv, SessionTypes
<1>4. \A s : Served(s)' = Served(s) /\ CookiesOf(s)' = CookiesOf(s)
  BY <1>1, Zenon DEF Served, CookiesOf
<1>5. Remembered(c.sid)'
  BY <1>1, <1>4, Zenon DEF Remembered, CookiesOf, Served, SessionInv, SessionTypes
<1>6. ASSUME NEW s \in loggedOut, s # c.sid PROVE Remembered(s)' \/ Outlived(s)'
  <2>1. CASE Outlived(s)
    BY <1>1, <1>4, <2>1, Zenon DEF Outlived
  <2>2. CASE Remembered(s) /\ s \in kept
    BY <1>1, <1>4, <1>6, <2>2, Zenon DEF Remembered
  <2>3. CASE Remembered(s) /\ s \notin kept
    <3>1. Outlived(s)
      BY <2>3, SweptIsOutlived DEF SessionInv, SessionRevoked
    <3> QED
      BY <1>1, <1>4, <3>1 DEF Outlived
  <2> QED
    BY <1>6, <2>1, <2>2, <2>3 DEF SessionInv
<1>7. \A s \in replaced : Shut(s)'
  BY <1>1, <1>4, Zenon DEF SessionInv, Shut
<1> QED
  BY <1>1, <1>3, <1>5, <1>6, <1>7, Zenon DEF SessionInv

\* Time and a restart.
LEMMA TickKeeps == ASSUME SessionInv, Tick \/ RestartWeb PROVE SessionInv'
<1>1. CASE Tick
  <2>1. /\ tick \in Nat /\ tick' = tick + 1
        /\ UNCHANGED <<password, cookies, used, revoked, serving, loggedOut, replaced>>
    BY <1>1, Zenon DEF Tick, SessionInv, SessionTypes
  <2>a. tick' \in Nat /\ \A n \in Nat : n <= tick => n <= tick'
    BY <2>1
  <2>b. \A n \in Nat : 2 * n <= tick => 2 * n <= tick'
    BY <2>1
  <2>2. SessionTypes'
    BY <2>1, <2>a, <2>b, Zenon DEF SessionInv, SessionTypes
  <2>3. \A s : Served(s)' = Served(s) /\ CookiesOf(s)' = CookiesOf(s)
    BY <2>1, Zenon DEF Served, CookiesOf
  <2>4. \A s \in loggedOut : Remembered(s)' \/ Outlived(s)'
    <3>1. SessionLifetime \in Nat
      BY SessionsAssumption DEF SessionsAssumption
    <3> QED
      BY <2>1, <2>3, <3>1 DEF SessionInv, SessionTypes, Remembered, Outlived, Served, CookiesOf
  <2> QED
    BY <2>1, <2>2, <2>3, <2>4, Zenon DEF SessionInv, Shut
<1>2. CASE RestartWeb
  <2>1. /\ UNCHANGED <<tick, password, cookies, used, replaced>> /\ loggedOut' = {}
        /\ DOMAIN revoked' = {} /\ serving' = [q \in Request |-> Free]
    BY <1>2, Zenon DEF RestartWeb
  <2>2. SessionTypes'
    BY <2>1 DEF SessionInv, SessionTypes
  <2>3. \A s : Served(s)' = {} /\ CookiesOf(s)' = CookiesOf(s)
    BY <2>1, Zenon DEF Served, CookiesOf
  <2> QED
    BY <2>1, <2>2, <2>3, Zenon DEF SessionInv, Shut
<1> QED
  BY <1>1, <1>2

\* SessionsEnd: however many sessions, requests, logouts and credential changes
\* there are, and however long it takes, a session that was logged out, or that
\* was idle when another changed the password, signs nobody in again
\* (revokeSession, sessionStore.Save, credentialFingerprint).
THEOREM SessionsEnd == SessionsSpec => []EndedStaysEnded
<1>1. SessionsInit => SessionInv
  <2> SUFFICES ASSUME SessionsInit PROVE SessionInv
    OBVIOUS
  <2>1. /\ tick \in Nat /\ password \in Nat /\ serving = [r \in Request |-> Free]
        /\ DOMAIN cookies = {} /\ DOMAIN revoked = {} /\ loggedOut = {} /\ replaced = {}
    BY DEF SessionsInit
  <2>2. DOMAIN serving = Request /\ \A q \in Request : serving[q] = Free
    BY <2>1, Zenon
  <2>3. SessionTypes
    BY <2>1, <2>2, Zenon DEF SessionTypes
  <2> QED
    BY <2>1, <2>3, Zenon DEF SessionInv
<1>2. SessionInv /\ [SessionsNext]_sessionVars => SessionInv'
  <2> SUFFICES ASSUME SessionInv, [SessionsNext]_sessionVars PROVE SessionInv'
    OBVIOUS
  <2>1. CASE UNCHANGED sessionVars
    BY <2>1 DEF sessionVars, SessionInv, SessionTypes, Remembered, Outlived, Shut, Served, CookiesOf
  <2>2. CASE SessionsNext
    BY <2>2, TickKeeps, GrantKeeps, FlashKeeps, LogoutKeeps, AuthenticateKeeps, ChangeKeeps, RespondKeeps, Zenon
       DEF SessionsNext
  <2> QED
    BY <2>1, <2>2
<1> QED
  BY <1>1, <1>2, EndedOut, PTL DEF SessionsSpec

-------------------------------------------------------------------------------

\* The first-run wizard (CodesAreTheOwners), which needs one fact more to be
\* inductive: a wizard that goes on to stage its settings is the one whose ports
\* are staged.

WizardTypes ==
  /\ wizard = [b \in Browser |-> [pc |-> wizard[b].pc, secret |-> wizard[b].secret]]
  /\ DOMAIN page = Browser
  /\ choices \in [tcp : Browser \cup {"nobody"}, ipv6 : Browser \cup {"nobody"}]

WizardInv ==
  /\ WizardTypes /\ CodesAreTheOwners
  /\ \A b \in Browser : wizard[b].pc = "settings" => choices.tcp = b

\* Nothing is shown or staged before the account is written.
LEMMA WizardStart == WizardInit => WizardInv
BY DEF WizardInit, WizardInv, WizardTypes, CodesAreTheOwners, Waiting, Nobody

\* Every step of every browser, a tick and a restart keep the invariant.
LEMMA WizardStep == WizardInv /\ [WizardNext]_wizardVars => WizardInv'
<1> SUFFICES ASSUME WizardInv, [WizardNext]_wizardVars PROVE WizardInv'
  OBVIOUS
<1> USE FirstRunAssumption DEF FirstRunAssumption, WizardInv, WizardTypes, CodesAreTheOwners
<1>1. CASE WizardTick
  BY <1>1, Zenon DEF WizardTick
<1>2. CASE WizardRestart
  BY <1>2, Zenon DEF WizardRestart, Waiting
<1>3. ASSUME NEW b \in Browser, FirstRunPOST(b) PROVE WizardInv'
  BY <1>3 DEF FirstRunPOST
<1>4. ASSUME NEW b \in Browser, ConfirmWrong(b) PROVE WizardInv'
  BY <1>4 DEF ConfirmWrong, ShowAgain
<1>5. ASSUME NEW b \in Browser, Finish(b) PROVE WizardInv'
  BY <1>5 DEF Finish
<1>6. ASSUME NEW b \in Browser, RecoverEarly(b) PROVE WizardInv'
  BY <1>6 DEF RecoverEarly, ShowAgain
<1>7. ASSUME NEW b \in Browser, SaveFirstRun(b) PROVE WizardInv'
  <2>1. CASE ~NotSetUp /\ AlreadySetUp(b) /\ UNCHANGED <<owner, setups, spare>>
    BY <1>7, <2>1, Zenon DEF SaveFirstRun, AlreadySetUp, Waiting
  <2>2. CASE UNCHANGED owner /\ ShowAgain(b, setups[b]) /\ wizard' = [wizard EXCEPT ![b] = Waiting]
    <3>1. /\ page' = [page EXCEPT ![b] = "pair"] /\ owner' = owner /\ choices' = choices
          /\ wizard' = [wizard EXCEPT ![b] = [pc |-> "waiting", secret |-> 0]]
      BY <1>7, <2>2, Zenon DEF SaveFirstRun, ShowAgain, Waiting
    <3> QED
      BY <3>1, Zenon
  <2>3. CASE /\ NotSetUp /\ UNCHANGED <<setups, page, spare>>
             /\ owner' = [by |-> b, secret |-> wizard[b].secret]
             /\ wizard' = [wizard EXCEPT ![b].pc = "stage"]
    BY <1>7, <2>3 DEF SaveFirstRun, NotSetUp, IsFirstRun, Nobody
  <2> QED
    BY <1>7, <2>1, <2>2, <2>3, Zenon DEF SaveFirstRun
<1>8. ASSUME NEW b \in Browser, StagePorts(b) PROVE WizardInv'
  BY <1>8 DEF StagePorts, ShowCodes, Waiting
<1>9. ASSUME NEW b \in Browser, StageSettings(b) PROVE WizardInv'
  <2>1. owner' = owner /\ wizard[b].pc = "settings" /\ owner.by = b /\ choices.tcp = b
    BY <1>9, Zenon DEF StageSettings
  <2>2. DOMAIN page' = Browser /\ \A q \in Browser : q # b => page'[q] = page[q]
    BY <1>9, Zenon DEF StageSettings, ShowCodes
  <2>3. wizard' = [wizard EXCEPT ![b] = [pc |-> "waiting", secret |-> 0]]
    BY <1>9, Zenon DEF StageSettings, ShowCodes, Waiting
  <2>4. /\ wizard' = [q \in Browser |-> [pc |-> wizard'[q].pc, secret |-> wizard'[q].secret]]
        /\ wizard'[b].pc = "waiting" /\ \A q \in Browser : q # b => wizard'[q] = wizard[q]
    BY <2>3
  <2>5. /\ choices' \in [tcp : Browser \cup {"nobody"}, ipv6 : Browser \cup {"nobody"}]
        /\ choices'.tcp = b /\ choices'.ipv6 \in {choices.ipv6, b}
    BY <1>9, <2>1 DEF StageSettings
  <2>6. WizardTypes'
    BY <2>2, <2>4, <2>5, Zenon
  <2>7. \A q \in Browser : /\ page'[q] = "codes" \/ wizard'[q].pc \in {"stage", "settings"} => owner'.by = q
                           /\ wizard'[q].pc = "settings" => choices'.tcp = q
    <3> TAKE q \in Browser
    <3>1. CASE q = b
      BY <2>1, <2>4, <3>1, Zenon
    <3>2. CASE q # b
      BY <2>1, <2>2, <2>4, <2>5, <3>2, Zenon
    <3> QED
      BY <3>1, <3>2, Zenon
  <2>8. choices'.tcp \in {"nobody", owner'.by} /\ choices'.ipv6 \in {"nobody", choices'.tcp}
    BY <2>1, <2>5, Zenon
  <2> QED
    BY <2>6, <2>7, <2>8, Zenon
<1>10. CASE UNCHANGED wizardVars
  BY <1>10 DEF wizardVars
<1> QED
  BY <1>1, <1>2, <1>3, <1>4, <1>5, <1>6, <1>7, <1>8, <1>9, <1>10, Zenon DEF WizardNext

\* WizardCodes: whichever of any number of wizards finishes first, only its
\* browser is shown recovery codes and only its choices are staged
\* (completeFirstRun, SaveFirstRun's ErrAlreadySetUp).
THEOREM WizardCodes == WizardSpec => []CodesAreTheOwners
<1>1. WizardInv => CodesAreTheOwners
  BY DEF WizardInv
<1> QED
  BY <1>1, WizardStart, WizardStep, PTL DEF WizardSpec

\* WizardAccount: no step of the wizard writes over an account (SaveFirstRun).
THEOREM WizardAccount == WizardSpec => AccountStands
<1>1. [WizardNext]_wizardVars => [owner = Nobody \/ owner' = owner]_wizardVars
  BY Zenon DEF WizardNext, WizardTick, WizardRestart, FirstRunPOST, ConfirmWrong, Finish, RecoverEarly,
         SaveFirstRun, NotSetUp, IsFirstRun, StagePorts, StageSettings, wizardVars
<1> QED
  BY <1>1, PTL DEF WizardSpec, AccountStands

-------------------------------------------------------------------------------

\* The configuration (NextStartAgrees, EnvStaysOut). A save
\* writes fileConfig, and a reload writes what it read a while ago: the
\* invariant says of each of the two copies where it may differ from the file.

Budget == [edits : Nat, saves : Nat, reloads : Nat, boots : Nat, fails : Nat]

ConfigTypes ==
  /\ budget \in Budget
  /\ cfile = [k \in Keys |-> cfile[k]]
  /\ running = [k \in Keys |-> running[k]]
  /\ fileConfig = [k \in {"path", "packet_log"} |-> fileConfig[k]]
  /\ fresh.on \in BOOLEAN
  /\ fresh.on => fresh = [on |-> TRUE, file |-> fresh.file, missed |-> fresh.missed]
  /\ ~fresh.on => fresh = NoReload

PathsAreTheFiles == EnvStaysOut /\ fileConfig["path"] # EnvPath

\* Each copy of a setting differs from the file only where the history says so.
CopiesAgree ==
  /\ NextStartAgrees
  /\ fileConfig["packet_log"] # cfile["packet_log"] => "packet_log" \in behind
  /\ fresh.on => \A k \in Keys : fresh.file[k] # cfile[k] => k \in fresh.missed

ConfigInv == ConfigTypes /\ PathsAreTheFiles /\ CopiesAgree

\* Paying keeps the type of the bounds, and counts a save as nothing else does.
LEMMA PayKeeps ==
  ASSUME budget \in Budget, NEW what \in {"edits", "saves", "reloads", "boots", "fails"}, Pay(what)
  PROVE  budget' \in Budget /\ (what # "saves" => budget'.saves = budget.saves)
BY DEF Pay, Budget

\* The first start reads a file without a path of the environment.
LEMMA ConfigStart == ConfigInit => ConfigInv
<1> SUFFICES ASSUME ConfigInit PROVE ConfigInv
  BY Zenon
<1> USE DEF ConfigInit, Keys, Section, NoReload
<1>1. ConfigTypes
  BY CoreConfigAssumption, Zenon DEF CoreConfigAssumption, ConfigTypes, Corrected, Overlay, Budget
<1>2. PathsAreTheFiles
  BY CoreConfigAssumption, Zenon DEF CoreConfigAssumption, PathsAreTheFiles, EnvStaysOut
<1>3. CopiesAgree
  BY DEF CopiesAgree, NextStartAgrees, Corrected, Overlay, Wrong
<1> QED
  BY <1>1, <1>2, <1>3 DEF ConfigInv

\* A start or a reload keeps the invariant.
LEMMA ReadingKeeps == ConfigInv /\ (Boot \/ ReloadReads \/ ReloadAdopts) => ConfigInv'
<1> SUFFICES ASSUME ConfigInv, Boot \/ ReloadReads \/ ReloadAdopts PROVE ConfigInv'
  BY Zenon
<1> USE DEF ConfigInv, ConfigTypes, PathsAreTheFiles, EnvStaysOut, CopiesAgree, NextStartAgrees,
            NoReload, Keys, Section
<1>1. CASE Boot
  BY <1>1, PayKeeps, Zenon DEF Boot, Started, Corrected, Overlay, Wrong
<1>2. CASE ReloadReads
  BY <1>2, PayKeeps DEF ReloadReads
<1>3. CASE ReloadAdopts
  BY <1>3, Zenon DEF ReloadAdopts, Adopted, ReloadRecord, Corrected, Wrong
<1> QED
  BY <1>1, <1>2, <1>3, Zenon

\* An edit keeps the invariant.
LEMMA EditKeeps ==
  ASSUME ConfigInv, NEW k \in Keys, NEW v \in Values(k), EditConfig(k, v) PROVE ConfigInv'
<1> USE DEF ConfigInv, ConfigTypes, NoReload, EditConfig, Missed
<1>1. ConfigTypes'
  BY PayKeeps, Zenon
<1>2. PathsAreTheFiles'
  BY CoreConfigAssumption, Zenon
     DEF CoreConfigAssumption, PathsAreTheFiles, EnvStaysOut, Values, Keys, Section, Refusable
<1>3. CopiesAgree'
  BY DEF CopiesAgree, NextStartAgrees, Keys, Section
<1> QED
  BY <1>1, <1>2, <1>3

\* A page's save keeps the invariant.
LEMMA SaveKeepsInv ==
  ASSUME ConfigInv, NEW s \in PageSection, NEW v \in 1..2, NEW ok \in BOOLEAN, SaveSection(s, v, ok)
  PROVE  ConfigInv'
<1> USE DEF ConfigInv, ConfigTypes, NoReload, SaveSection, Missed, Snapshot, Keys, Section, PageSection
<1>1. ConfigTypes'
  BY PayKeeps, Zenon
<1>2. PathsAreTheFiles'
  BY DEF PathsAreTheFiles, EnvStaysOut
<1>3. CopiesAgree'
  BY DEF CopiesAgree, NextStartAgrees
<1> QED
  BY <1>1, <1>2, <1>3

\* Every step keeps the invariant.
LEMMA ConfigStep == ConfigInv /\ [ConfigNext]_configVars => ConfigInv'
<1> SUFFICES ASSUME ConfigInv, [ConfigNext]_configVars PROVE ConfigInv'
  BY Zenon
<1>1. CASE UNCHANGED configVars
  BY <1>1 DEF configVars, ConfigInv, ConfigTypes, PathsAreTheFiles, EnvStaysOut, CopiesAgree,
              NextStartAgrees
<1> QED
  BY <1>1, ReadingKeeps, EditKeeps, SaveKeepsInv DEF ConfigNext

\* ConfigEnvStaysOut: no sequence of saves, edits, reloads and restarts leaves a
\* path of the environment in easywall.toml (saveLocked).
THEOREM ConfigEnvStaysOut == ConfigSpec => []EnvStaysOut
BY ConfigStart, ConfigStep, PTL DEF ConfigSpec, ConfigInv, PathsAreTheFiles

\* ConfigNextStart: the settings the core runs with are the ones it would start
\* with, wherever the history does not say why not (Reload, saveLocked).
THEOREM ConfigNextStart == ConfigSpec => []NextStartAgrees
BY ConfigStart, ConfigStep, PTL DEF ConfigSpec, ConfigInv, CopiesAgree

\* ConfigLogEdit: a save of any page leaves an edit of [packet_log] that a reload
\* has seen where it is (Reload records it for saveLocked).
THEOREM ConfigLogEdit == ConfigSpec => LogEditKept
<1>1. ASSUME ConfigInv, [ConfigNext]_configVars PROVE [SaveKeeps("packet_log")]_configVars
  <2> SUFFICES ASSUME budget'.saves # budget.saves, "packet_log" \notin behind
               PROVE  cfile'["packet_log"] = cfile["packet_log"]
    BY Zenon DEF SaveKeeps
  <2>1. CASE \E s \in PageSection, v \in 1..2, ok \in BOOLEAN : SaveSection(s, v, ok)
    BY <1>1, <2>1, Zenon DEF SaveSection, Snapshot, ConfigInv, ConfigTypes, CopiesAgree, Keys, Section
  <2>2. CASE ReloadAdopts \/ UNCHANGED configVars
    BY <2>2, Zenon DEF ReloadAdopts, configVars
  <2>3. CASE Boot \/ ReloadReads
    BY <2>3, Zenon DEF Boot, ReloadReads
  <2>4. CASE \E k \in Keys : \E v \in Values(k) : EditConfig(k, v)
    BY <1>1, <2>4, PayKeeps DEF EditConfig, ConfigInv, ConfigTypes
  <2> QED
    BY <1>1, <2>1, <2>2, <2>3, <2>4 DEF ConfigNext
<1> QED
  BY <1>1, ConfigStart, ConfigStep, PTL DEF ConfigSpec, LogEditKept
===============================================================================
