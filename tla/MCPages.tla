------------------------------- MODULE MCPages -------------------------------
\* What the pages of the interface change, side by side: sessions, the second
\* step, the first-run wizard, the sign-in limits, web.toml, easywall.toml and the
\* rule sets.  A behaviour is one of them, so that their states add up and do not
\* multiply.
EXTENDS MCRules, Sessions, SecondFactor, FirstRun, SignInLimits, WebConfig, CoreConfig

VARIABLE part

\* Bounds for Sessions: an age at its limit across a restart; a password change as
\* time passes, and beside a passkey; two password changes.
SB(t, l, p, k, r) == [ticks |-> t, logins |-> l, passwords |-> p, passkeys |-> k, restarts |-> r]
MCSessionBounds == {SB(8, 1, 0, 0, 1), SB(1, 2, 1, 0, 0), SB(0, 2, 1, 1, 0), SB(0, 2, 2, 0, 0)}

FB(t, l, a, e, f, r, totp, ks, cs, bad) ==
  [ticks |-> t, logins |-> l, attempts |-> a, edits |-> e, fails |-> f, restarts |-> r,
   totp |-> totp, keys |-> ks, codes |-> cs, corrupt |-> bad]
MCFactorBounds ==
  {FB(5, 1, 4, 0, 0, 0, 1, {}, {}, FALSE),          \* the budget as its state expires
   FB(2, 1, 3, 0, 1, 1, 1, {}, {}, FALSE),          \* the replay of a step across a restart
   FB(0, 2, 2, 1, 1, 0, 1, {"k1"}, {"c1"}, FALSE),  \* a code spent as the factors are edited
   FB(0, 0, 0, 4, 1, 1, 1, {"k1"}, {"c1"}, FALSE),  \* edits, a failing write and a restart
   FB(0, 0, 0, 3, 1, 1, 0, {}, {}, FALSE),          \* the first factor
   FB(0, 1, 0, 3, 1, 1, 1, {}, {"c1"}, TRUE),       \* an unreadable passkeys.json
   FB(4, 1, 2, 0, 0, 0, 0, {"k1"}, {}, FALSE)}      \* a passkey's challenge

MCWizardBounds == {[ticks |-> 3, forms |-> 2, failures |-> 2, restarts |-> 1]}

\* Two clients of one /64 and one of another.
MCLimiterKey == [c \in {"a1", "a2", "b"} |-> IF c = "b" THEN "k2" ELSE "k1"]
MCLimitBounds == {[attempts |-> 5, ticks |-> 4], [attempts |-> 4, ticks |-> 5]}

\* The shipped file; one with an answer and no credentials; one whose keys are in
\* its table; one with a value on two lines; one that says a key twice.
MCWebFiles == {
  <<Line("#", "c"), Line("bind_addr", ""), Line("session_key", "CHANGE_ME"), Line("password", ""),
    Line("#", "d"), Line("[tls]", ""), Line("password", "t")>>,
  <<Line("bind_addr", "own"), Line("telemetry", "no"), Line("session_key", "hand"), Line("#", "c")>>,
  <<Line("#", "c"), Line("[tls]", ""), Line("password", "t")>>,
  <<Line("session_key", "hand"), [Line("notify_url", "x") EXCEPT !.open = TRUE], Line("more", ""),
    Line("bind_addr", "own")>>,
  <<Line("password", "a"), Line("password", "b"), Line("#", "c")>>}
WB(e, s, f, b) == [edits |-> e, saves |-> s, fails |-> f, boots |-> b]
MCWebBounds == {WB(1, 2, 0, 1), WB(0, 2, 1, 1), WB(0, 1, 1, 2)}

\* Two edits and a save around a reload; saves that fail around a start.
CB(e, s, r, b, f) == [edits |-> e, saves |-> s, reloads |-> r, boots |-> b, fails |-> f]
MCConfigBounds == {CB(2, 1, 1, 0, 0), CB(1, 2, 1, 1, 1)}

vars == <<sessionVars, factorVars, wizardVars, limitVars, webConfigVars,
          configVars, rulesVars, part>>

\* The parts that do not run start in one state of theirs.
Init ==
  /\ part \in {"sessions", "factor", "wizard", "limits", "web", "core", "rules"}
  /\ SessionsInit /\ (part # "sessions" => bound = CHOOSE b \in SessionBounds : TRUE)
  /\ FactorInit /\ (part # "factor" => allow = CHOOSE b \in FactorBounds : TRUE)
  /\ WizardInit
  /\ LimitsInit /\ (part # "limits" => left = CHOOSE b \in LimitBounds : TRUE)
  /\ WebConfigInit
  /\ (part # "web" => /\ wfile = CHOOSE f \in WebFiles : TRUE
                      /\ webLeft = CHOOSE b \in WebBounds : TRUE
                      /\ webEnv = CHOOSE e \in Envs : TRUE
                      /\ inPlace)
  /\ ConfigInit /\ (part # "core" => env /\ budget = CHOOSE b \in ConfigBounds : TRUE)
  /\ RulesInit /\ (part # "rules" => remaining = CHOOSE b \in RuleBounds : TRUE)

Next ==
  /\ UNCHANGED part
  /\ \/ /\ part = "sessions" /\ SessionsNext
        /\ UNCHANGED <<factorVars, wizardVars, limitVars, webConfigVars, configVars, rulesVars>>
     \/ /\ part = "factor" /\ FactorNext
        /\ UNCHANGED <<sessionVars, wizardVars, limitVars, webConfigVars, configVars, rulesVars>>
     \/ /\ part = "wizard" /\ WizardNext
        /\ UNCHANGED <<sessionVars, factorVars, limitVars, webConfigVars, configVars, rulesVars>>
     \/ /\ part = "limits" /\ LimitsNext
        /\ UNCHANGED <<sessionVars, factorVars, wizardVars, webConfigVars, configVars, rulesVars>>
     \/ /\ part = "web" /\ WebConfigNext
        /\ UNCHANGED <<sessionVars, factorVars, wizardVars, limitVars, configVars, rulesVars>>
     \/ /\ part = "core" /\ ConfigNext
        /\ UNCHANGED <<sessionVars, factorVars, wizardVars, limitVars, webConfigVars, rulesVars>>
     \/ /\ part = "rules" /\ RulesNext
        /\ UNCHANGED <<sessionVars, factorVars, wizardVars, limitVars, webConfigVars, configVars>>

Spec == Init /\ [][Next]_vars
=============================================================================
