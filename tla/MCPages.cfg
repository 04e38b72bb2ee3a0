\* Sessions, second factors, the first run, the sign-in limits, the two configuration
\* files and the rule sets: ages at their limits, overlapping requests, failing writes and restarts.
CONSTANTS
  Sid = {s1, s2}
  Passkey = {k1}
  Request = {r1, r2}
  SessionLifetime = 1
  WriteTimeout = 2
  SessionBounds <- MCSessionBounds
  Pid = {p1, p2}
  Code = {"c1", "c2"}
  Key = {"k1", "k2"}
  Challenge = {ch1}
  Visit = {v1, v2}
  MaxAttempts = 2
  PendingLifetime = 2
  ChallengeLifetime = 1
  FactorBounds <- MCFactorBounds
  Browser = {"b1", "b2"}
  WizardLifetime = 1
  WizardBounds <- MCWizardBounds
  Client = {"a1", "a2", "b"}
  LimiterKey <- MCLimiterKey
  LoginBudget = 2
  Refill = 2
  LoginIdle = 3
  MaxBuckets = 1
  BurstThreshold = 2
  BurstWindow = 1
  BurstQuiet = 5
  BurstMaxAddrs = 1
  LimitBounds <- MCLimitBounds
  WebFiles <- MCWebFiles
  WebBounds <- MCWebBounds
  ConfigBounds <- MCConfigBounds
  EnvPath = "env"
  Tab = {"t1", "t2"}
  Bodies <- MCBodies
  Forms <- MCForms
  Foreign <- MCForeign
  RuleBounds <- MCRuleBounds
SPECIFICATION Spec
INVARIANTS
  EndedStaysEnded
  AttemptBudget
  ProofOnce
  CodesAreTheOwners
  NoWindowHoldsMore
  NoticesEarned
  SaveReadsBack
  NextStartAgrees
  IDsNameOneRule
  SavesStand
  PreviewSeesChange
CHECK_DEADLOCK FALSE
