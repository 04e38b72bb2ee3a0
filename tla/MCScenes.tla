------------------------------ MODULE MCScenes ------------------------------
(***************************************************************************)
(* Several instances of Firewall in one run: a behaviour is of one scene,  *)
(* which says what can happen around the apply cycle and what can fail.    *)
(* Rule sets and configurations that are not the empty set differ in       *)
(* nothing but their identity.  A scene with fewer of them than the run    *)
(* reaches at most one state of each class, so the symmetry is sound for   *)
(* it too.                                                                 *)
(***************************************************************************)
EXTENDS MCFirewall

CONSTANTS
  Scenes,     \* the scenes of the run
  TwoRules,   \* Empty and one other
  OneConfig
VARIABLE scene

\* A configured host whose core is killed or loses power, and whose files
\* cannot all be written.
Crash == INSTANCE Firewall WITH
  Configs <- OneConfig, Installs <- {"running"}, Windows <- BOOLEAN,
  Faults <- {"backup", "mark", "promote", "record"},
  Events <- {"save", "configure", "kill", "powercut", "stop"}

\* The first apply of an installation, with kernel writes that fail.
First == INSTANCE Firewall WITH
  Rules <- TwoRules, Configs <- OneConfig, Installs <- {"fresh"}, Windows <- BOOLEAN,
  Faults <- {"refused", "late"},
  Events <- {"save", "powercut", "stop"}

\* Options saved at any moment of a cycle.
Options == INSTANCE Firewall WITH
  Rules <- TwoRules, Installs <- {"running", "upgraded"}, Windows <- {TRUE}, Faults <- {},
  Events <- {"save", "configure", "stop", "bridge"}

\* Every fault at once.
Storm == INSTANCE Firewall WITH
  Rules <- {Empty}, Configs <- OneConfig, Installs <- {"fresh"}, Windows <- {TRUE},
  Faults <- FaultKinds, Events <- {"panic", "kill"}

\* Panic mode from the interface's console and from the command line.
Panics == INSTANCE Firewall WITH
  Rules <- {Empty}, Configs <- OneConfig, Installs <- {"running"}, Windows <- {TRUE},
  Faults <- {"refused", "late"}, Events <- {"panic", "stop", "clipanic", "cliresume"}

\* Panic mode and its end around an apply, with nothing failing.
Resumes == INSTANCE Firewall WITH
  Rules <- {Empty}, Configs <- OneConfig, Installs <- {"running"}, Windows <- {TRUE},
  Faults <- {}, Events <- {"panic", "stop", "bridge"}

\* Panic mode from both consoles with everything that writes the kernel.
Teardown == INSTANCE Firewall WITH
  Rules <- {Empty}, Configs <- OneConfig, Installs <- {"running"}, Windows <- {TRUE},
  Faults <- {"refused", "late"},
  Events <- {"panic", "stop", "bridge", "clipanic", "cliresume", "powercut"}

\* A stop around panic mode and its end.  Fairness, below, is that of the run's own
\* Faults, so this scene and the next have exactly those.
Console == INSTANCE Firewall WITH
  Rules <- {Empty}, Configs <- OneConfig, Installs <- {"running"}, Windows <- {TRUE},
  Events <- {"panic", "stop", "save", "configure", "kill", "powercut"}

\* A stop around a late bridge, with the window switched on and off.
Bridged == INSTANCE Firewall WITH
  Rules <- {Empty}, Configs <- OneConfig, Installs <- {"running"}, Windows <- BOOLEAN,
  Events <- {"bridge", "stop", "save", "configure", "kill", "powercut"}

SceneInit ==
  /\ scene \in Scenes
  /\ \/ scene = "crash" /\ Crash!Init
     \/ scene = "first" /\ First!Init
     \/ scene = "options" /\ Options!Init
     \/ scene = "storm" /\ Storm!Init
     \/ scene = "panics" /\ Panics!Init
     \/ scene = "resumes" /\ Resumes!Init
     \/ scene = "teardown" /\ Teardown!Init
     \/ scene = "console" /\ Console!Init
     \/ scene = "bridged" /\ Bridged!Init

SceneNext ==
  \/ scene = "crash" /\ Crash!Next /\ UNCHANGED scene
  \/ scene = "first" /\ First!Next /\ UNCHANGED scene
  \/ scene = "options" /\ Options!Next /\ UNCHANGED scene
  \/ scene = "storm" /\ Storm!Next /\ UNCHANGED scene
  \/ scene = "panics" /\ Panics!Next /\ UNCHANGED scene
  \/ scene = "resumes" /\ Resumes!Next /\ UNCHANGED scene
  \/ scene = "teardown" /\ Teardown!Next /\ UNCHANGED scene
  \/ scene = "console" /\ Console!Next /\ UNCHANGED scene
  \/ scene = "bridged" /\ Bridged!Next /\ UNCHANGED scene

SceneSpec == SceneInit /\ [][SceneNext]_<<vars, scene>>

\* For the scenes console and bridged: no action that Fairness names depends on
\* Events, Rules, Configs or Windows.
SceneFairSpec == SceneSpec /\ Fairness
-----------------------------------------------------------------------------
\* KernelApproved everywhere but in a first apply that may fail late and in the
\* storm: outside a window and its undoing, the kernel holds approved rules.
KernelApprovedThrough == scene \notin {"first", "storm"} => KernelApproved

\* FirstApplyUndone wherever the rules can be put back: a first apply that is not
\* confirmed leaves the host unfiltered.
FirstApplyUndoneThrough == scene # "storm" => FirstApplyUndone

\* NeverLeftOpen where no kernel write fails: outside panic mode a configured
\* host that nobody is working on is filtered.
NeverLeftOpenThrough == scene \in {"crash", "options", "resumes"} => NeverLeftOpen

\* RollbackRestores where neither panic mode nor a failing write gets in between:
\* rollback puts back the rules and the options of before the apply.
RollbackRestoresThrough ==
  [][(scene \in {"crash", "options"}) => RollbackStep]_<<vars, scene>>
=============================================================================
