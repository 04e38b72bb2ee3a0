SPECIFICATION SceneSpec
CONSTANTS
  Rules = {empty, r1, r2}
  Empty = empty
  Configs = {c1, c2}
  NoConfig = NoConfig
  NoMarker = NoMarker
  NoTable = NoTable
  empty = empty
  r1 = r1
  r2 = r2
  c1 = c1
  c2 = c2
  Installs = {"fresh"}
  Windows = {TRUE}
  Faults = {}
  Events = {}
  TwoRules = {empty, r1}
  OneConfig = {c1}
  Scenes = {"crash", "first", "options", "panics", "resumes", "storm"}
SYMMETRY Symmetry
INVARIANTS
  KernelApprovedThrough
  FirstApplyUndoneThrough
  NeverLeftOpenThrough
  NextStartApproved
  ConfigApproved
PROPERTIES
  RollbackRestoresThrough
