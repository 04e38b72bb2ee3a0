SPECIFICATION SceneSpec
CONSTANTS
  Rules = {empty}
  Empty = empty
  Configs = {c1}
  NoConfig = NoConfig
  NoMarker = NoMarker
  NoTable = NoTable
  empty = empty
  c1 = c1
  Installs = {"running"}
  Windows = {TRUE}
  Faults = {}
  Events = {}
  TwoRules = {empty}
  OneConfig = {c1}
  Scenes = {"teardown"}
INVARIANTS
  PanicDown
