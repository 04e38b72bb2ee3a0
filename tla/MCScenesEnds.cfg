SPECIFICATION SceneFairSpec
CONSTANTS
  Rules = {empty}
  Empty = empty
  Configs = {c1}
  NoConfig = NoConfig
  NoMarker = NoMarker
  NoTable = NoTable
  empty = empty
  c1 = c1
  Installs = {"running"}
  Windows = {TRUE}
  Faults = {"slotwait", "refused"}
  Events = {}
  TwoRules = {empty}
  OneConfig = {c1}
  Scenes = {"console", "bridged"}
PROPERTIES
  StopEnds
  ApplyEnds
