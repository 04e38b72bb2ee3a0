SPECIFICATION Spec
CONSTANTS
  Rules = {empty, r1}
  Empty = empty
  Configs = {c1}
  NoConfig = NoConfig
  NoMarker = NoMarker
  NoTable = NoTable
  empty = empty
  r1 = r1
  c1 = c1
  Installs = {"fresh"}
  Windows = {TRUE}
  Faults = {}
  Events = {"save", "panic", "powercut"}
PROPERTIES
  ResumeTruthful
