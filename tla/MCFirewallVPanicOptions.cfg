SPECIFICATION Spec
CONSTANTS
  Rules = {empty, r1}
  Empty = empty
  Configs = {c1, c2}
  NoConfig = NoConfig
  NoMarker = NoMarker
  NoTable = NoTable
  empty = empty
  r1 = r1
  c1 = c1
  c2 = c2
  Installs = {"running"}
  Windows = {TRUE}
  Faults = {}
  Events = {"configure", "panic"}
INVARIANTS
  ConfigApproved
