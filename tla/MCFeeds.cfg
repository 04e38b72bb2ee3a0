CONSTANTS
  Feed <- MCFeed
  OwnFeed = {"own"}
  CountryFeed = {"nl"}
  SplitFeed = {"pair"}
  Url <- MCUrl
  Home <- MCHome
  Dated = {"b", "c"}
  MaxVersion = 4
  Entries <- MCEntries
  Starts <- MCStarts
  None = None
SPECIFICATION Spec
INVARIANTS
  KernelIsStored
PROPERTIES
  NotModifiedTrue
  ShrinkEarned
  StaysCurrent
CHECK_DEADLOCK FALSE
