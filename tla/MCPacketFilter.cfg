SPECIFICATION Spec
CONSTANTS
    Addr <- MCAddr
    V6 <- MCV6
    Bogon <- MCBogon
    Pool <- MCPool
    Port <- MCPort
    SSHPort = 22
    WebPort = 443
    FeedAddrs <- MCFeedAddrs
    Country <- MCCountry
    MaxCountries = 1
    Trusted <- MCTrusted
    Configs <- MCConfigs
    Bridges <- MCBridges
    Rows <- MCRows
    RowConfigs <- MCRowConfigs
    Clients <- MCClients
INVARIANTS
  VerdictSound
  ReasonTrue
  RemedyWorks
  ContainersKept
PROPERTIES
  WayInKept
