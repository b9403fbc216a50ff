SPECIFICATION FairSpec
CONSTANTS
    d1 = d1
    d2 = d2
    h1 = h1
    h2 = h2
    Hosts = {h1, h2}
    StaticHosts = {h1}
    ClientsOf <- TwoForTheFirst
    Unstable = {h1}
    MaxFailures = 1
    Droplets = {d1, d2}
    Address <- AddressOf
    Servers = 1
    Recreate = TRUE
    IPPortGiven = TRUE
INVARIANTS
    TypeOK
    ListedTunnelWhole
PROPERTIES
    NeverTooManyDroplets
    CreatedDropletsTunnelled
CHECK_DEADLOCK FALSE
