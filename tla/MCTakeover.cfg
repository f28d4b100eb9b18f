SPECIFICATION TakeoverSpec
CONSTANTS
    h1 = h1  h2 = h2  h3 = h3  k1 = k1  k2 = k2  k3 = k3  gone = gone
    Host <- MCHosts
    Apex = h1
    DnsName = {h1, h2, h3, k1, k2, k3, gone}
    Nowhere = Nowhere
    Zones <- MCZones
    MaxHosts = 3
    TkTasks = 2
    MaxHops = 2
    MaxOutage = 1
INVARIANTS NeverSilent
CHECK_DEADLOCK FALSE
