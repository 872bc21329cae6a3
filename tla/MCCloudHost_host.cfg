SPECIFICATION Spec
CONSTANTS
    Ids = {1, 2}
    Ips = {i1, i2}
    apex = apex
    www = www
    Sites = {apex, www}
    Volumes = {v1}
    InitialDns <- MCInitialDns
    ByProject = TRUE
    NoIp = NoIp
    NoSite = NoSite
    MaxAwait = 2
    MaxCommands = 3
INVARIANT OneDroplet
INVARIANT CreateDelivers
CHECK_DEADLOCK FALSE
