SPECIFICATION FairSpec
CONSTANTS
    c1 = c1
    c2 = c2
    Clients <- MCClients
    NoClient = NoClient
    Processes <- OneProcess
    pid <- PidShared
    MaxReloads = 0
    MaxTasks = 0
PROPERTIES EveryClientIsPopulated
