SPECIFICATION Spec
CONSTANTS
    c1 = c1
    c2 = c2
    Clients <- MCClients
    NoClient = NoClient
    Processes <- OneProcess
    pid <- PidShared
    MaxReloads = 1
    MaxTasks = 1
INVARIANTS NoThreadOutlivesItsClient OnlyConfigsAreLeft
SYMMETRY Symmetry
