SPECIFICATION FairSpec
CONSTANTS
    Clients = {c1}
    Limits = {0, 60}
    MaxEdits = 2
    MaxQueued = 1
INVARIANTS TypeOK ReloadIsCurrent
PROPERTIES FollowsReloads EditsTakeEffect
CHECK_DEADLOCK FALSE
