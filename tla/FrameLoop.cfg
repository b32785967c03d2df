\* Three buffers, one change of the HUD's size, one failing call; any wait for
\* a fence may be given up.
CONSTANTS
    N = 3
    MaxResizes = 1
    MaxFaults = 1
SPECIFICATION FairSpec
INVARIANTS
    TypeOK
    OneHolder
    ExclusiveAccess
    LostOnlyByFaults
    BuffersBeforeFrames
    CommandBufferIdle
PROPERTIES
    ExchangeSpec
    SlotKeepsCycling
