\* Two GPUs, methods worth anything; the HUD changes its size up to twice.
SPECIFICATION Spec
CONSTANTS
    M = 6
    Kinds = {"refused", "broken", "foreign", "good"}
    MaxResizes = 2
INVARIANTS
    TypeOK
    ServerSurvives
    FirstUsableIsKept
    QuietAgreement
PROPERTIES
    Settles
CHECK_DEADLOCK FALSE
