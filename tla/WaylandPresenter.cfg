SPECIFICATION FairSpec
CONSTANTS
    N = 2
    MaxResizes = 1
    MaxUpsets = 1
INVARIANTS ServerDrawsWhatWasReleased SlotsStayInPlay
PROPERTIES NewSetsAreImported KeepsPresenting
