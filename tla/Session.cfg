\* A server that is started twice, three buffers, two swapchains of one size.
SPECIFICATION Spec
CONSTANTS
    BufferSize = 3
    Sizes = {small}
    NoSize = NoSize
    MaxStarts = 2
    MaxResizes = 2
INVARIANTS SlotsStayInPlay SentIsKnown
PROPERTIES Reconnects
