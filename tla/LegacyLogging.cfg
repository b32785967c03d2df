\* Two logs in a row: the second meets what the first left behind.
CONSTANT MaxLogs = 2
SPECIFICATION Spec
INVARIANTS
    SummaryIsOwn
    RowsReachTheFile
PROPERTIES
    StartedLogsGetRows
    DurationEnds
