CONSTANTS
    Convs = {v1, v2}
    Conns = {c1, c2}
    Limit = 2
    Readers <- AllReaders
    MaxTS <- TimesOf
    MaxRows <- RowsOf

SPECIFICATION Spec
SYMMETRY Symmetry
INVARIANTS
    TypeOK
    HistoryComplete
    PullComplete
    CursorSkipsExplained
PROPERTY PullOnce
\* A client may have all pages.
CHECK_DEADLOCK FALSE
