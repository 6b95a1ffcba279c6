SPECIFICATION Spec
CONSTANTS
    Client = {c1, c2}
    Content = {blank, a, b}
    Blank = blank
    Freezable = {a, b}
    MaxLock = 2
    RowId = {r1, r2, r3}
INVARIANTS
    TypeOK
    OneDraft
    HistoryIsNumbered
    LockFixesContent
PROPERTIES
    HistoryIsAppendOnly
SYMMETRY Symmetry
