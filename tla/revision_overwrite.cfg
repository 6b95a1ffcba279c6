SPECIFICATION Spec
CONSTANTS
    Client = {c1, c2}
    Content = {blank, a, b}
    Blank = blank
    Freezable = {a, b}
    MaxLock = 3
    RowId = {r1, r2}
PROPERTY NoSilentOverwrite
SYMMETRY Symmetry
