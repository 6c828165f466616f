CONSTANTS
    a1 = a1  a2 = a2  b1 = b1  A = A  B = B  c1 = c1  c2 = c2  none = none
    Pages <- MC_Pages
    ProcOfPage <- MC_ProcOfPage
    Contents = {c1, c2}
    NoContent = none
    NumSectors = 2
    ERROR <- MC_Minus1
    INVALID_SECTOR <- MC_Minus1
SPECIFICATION Spec
INVARIANT TypeOK BitmapExact
PROPERTY SwapRoundTrip
