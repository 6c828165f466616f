CONSTANTS
    x = x  y = y  c1 = c1  c2 = c2  c3 = c3
    Cells <- MC_Cells
    Items = {x, y}
    Keys = {0, 1, 2}
    NULL = NULL
    MaxLen = 3
SPECIFICATION Spec
PROPERTY RemoveItemKeepsKeys
