CONSTANTS
    PageSize = 2
    NumPages = 3
    Chars <- MC_Chars
    MaxWrite = 3
SPECIFICATION Spec
INVARIANT CopyInExact
