SPECIFICATION Spec
CONSTANTS
    Base = 4
    Top = 20
    Page = 2
    StackGuard = 2
    HeapGuard = 2
    NVmas = 3
    Brks = {0, 11}
    Hints = {8, 11, 12}
    Lens = {1, 4, 6}
    Sps = {19, 20}
    ImageEnds = {7}
INVARIANTS
    HeapClearOfImage
