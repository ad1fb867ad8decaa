SPECIFICATION Spec
CONSTANTS
    p1 = p1
    p2 = p2
    Proc = {p1, p2}
    Client = {p1}
    BUF_LEN = 3
    GET_LEN = 4
    Texts <- SomeTexts
    Sizes = {1, 2}
    Indices = {0, 2, 3}
    Foreign = Foreign
    MaxBehind = 2
INVARIANTS
    Exclusive
    ReadsWhole
