SPECIFICATION Spec
CONSTANTS
    a1 = a1  a2 = a2  b1 = b1  b2 = b2  s = s  u = u
    Stranger = nobody
    ConfGroup <- MCConfGroup
    PciePath <- MCPciePath
    Board <- MCBoard
    NoSlot = none
    Mask = 100
    Device = {a1, a2, b1}
    Slot = {s1}
    Procs = {p1}
    MaxGroups = 1
    MaxSeq = 2
INVARIANT UserGroupLimit
INVARIANT SiblingsIfNotOutgrown
INVARIANT ListingWhole
INVARIANT CardsMatchBoards
