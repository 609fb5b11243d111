CONSTANTS
    likes = likes  dislikes = dislikes
    Entities = {e1, e2, e3}
    Names = {ann, bob, eve}
    Texts = {old, new}
    Blank = Blank
    Relations = {likes}
    Conflicts <- Unopposed
    Strength = 2
    Alike <- SameText
    BatchCount = 3
    MaxOps = 1
    MaxCalls = 1
    MaxCycles = 2
    MaxCrashes = 0
    MaxEdges = 0
    Absent = Absent
    Gone = Gone
    None = None
    Free = Free
SPECIFICATION Spec
SYMMETRY Interchangeable
INVARIANTS IndexMirrorsStore
PROPERTY SettledPairsRest
CHECK_DEADLOCK FALSE
