CONSTANTS
    likes = likes  dislikes = dislikes
    Entities = {e1, e2, e3}
    Names = {ann, bob, eve}
    Texts = {old}
    Blank = Blank
    Relations = {likes}
    Conflicts <- Unopposed
    Strength = 2
    Alike <- SameText
    BatchCount = 2
    MaxOps = 1
    MaxCalls = 2
    MaxCycles = 0
    MaxCrashes = 1
    MaxEdges = 2
    Absent = Absent
    Gone = Gone
    None = None
    Free = Free
SPECIFICATION Spec
SYMMETRY Interchangeable
INVARIANTS OneEdgeEach MergeKeepsRelations
CHECK_DEADLOCK FALSE
