\* Two writes, a read and a listing on one directory.
CONSTANTS
    w1 = w1  w2 = w2  r1 = r1  l1 = l1  notes = notes  todo = todo
    Requests = {w1, w2, r1, l1}
    Task <- Tasks
    Path <- Paths
    Limit <- LimitOne
    Names = {notes, todo}
    MaxDepth = 2
    OldTrees <- Trees
    Absent = Absent
    Dir = Dir
    Empty = Empty
    None = None
SPECIFICATION Spec
SYMMETRY Writes
INVARIANTS TypeOK NewerWriteStays ReadIsCurrent ListingComplete
PROPERTIES TextsStay SettledIsQuiet
CHECK_DEADLOCK FALSE
