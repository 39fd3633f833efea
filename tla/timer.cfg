CONSTANTS
    Channs = {c1, c2, c3}
    MaxLevel = 2
    Intervals = {1, 4}
    IntMax = 2
    MaxTime = 2
    Null = Null
    ListHead = ListHead
    Freed = Freed
SPECIFICATION Spec
SYMMETRY Symmetry
INVARIANTS ListShape TimerOwnerAlive
PROPERTIES CursorKept NeverEarly RefinesService
CHECK_DEADLOCK FALSE
