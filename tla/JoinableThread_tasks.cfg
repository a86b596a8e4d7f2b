\* Two Thread objects and three tasks; joining a task that was not created hangs.
SPECIFICATION FairSpec
CONSTANTS
    x = x
    y = y
    i1 = i1
    i2 = i2
    i3 = i3
    Null = Null
    Objects = {x, y}
    Impls = {i1, i2, i3}
    CreateFails = TRUE
INVARIANTS JoinedAfterBody NothingDangles
PROPERTY JoinEnds
CHECK_DEADLOCK FALSE
