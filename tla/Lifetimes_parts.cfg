\* Two threads with two and one pointers and three objects; two devices opened
\* at one port; classes of one or two layers of up to two interfaces.
SPECIFICATION LifetimesSpec
CONSTANTS
    t1 = t1
    t2 = t2
    p1 = p1
    p2 = p2
    p3 = p3
    o1 = o1
    o2 = o2
    o3 = o3
    d1 = d1
    d2 = d2
    IA = IA
    IB = IB
    IC = IC
    IUnknown = IUnknown
    Null = Null
    Unused = Unused
    Devices = {d1, d2}
    Contents <- TwoDevices
    Isochronous = {131}
    Interfaces = {IA, IB, IC}
    Base <- Bases
    MaxLayers = 2
    MaxListed = 2
    Threads = {t1, t2}
    Pointers = {p1, p2, p3}
    OwnerOf <- TwoAndOne
    Objects = {o1, o2, o3}
    SelfAssigns = FALSE
    Numbers = {3, 4, 5, 6, 7, 8, 9, 10}
    EpollFails = TRUE
SYMMETRY Symmetry
INVARIANTS NothingDangles CountsHolders DescribesOneDevice NothingIsLeft FindsTheOverride
CHECK_DEADLOCK FALSE
