\* A ring of three slots and requests longer than it; two lists of three
\* items; a button next to the wheel's bit; all field and text widths.
SPECIFICATION SequentialSpec
CONSTANTS
    a = a
    b = b
    l1 = l1
    l2 = l2
    i1 = i1
    i2 = i2
    i3 = i3
    k1 = k1
    Null = Null
    Bytes = {a, b}
    Capacity = 3
    MaxRequest = 4
    ReadModulus = 4
    HangLimit = 100000
    Lists = {l1, l2}
    Items = {i1, i2, i3}
    Values = {0, 1, 2, 5, 9, 31, 255}
    Buttons = {4}
    PlainKeys = {k1}
    ExtendedKeys = {}
    MaxQueue = 2
    MaxMotion = 1
    Types <- Bytelike
    Numbers <- Ends
    MinWidths = {0, 2, 9}
    Lengths = {0, 1, 4}
    Widths = {0, 2, 6}
INVARIANTS CallsWhatStays FieldsAreIndependent EdgesTellStates NumbersReadBack
PROPERTIES ImplementsQueue ImplementsSequences
