\* One key with the prefix E0.
SPECIFICATION Spec
CONSTANTS
    right = right
    Buttons = {}
    PlainKeys = {}
    ExtendedKeys = {right}
    MaxQueue = 2
    MaxMotion = 1
INVARIANT StatesAreNow
