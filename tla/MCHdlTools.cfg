SPECIFICATION RegSpec
CONSTANTS
    reg = reg net = net sig = sig wide = wide fixed = fixed mem = mem int = int copy = copy
    half = half part = part
    none = none
    Object = {reg, net, sig, wide, fixed, mem, int, copy, half, part}
    Nowhere = none
    Attr <- MyAttr
    Word = 2
    MaxWidth = 4
    Tools = {"QUESTA", "XCELIUM", "VCS", "VCSMX"}
    Scopes <- Tests
    Paths <- AllPaths
    Written <- TwoValues
    Garbage <- Dirty
    Moves <- SomeMoves
    Copies <- TwoCopies
    NBits = 4
    RegValues <- RegWrites
VIEW RegView
INVARIANTS ForceHolds
PROPERTIES ReadAgrees WriteLands OnlyNamedChange ReleaseFrees CheckedPathsRead RegRoundTrip
CHECK_DEADLOCK FALSE
