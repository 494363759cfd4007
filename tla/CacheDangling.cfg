SPECIFICATION Spec
CONSTANTS
    x = x
    y = y
    z = z
    w1 = w1
    w2 = w2
    w3 = w3
    Worker = {w1, w2}
    Client = {c1}
    Attr = {x, y, z}
    Batch <- SameFolds
    Meaning <- MCMeaning
    Size <- MCSize
    Limit = 32
    CleanTo = 20
    SizeModulus = 32
    Garbage = Garbage
    Absent = Absent
INVARIANT HeldContentLive
