SPECIFICATION Spec
CONSTANTS
    x = x
    y = y
    z = z
    w1 = w1
    w2 = w2
    w3 = w3
    Worker = {w1, w2, w3}
    Client = {c1}
    Attr = {x, y, z}
    Batch <- Moving
    Meaning <- MCMeaning
    Size <- MCSize
    Limit = 3
    CleanTo = 2
    SizeModulus = 32
    Garbage = Garbage
    Absent = Absent
INVARIANT EverythingBelowLimit
