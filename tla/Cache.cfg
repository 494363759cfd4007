SPECIFICATION FairSpec
CONSTANTS
    x = x
    y = y
    z = z
    w1 = w1
    w2 = w2
    w3 = w3
    Worker = {w1, w2, w3}
    Client = {c1}
    Attr = {x, y, z}
    Batch <- Mixed
    Meaning <- MCMeaning
    Size <- MCSize
    Limit = 8
    CleanTo = 5
    SizeModulus = 32
    Garbage = Garbage
    Absent = Absent
INVARIANTS
    TypeOK
    AccountingRight
    BelowLimitWhenQuiescent
    CachedContentRight
PROPERTY TaskEnds
