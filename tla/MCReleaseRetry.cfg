SPECIFICATION MCSpec
SYMMETRY Symmetry
CONSTANTS
    ann = ann
    bob = bob
    cat = cat
    eve = eve
    joe = joe
    b1 = b1
    t1 = t1
    t2 = t2
    h1 = h1
    h2 = h2
    none = none
    i1 = i1
    i2 = i2
    i3 = i3
    Users = {ann, bob, cat}
    Batches = {b1}
    Records <- MCRecords
    Handlers = {h1}
    Listing <- MCListing
    MaxAttempts = 3
    Nothing = none
    Identities = {i1, i2, i3}
    Limit = 2
    Window = 2
    Cap = 2
    MaxTime = 5
    MaxHits = 0
INVARIANTS
    PartialNeverLooksComplete
CHECK_DEADLOCK FALSE
