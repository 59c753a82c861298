CONSTANTS
    a = a
    b = b
    c = c
    d = d
    e = e
    g = g
    h = h
    w = w
    x = x
    y = y
    ab = ab
    bc = bc
    bg = bg
    cd = cd
    ce = ce
    de = de
    dw = dw
    dx = dx
    dy = dy
    eg = eg
    eh = eh
    f1 = f1
    f2 = f2
    Tokens = {a, b, c, d, e, g, x, y}
    Pairs = {ab, bc, bg, cd, ce, dx, dy, eg}
    Ends <- Branched
    Weth = b
    Finders = {f1, f2}
    Queries <- BranchedQueries
    Room = {3, 5, 6, 7}
    Versions <- MiddleChanges
SPECIFICATION Spec
INVARIANTS TypeOK CachedCurrent ShortConnects NearestRight
CONSTRAINTS StemFirst WethAlone
SYMMETRY Calls
