CONSTANTS
    a = a
    b = b
    c = c
    d = d
    e = e
    g = g
    h = h
    w = w
    x = x
    y = y
    ab = ab
    bc = bc
    bg = bg
    cd = cd
    ce = ce
    de = de
    dw = dw
    dx = dx
    dy = dy
    eg = eg
    eh = eh
    f1 = f1
    f2 = f2
    Tokens = {a, b, c, d, e, h, w}
    Pairs = {ab, bc, cd, de, dw, eh}
    Ends <- Forked
    Weth = w
    Finders = {f1}
    Queries <- ForkedQueries
    Room = {3, 5, 6, 7}
    Versions <- Unchanged
SPECIFICATION Spec
INVARIANTS PathConnects
CHECK_DEADLOCK FALSE
