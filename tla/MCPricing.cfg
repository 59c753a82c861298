CONSTANTS
    tk = tk
    w = w
    u = u
    d = d
    x = x
    tw = tw
    uw = uw
    ud = ud
    dx = dx
    tx = tx
    f1 = f1
    Tokens = {tk, w, u, d, x}
    Pairs = {tw, uw, ud, dx, tx}
    Ends <- MCEnds
    Weth = w
    Finders = {f1}
    Queries <- MCQueries
    Room = {3, 5, 6, 7}
    Versions <- MCVersions
    Data <- MCData
    Decimals <- MCDecimals
    Tenfold = 3
    MinLiquidity = 10
    TopPairs = 1
    Asked = {tk, w, x}
    Worth <- MCWorth
SPECIFICATION PricingSpec
INVARIANTS PricingTypeOK PriceDirected ConfidenceSound BasesStable
