CONSTANTS
    Descriptors = {d1, d2}
    MaxAddresses = 2
    MaxConnects = 2
    c1 = c1
    c2 = c2
    k1 = k1
    Clients = {c1, c2}
    Brokers = {b1}
    Certs = {k1, k2}
    MaxNewCerts = 1
    MaxDrawn = 2
    MaxInput = 2
    Window = 1
    f1 = f1
    Fonts = {f1, f2}
    KeepsTail = FALSE
    MaxConnections = 2
SPECIFICATION MCSpec
INVARIANT WholeFontsAlways
CHECK_DEADLOCK FALSE
