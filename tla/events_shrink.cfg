SPECIFICATION Spec
CONSTANTS
    c1 = c1
    c2 = c2
    l1 = l1
    l2 = l2
    w1 = w1
    w2 = w2
    w3 = w3
    Nil = Nil
    Client <- MCClient
    Looper <- MCNoLooper
    Fd <- MCTwoFds
    Waiter <- MCTwoWaiters
    None <- MCNone
    InitSize = 2
    MaxGen = 1
CHECK_DEADLOCK FALSE
PROPERTIES
    GrowOnly
