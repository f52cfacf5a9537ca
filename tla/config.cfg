SPECIFICATION Spec
CONSTANTS
    Null = Null
    Bad = Bad
    root = root
    db = db
    std = std
    file = file
    p = p
    q = q
    Name = {root, db}
    Root = root
    Writer = {w1, w2}
    Setter = {s1, s2}
    StdOut = std
    File = file
    Managed = {root}
    Pattern = {p, q}
    Default = p
    Info = 2
    Line = {1}
    MaxAppenders = 1
    Level <- Levels
    Document <- Documents
SYMMETRY Symmetry
INVARIANTS
    TypeOK
    WriteSafe
    Inherits
    Settled
    NobodyStuck
