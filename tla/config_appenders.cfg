SPECIFICATION Spec
CONSTANTS
    Null = Null
    Bad = Bad
    root = root
    db = db
    std = std
    file = file
    p = p
    q = q
    Name = {root, db}
    Root = root
    Writer = {w1}
    Setter = {s1}
    StdOut = std
    File = file
    Managed = {}
    Pattern = {p, q}
    Default = p
    Info = 2
    Line = {1}
    MaxAppenders = 1
    Level <- Levels
    Document <- Documents
INVARIANTS
    AppendersApplied
