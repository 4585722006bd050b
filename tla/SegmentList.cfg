CONSTANTS
    s1 = s1
    s2 = s2
    s3 = s3
    s4 = s4
    x = x
    y = y
    Node = {s1, s2, s3, s4}
    NoNode = NoNode
    SegNum <- MCSegNum
    Name = {x, y}
    NoName = NoName
    VarName <- MCVarName
    NameHash <- MCNameHash
    InitTableSize = 2
SPECIFICATION Spec
INVARIANT ListLinked
PROPERTY LookupExact
