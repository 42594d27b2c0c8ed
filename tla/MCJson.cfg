\* json-c's parts: a print buffer of up to 24 bytes, integers of five bits, a hash
\* table that grows twice, lists of up to four slots, trees of three values and
\* their copies, strings; the URL cache under one thread and under two; the
\* script that writes the status.
CONSTANTS
    IntMax = 24
    FirstSize = 4
    LongMax = 15
    Int32Max = 3
    k1 = k1
    k2 = k2
    k3 = k3
    k4 = k4
    Keys <- MCKeys
    Values = {0, 1}
    Hash <- MCHash
    InitSize = 2
    MaxSize = 7
    o1 = o1
    o2 = o2
    o3 = o3
    c1 = c1
    c2 = c2
    c3 = c3
    c4 = c4
    c5 = c5
    c6 = c6
    c7 = c7
    Objs <- MCObjs
    Spare <- MCSpare
    Names = {"k", "l"}
    Data = {"text"}
    CString <- MCCString
    NULL = NULL
    MaxHeld = 1
    MaxKids = 2
    u2 = u2
    Null = Null
    Items = {i1, i2, i3}
    MaxSlots = 4
    MaxInt = 7
    PointerSize = 2
    NewLengths <- MCNewLengths
    SetLengths <- MCSetLengths
    Contents = {"a", "b"}
    Threads = {t1, t2}
    URLs = {u1}
    NoURL = NoURL
    MaxDocs = 3
    MaxGiven = 2
    Versions = {v1}
SPECIFICATION JsonSpec
INVARIANTS
    WritesWithinBuffer
    HoldsTheSum
    EqualIsSameInteger
    FindsEveryKey
    OwnsItsElements
    RefsAreCounted
    
    EqualIsSameValue
    
    CountsEveryUse
    
    SummaryIsEarned
    JsonAgreesWithSummary
PROPERTIES
    IsOrderedMap
    AnswersStick
SYMMETRY PlaceSymmetry
CHECK_DEADLOCK FALSE
