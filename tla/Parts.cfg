CONSTANTS
    Name = {web, tunnel}
    Anonymous = Anonymous
    MaxApps = 3
    MaxDepth = 2
    MaxPreamble = 1
    MaxCheckers = 2
    MaxKeys = 2
    Block = {b1, b2, b3, b4, b5}
    Null = Null
    Wild = Wild
    Leftover = {Null, Wild}
    Plans <- SomePlans
    Conn = {c1, c2}
    Taken <- OtherPrograms
    Ports = 10
    Byte = {a, b}
    Nul = Nul
    MinSize = 2
    MaxSize = 5
    MaxText = 3
    Interval = 3
    Sub = 2
    Offset = {40, 41, 30}
    Word = 100
    MaxTime = 22
    Size = 40
    Stamp = 20
    Lengths = {0, 10, 11, 13, 14, 15}
    Levels = {0, 4}
    MaxEntries = 2
    Alphabets <- SomeAlphabets
    MaxPieces = 6
SPECIFICATION Spec
INVARIANTS
    NamesAreApps
    CheckersNotShared
    FieldsAreAsSaid
    ListsAreWhole
    PointersAreLive
    HoldsText
    ReadsWhatIsWritten
    LogIsComplete
PROPERTIES
    ShutdownEnds
    TicksAreFiltered
CHECK_DEADLOCK FALSE
