\* 16 sample lines in files of up to four; chunks of 1 and 15 symbols; indices below 40.
CONSTANTS
    IndexMax = 39
    PinIdMax = 29
    AccMax = 3
    ChunkSizes <- TheChunkSizes
    Texts <- FileTexts
    Symbol <- TheSymbols
    EndOfLine <- Newline
    ScanLine <- ScanLineFwd
    Apply <- ApplyLine
    StateInit <- StateDInit
SPECIFICATION SpecMC
INVARIANT
    ReadExact
    RecordsExact
    BlockExact
    PinReadersAgree
PROPERTY
    ReadsTheWhole
CHECK_DEADLOCK FALSE
