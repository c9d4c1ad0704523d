CONSTANTS
    Base = 2
    Byte = 2
    Word = 4
    WordValues = 16
    HalfValues = 4
    Selector = 2
    Lengths <- TwoWords
    Amounts <- UpToTooWide
SPECIFICATION SearchSpec
INVARIANTS SearchTypeOK FindsTheFirstSlot MissesOnlyWhatIsNotThere
PROPERTIES SearchEnds
CHECK_DEADLOCK FALSE
