SPECIFICATION Spec
CONSTANTS
    DigitValue <- MCDigitValue
    Blanks <- MCBlanks
    MaxInt = 127
    MaxSeconds = 60
    Times <- MCTimes
    SecondsIn <- MCSecondsIn
    DaysIn <- MCDaysIn
    ParseTime <- MCParseTime
    MaxComponents = 3
INVARIANTS OnceAndInOrder OffsetIsExact
CHECK_DEADLOCK FALSE
