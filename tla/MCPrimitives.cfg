SPECIFICATION Spec
CONSTANTS
    MaxMantissa = 7
    MaxInt = 15
    MaxShort = 3
    MaxSize = 31
    Ulps = {1, 2, 4, 8, 16, 32}
    MaxHalves = 80
    MaxLength = 3
    Alphabet = {"a", " ", "e'", "clef"}
    White = {" "}
    Width <- MCWidth
    MaxText = 5
    MaxSeparator = 2
INVARIANTS IndexIsExact SliceIsExact RangeIsDocumented JsonKeepsNumbers SlicesByCharacter SplitSettles
CHECK_DEADLOCK FALSE
