SPECIFICATION Spec
CONSTANTS
    Letters <- MCLetters
    Digits = {}
    Blanks = {}
    Sources <- MCSources
    Partial <- MCPartial
    Show <- MCShow
    MaxTokens = 5
INVARIANTS MeansItsPieces EscapesUndone
PROPERTIES Terminates
CHECK_DEADLOCK FALSE
