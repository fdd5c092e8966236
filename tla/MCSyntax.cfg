SPECIFICATION Spec
CONSTANTS
    Letters <- MCLetters
    Digits <- MCDigits
    Blanks <- MCBlanks
    MaxConstructors = 2
    MaxTokens = 5
INVARIANTS TreesSurvive EmbedsUnchanged WorkBounded NamesAgree
CHECK_DEADLOCK FALSE
