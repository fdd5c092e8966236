SPECIFICATION Spec
CONSTANTS
    Str <- MCStr
    KeyRank <- MCKeyRank
    Empty = ""
    FnName <- MCFnName
    Parse <- MCParse
    NumText <- MCNumText
    ParseNumber <- MCParseNumber
    FromNow <- MCFromNow
    White = {" "}
    Recase <- MCRecase
    Chars <- MCChars
    Spell <- MCSpell
    Trees <- MCTrees
    Nodes <- MCNodes
    Denoted <- MCDenoted
    Contexts <- MCContexts
INVARIANT FollowsEval
PROPERTY Ends
CHECK_DEADLOCK FALSE
