SPECIFICATION Spec
CONSTANTS
    Str <- MCStr
    KeyRank <- MCKeyRank
    Empty = ""
    FnName <- MCFnName
    Evaluate <- MCEvaluate
    Interpolate <- MCInterpolate
    FromNow <- MCFromNow
    JsonText <- MCJsonText
    Identifiers <- MCIdentifiers
    SingleDollar <- MCSingleDollar
    Unescape <- MCUnescape
    EachVars <- MCEachVars
    EachThreeVars <- MCEachThreeVars
    ByVar <- MCByVar
    BUILTINS <- MCBuiltins
    Stamp <- MCStamp
    TestStamp = "Tt"
    Inputs <- ReduceInputs
    MaxDepth = 6
    MaxClock = 0
INVARIANT ReduceUnwrapsAreSafe
