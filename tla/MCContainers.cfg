SPECIFICATION Spec
CONSTANTS
    Str = {"", "a", "b"}
    KeyRank <- MCRank
    Empty = ""
    FnName = {}
    Rounds = 3
    ObjectPool <- MCObjects
    ListPool <- MCLists
    ItemPool <- MCItems
    KeyPool <- MCKeys
INVARIANTS MergeDeepFollowsCode LaterItemsWin FlattenDeepFollowsCode SortIsStable
CHECK_DEADLOCK FALSE
