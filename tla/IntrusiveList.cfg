\* Five elements, two pairs of them equal, in two lists.
SPECIFICATION Spec
CONSTANTS
    e1 = e1  e2 = e2  e3 = e3  e4 = e4  e5 = e5
    Elem <- FiveElems
    key <- FiveKeys
    NULL = NULL
INVARIANT WellLinked
PROPERTIES ComparesRight SortsStably PassHalves SortReturns ImplementsLists
