SPECIFICATION StreamSpec
CONSTANTS
    WordSize = 4194304
    IntSize = 2048
    Objects <- MCObjects
    ResourceLists <- MCResourceLists
    MapOrders <- MCMapOrders
    NewFields <- MCNewFields
INVARIANTS
    KeepsEveryField
    FillsItsBuffer
    OneEncoding
    CutBetweenMembers
CHECK_DEADLOCK FALSE
