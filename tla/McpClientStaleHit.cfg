CONSTANTS
    c1 = c1
    c2 = c2
    plain = plain
    risky = risky
    empty = empty
    NoTools = NoTools
    Callers <- MCCallers
    Wants <- MCWants
    Lists <- MCLists
    Offering <- MCOffering
    Permitted <- MCPermitted
    MaxChanges = 1
    MaxGenerations = 1
SPECIFICATION Spec
CHECK_DEADLOCK FALSE

INVARIANT
    HitsReturn
