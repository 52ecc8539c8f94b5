SPECIFICATION Spec
INVARIANT TypeOK
INVARIANT ShownIsCurrent
 
INVARIANT WorkIsKept
INVARIANT ReaderKeepsPage
INVARIANT OrdersAreRight
INVARIANT OnceIsEnough
INVARIANT FiltersCanBeUndone
PROPERTY EffectsSettle
CHECK_DEADLOCK FALSE
