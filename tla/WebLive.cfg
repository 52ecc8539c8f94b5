SPECIFICATION FairSpec
INVARIANT TypeOK
INVARIANT TablesAreTrue
PROPERTY PagesCatchUp
CHECK_DEADLOCK FALSE
