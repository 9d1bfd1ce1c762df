CONSTANT MaxDescs = 1
SPECIFICATION FairSpec
CHECK_DEADLOCK FALSE
PROPERTY
    ResetReturns
