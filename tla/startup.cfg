SPECIFICATION FairSpec
PROPERTIES
    TunnelsStart
CHECK_DEADLOCK FALSE
