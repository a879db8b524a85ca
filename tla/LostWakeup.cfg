SPECIFICATION FairSpec
CONSTANTS
    Calls = {c1}
    NoResult = NoResult
PROPERTIES CallsServed
CHECK_DEADLOCK FALSE
