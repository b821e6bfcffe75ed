SPECIFICATION StallSpec
PROPERTY BodyArrives
CHECK_DEADLOCK FALSE
