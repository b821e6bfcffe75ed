SPECIFICATION Spec
INVARIANTS StopsWait  
PROPERTIES StopsEnd RelaysEnd BodyArrives
CHECK_DEADLOCK FALSE
