\* MaxPost: bodies below, at and above it occur.  MaxOps: a buffered write,
\* one that overflows the buffer, and a flush.
CONSTANTS
    Confs <- Several
    MaxPost = 2
    MaxOps = 3
SPECIFICATION FairSpec
CHECK_DEADLOCK FALSE
INVARIANTS InputExact Parses NoConcurrentRead
PROPERTY ServerMoves
