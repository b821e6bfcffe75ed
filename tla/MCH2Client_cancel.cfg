CONSTANTS
    r1 = r1  r2 = r2  p1 = p1
    Reqs = {r1, r2}
    Pushes = {p1}
    Confs <- Canceled
    Max1xx = 1
    QMax = 1
SPECIFICATION Spec
CHECK_DEADLOCK FALSE
INVARIANT CanceledForgotten
