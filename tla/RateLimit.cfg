\* Three requests of one client in windows of 2 ticks that allow 2 each, on clocks up to a
\* tick apart, counted up to a tick late.  The last window ends before the clock.
CONSTANTS
    Requests = {r1, r2, r3}
    Keys = {k1}
    Width = 2
    MaxRequests = 2
    Skew = 1
    MaxDelay = 1
    MaxTime = 6
    None = None
SPECIFICATION Spec
SYMMETRY RequestSymmetry
PROPERTIES IsFixedWindowLimiter
\* Every request is made at most once; after the last one the limiter rests.
CHECK_DEADLOCK FALSE
