SPECIFICATION Spec
CONSTANTS
  Subs = {s1, s2}
  Callers = {t1, t2}
  MaxSubscribers = 2
  MaxQueued = 2
  Sizes = {1, 3}
  SmallFrame = 1
  MaxOverflows = 2
  RetryHint = TRUE
  Interval = 1
  MaxEvents = 1
  Nobody = nobody
INVARIANT NotifierUnusedAfterDetach
CHECK_DEADLOCK FALSE
