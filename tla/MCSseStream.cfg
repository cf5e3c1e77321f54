SPECIFICATION Spec
CONSTANTS
  Subs = {s1}
  Callers = {t1, t2}
  MaxSubscribers = 1
  MaxQueued = 3
  Sizes = {1, 2, 4}
  SmallFrame = 1
  MaxOverflows = 2
  RetryHint = TRUE
  Interval = 2
  MaxEvents = 4
  Nobody = nobody
INVARIANTS BudgetExact InOrderNoGap
PROPERTIES ShutdownEndsStreams HeartbeatsFlow ImplementsEventFeed
CHECK_DEADLOCK FALSE
