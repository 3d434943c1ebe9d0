CONSTANTS
  MaxPid = 3
  Queues = {q1}
  Delays = {1, 2}
  Idle = Idle

SPECIFICATION Spec

INVARIANT TypeOK
INVARIANT OnePlaceEach
INVARIANT JobInOneSession
PROPERTY EventuallyRuns
PROPERTY LifecycleRefined
