CONSTANTS
  Handle = {h1}
  Nobody = Nobody
SPECIFICATION FairSpec
CHECK_DEADLOCK FALSE
INVARIANT FreedTimerIsIdle
