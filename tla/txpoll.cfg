CONSTANTS
  Handle = {h1, h2}
  Nobody = Nobody
SPECIFICATION FairSpec
CHECK_DEADLOCK FALSE
INVARIANT TypeOK
INVARIANT StoppedTimerIsIdle
INVARIANT SubscribersArePolledFor
PROPERTY PollingGoesOn
