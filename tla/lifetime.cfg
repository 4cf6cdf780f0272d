CONSTANTS
  Filter = {f1}
  Ctx = {c1}
  Thread = {t1, t2}
  Handle = {h1}
  ListHead = ListHead
  NoCtx = NoCtx
  Kinds = {"ioctl", "fastio", "cleanup", "open", "enum"}
  Offers <- SomeOffers
SPECIFICATION FairDriverSpec
INVARIANT TypeOK
INVARIANT PinnedContextIsLive
INVARIANT ListedContextIsLive
INVARIANT LocksOutliveUsers
PROPERTY NoReferenceOnceUnlinked
PROPERTY DetachCompletes
