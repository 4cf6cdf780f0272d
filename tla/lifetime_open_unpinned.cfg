CONSTANTS
  Filter = {f1}
  Ctx = {c1}
  Thread = {t1}
  Handle = {h1}
  ListHead = ListHead
  NoCtx = NoCtx
  Kinds = {"open"}
SPECIFICATION Spec
INVARIANT OpenServesLiveContext
