SPECIFICATION Spec
CONSTANTS
  N = 2
  Thread = {t1, t2}
  Content = {c1, c2}
  MaxIds = 3
  MaxSettings = 3
  NoContent = NoContent
  Unasked = Unasked
SYMMETRY Symmetry
CONSTRAINT OneConcern
INVARIANTS IdsIdentify AnswersAreOwn
