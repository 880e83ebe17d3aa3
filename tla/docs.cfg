SPECIFICATION Spec
CONSTANTS
  f1 = f1
  f2 = f2
  book = book
  short = short
  long = long
  None = None
  Injected = Injected
  Paths = {f1, f2}
  Names = {book}
  Name <- MCName
  Texts = {short, long}
  Zone <- MCZone
  Workers = {1, 2}
INVARIANTS
  AnswersTheLastOpen
  IndexesAreKept
PROPERTY OpenReturns
CHECK_DEADLOCK FALSE
