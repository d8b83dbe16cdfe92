CONSTANTS
  NoThread = NoThread
  NoCaller = NoCaller
  Threads = {w1, f1, f2}
  Fetchers = {f1, f2}
  Callers = {c1, c2}
  A = A
  B = B
  Lists = {A, B}
  Arguments <- MCArguments
  MaxCalls = 1
  MaxWrites = 1
SPECIFICATION PfSpec
INVARIANTS
  QuietFill
  AllRead
PROPERTY
  Returns
