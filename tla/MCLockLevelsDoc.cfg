CONSTANTS
  NoThread = NoThread
  Threads = {t1, t2, t3}
  Lists = {A, B, C}
SPECIFICATION Spec
INVARIANT
  NoOtherLevel1
