SPECIFICATION Spec
CONSTANTS
  Batches = {b1, b2}
  Records = {s1, s2}
  Requests = {r1, r2, r3}
  Users = {clerk, principal}
  Clerks = {clerk}
  Principals = {principal}
  Workers = {}
  Attempts = 1
  MaxStalls = 0
  None = None
SYMMETRY Symmetry
INVARIANTS TypeOK WholeBatch JobsAreCommitted DecidedOnceUnlessRaced
PROPERTY ImplementsMakerChecker
