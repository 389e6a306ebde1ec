SPECIFICATION LibrarySpec
CONSTANTS
  Books = {b1, b2}
  Checkouts = {c1, c2, c3}
  Returns = {t1, t2, t3}
  Schools = {north, south}
  MaxCopies = 2
  Nothing = Nothing
SYMMETRY Symmetry
INVARIANTS CountIsLedger Stocked
CHECK_DEADLOCK FALSE
