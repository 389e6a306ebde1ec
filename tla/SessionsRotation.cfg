SPECIFICATION SessionsSpec
CONSTANTS
  Calls = {c1, c2, c3, c4, c5}
  Passwords = {p1, p2}
  First = p1
  Default = p2
  Nothing = Nothing
SYMMETRY Symmetry
INVARIANT OneSuccessor
PROPERTY LoggedOutForGood
CHECK_DEADLOCK FALSE
