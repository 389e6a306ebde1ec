SPECIFICATION Spec
CONSTANTS
  moved = moved
  other = other
  before = before
  after = after
  only = only
  eighths = eighths
  unset = unset
  Users = {moved, other}
  Students = {before, after, only}
  UserOf <- MCUserOf
  Assignments = {eighths, unset}
  MaxMarks <- MCMaxMarks
  Scale = 8
  Marks = {1, 2}
  Calls = {c1, c2, c3, c4}
  Sheets <- MCSheets
  Stranger = stranger
  None = None
CONSTRAINT BeforeDue
SYMMETRY Symmetry
INVARIANTS OneSubmission RatingIsAverage RanksFollowRatings
CHECK_DEADLOCK FALSE
