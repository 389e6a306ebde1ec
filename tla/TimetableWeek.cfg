SPECIFICATION Spec
CONSTANTS
  l1 = l1
  l2 = l2
  l3 = l3
  l4 = l4
  ann = ann
  bob = bob
  secA = secA
  secB = secB
  Lessons = {l1, l2, l3, l4}
  Teacher <- MCTeacher
  Section <- MCSection
  Day <- MCDay
  Lecture <- MCLecture
  Rooms = {r1, r2}
  PerWeek = 1
  Swaps = {w1}
  MaxBulk = 2
  Calls = {c1, c2, c3}
  None = None
SYMMETRY Symmetry
INVARIANTS NoClash NoRoomTwice SavedIsShown SubstituteIsFree
CHECK_DEADLOCK FALSE
