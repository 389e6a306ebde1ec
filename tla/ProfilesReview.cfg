SPECIFICATION Spec
CONSTANTS
  Users = {teacher, full, outsider}
  Members = {teacher, full}
  Linked = {teacher}
  Teachers = {teacher}
  Principals = {full}
  Values = {x, y}
  Created <- MCCreated
  Pictured = {full}
  Calls = {c1, c2}
  Reviews = {v1, v2}
  full = full
  x = x
  None = None
SYMMETRY Symmetry
INVARIANTS NumbersReviewed PhotoThere
PROPERTIES ChangesAreApproved DecisionStands
CHECK_DEADLOCK FALSE
