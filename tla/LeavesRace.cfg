SPECIFICATION Spec
CONSTANTS
  Requests = {l1}
  Calls = {c1, c2}
  Horizon = 1
  MaxDeaths = 0
  Marks = {"PRESENT", "LEAVE"}
  Sundays = {1}
  Events <- MCEvents
  OwnSection = own
  None = None
SYMMETRY Symmetry
INVARIANTS LeaveDaysWereGranted AttendanceFollowsDecision CalendarAgrees
PROPERTY NoStaleWrite
