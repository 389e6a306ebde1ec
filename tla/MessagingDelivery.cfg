SPECIFICATION Spec
CONSTANTS
  u1 = u1
  u2 = u2
  Users = {u1, u2}
  Teacher = u2
  Section = {u1}
  Sockets = {s1, s2}
  Owner <- MCOwner
  Phones = {u1}
  Requests = {r1, r2}
  Types = {"DIRECT", "untyped"}
  Groups = {"assignment"}
  Messages = {m1}
  MaxStalls = 1
  MaxCrashes = 1
  None = None
SYMMETRY Symmetry
INVARIANTS OneDirect Reached
CHECK_DEADLOCK FALSE
