SPECIFICATION Spec
CONSTANTS
  home = home  other = other  kid = kid  tutor = tutor
  g1 = g1  g2 = g2  z1 = z1  z2 = z2
  Schools = {home, other, third}
  Users = {kid, tutor, fresh}
  Calls = {c1, c2, c3}
  StartUsers <- MCStartUsers
  StartGrades <- MCStartGrades
  StartSections <- MCStartSections
  FirstStudent = r0
  FirstTeacher = t0
  Super = super
  None = None
SYMMETRY Symmetry
INVARIANTS OneOfEach NotBetweenSchools SchoolAgrees
CHECK_DEADLOCK FALSE
