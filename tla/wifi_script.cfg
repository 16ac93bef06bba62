\* Joins and forgets of s1; s2 is another network, which may bear the name s1 and the
\* other way round.
CONSTANTS
  s1 = s1
  s2 = s2
  u1 = u1
  u2 = u2
  SSID = {s1, s2}
  Target = {s1}
  Uuid = {u1, u2}
  None = None
  Saved <- MCSaved
  Tries = 1
SPECIFICATION Spec
SYMMETRY Symmetry
INVARIANTS
  SavedWrongSurfaces
  PasswordPersisted
  NetworkNotLost
  ForgetForgets
PROPERTIES
  ProfilesKept
