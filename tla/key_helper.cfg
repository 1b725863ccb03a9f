\* Four keys: a rotation of an earlier release, or a first key, and two rotations.
SPECIFICATION FairSpec
CONSTANTS
  None = None
  Scrap = Scrap
  Key = {k1, k2, k3, k4}
INVARIANTS
  MaterialIsJournaled
  LaunchIsAccepted
PROPERTIES
  ImplementsKeyCustody
  HelperSettles
\* Keys run out.
CHECK_DEADLOCK FALSE
