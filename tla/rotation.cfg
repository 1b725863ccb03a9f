\* Two programs, three keys: a daemon that serves beside a rotation, two rotations.
SPECIFICATION FairSpec
CONSTANTS
  None = None
  Proc = {p1, p2}
  Key = {k1, k2, k3}
INVARIANTS
  DatabaseReadable
  NoStrayKeys
  SecretsReadable
PROPERTIES
  ImplementsKeyCustody
  RotationSettles
\* A first start that dies while it creates the key, or while it rotates before
\* the database exists, is refused for good: no step is left.
CHECK_DEADLOCK FALSE
