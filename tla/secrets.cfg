\* Two daemon processes and a key rotation, two readers.
SPECIFICATION FairSpec
CONSTANTS
  None = None
  Daemon = {d1, d2}
  Maintainer = {x1}
  MaxReads = 2
INVARIANTS
  NothingLeftBehind
PROPERTIES
  TracesGo
