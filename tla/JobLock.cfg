SPECIFICATION Spec
CONSTANTS
  Proc = {p1, p2, p3, p4}
  Inodes = {i1, i2}
  None = None
INVARIANT SameInode
PROPERTY IsMutex
