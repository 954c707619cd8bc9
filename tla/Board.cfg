SPECIFICATION Spec
CONSTANTS
  DaemonThreads = {archive, wunder}
  Readers = {wsview1, wsview2}
  Segs = {s1, s2}
  NoSeg = NoSeg
  Free = Free
INVARIANTS TypeOK 
PROPERTIES DeadOwnerReplaced
