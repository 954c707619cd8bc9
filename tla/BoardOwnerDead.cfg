SPECIFICATION Spec
CONSTANTS
  DaemonThreads = {archive}
  Readers = {wsview1, wsview2}
  Segs = {s1, s2}
  NoSeg = NoSeg
  Free = Free
PROPERTIES ReaderRecovers
