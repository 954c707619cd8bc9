SPECIFICATION Spec
CONSTANTS
  Threads = {sensor, archive, sync}
  Tools = {tool}
  Main = Main
  Daemon = Daemon
  NoOne = NoOne
INVARIANTS TypeOK ThreadExclusion NothingLeaked
PROPERTIES FlockGivenUp MutexGivenUp
