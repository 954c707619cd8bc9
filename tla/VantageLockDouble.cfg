SPECIFICATION Spec
CONSTANTS
  Threads = {sensor, archive}
  Tools = {tool}
  Main = Main
  Daemon = Daemon
  NoOne = NoOne
INVARIANTS ThreadLocking
