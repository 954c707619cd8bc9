SPECIFICATION VantageSpec
CONSTANTS
  MaxTime = 8
  LogSize = 6
  RecCount = 3
  NoPage = NoPage
  MaxBehind = 2
INVARIANTS TypeOK AnswerIsArchive AnswersOwn PageExpected QuietWhenDone
PROPERTIES CallEnds
