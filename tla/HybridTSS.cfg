CONSTANTS
  State = {0, 1}
  Action = {0, 1}
  NumThreads = 2
  loopNum = 3
  progressStep = 60
  lr = 1
  decay = 1
  Lessons <- MCLessons
  a = a
  b = b
  f = f
  Object = {a, b}
  Options <- MCOptions
  ValidBits = {20, 21}
  Path = {f}
  NoPath = NoPath
  NoFile = NoFile
  NoTable = NoTable
  MaxTrainings = 2
SPECIFICATION Spec
INVARIANTS
  TypeOK
  ProgressIsHonest
  MergedIsMean
  OnlyTrainedTables
  FileIsLastSave
  ResultIsState
PROPERTY CallReturns
