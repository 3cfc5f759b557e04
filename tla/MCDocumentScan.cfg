CONSTANTS
  c1 = c1
  c2 = c2
  w1 = w1
  w2 = w2
  w3 = w3
  erik = erik
  lili = lili
  ana = ana
  otto = otto
  paul = paul
  paula = paula
  Caller <- MCCaller
  Worker <- MCWorker
  None = None
  Today <- MCToday
  Noise <- MCNoise
  Document <- MCDocument
  Data <- MCData
  Confused <- MCConfused

SPECIFICATION FairSpec

INVARIANTS
  TypeOK
  NoWorkerLost
  ReadyIsAlive
  CleanReadingKept
  MisreadIsCaught
  BackendAgeOneMore

PROPERTIES
  ScanSettles

