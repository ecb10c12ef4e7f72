SPECIFICATION FairSpec
CONSTANTS
  Kinds = {"health_check", "backup"}
  MaxRequests = 3
INVARIANTS
  TypeOK
  OkMeansCarriedOut
  ClosedIsTrue
  OneAnswerPerConnection
PROPERTIES
  RequestsReturn
  TaskEnds
