\* The traffic of the parts is bounded: at its end a part stops.
SPECIFICATION Spec
INVARIANTS
  PageTablesAgree
  FastSetIsASet
  WaysAndCountsAgree
  PredictorsBelieve
  BanksAndQueuesAgree
  LearnsFromEachActionOnce
  RlpEnginesUntaught
  GenerationsTracked
  TrackedOnce
  BestChosen
CHECK_DEADLOCK FALSE
