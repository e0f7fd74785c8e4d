SPECIFICATION CancelSpec
CONSTANTS
  Jobs = {1}
  Flows = {"f1", "f2"}
  Tasks <- Resumed
  Submitters <- Resumed
  Cancellable = {"f2"}
  TaskJob <- MCTaskJob
  TaskFlow <- MCTaskFlow
  JobStates <- MCStates
  NumReads = 200
  MaxFaults = 1
PROPERTY CancelledFlowFolds
