SPECIFICATION CancelSpec
CONSTANTS
  Jobs = {1, 2}
  Flows = {"f1"}
  Tasks <- OneFlow
  Submitters <- OneFlow
  Cancellable = {"f1"}
  TaskJob <- MCTaskJob
  TaskFlow <- MCTaskFlow
  JobStates <- MCStates
  NumReads = 200
  MaxFaults = 0
PROPERTY CancelledFlowFolds
