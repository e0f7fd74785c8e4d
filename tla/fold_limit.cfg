SPECIFICATION Spec
CONSTANTS
  Jobs = {1, 2}
  Flows = {"f1"}
  Tasks <- OneFlow
  Submitters <- OneFlow
  Cancellable = {"f1"}
  TaskJob <- MCTaskJob
  TaskFlow <- MCTaskFlow
  JobStates <- MCStates
  NumReads = 1
  MaxFaults = 0
INVARIANT FoldLeavesNothingRunning
