SPECIFICATION Spec
CONSTANTS
  Jobs = {1}
  Flows = {"f1", "f2"}
  Tasks <- Resumed
  Submitters <- FirstOnly
  Cancellable = {"f1", "f2"}
  TaskJob <- MCTaskJob
  TaskFlow <- MCTaskFlow
  JobStates <- MCStates
  NumReads = 200
  MaxFaults = 2
PROPERTY ImplementsJobWatch
