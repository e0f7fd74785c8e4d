SPECIFICATION Spec
CONSTANTS
  Jobs = {1, 2}
  Flows = {"f1", "f2"}
  Tasks <- TwoFlows
  Submitters <- TwoFlows
  Cancellable = {}
  TaskJob <- MCTaskJob
  TaskFlow <- MCTaskFlow
  JobStates <- MCStates
  NumReads = 200
  MaxFaults = 0
INVARIANT NoVariableLeft
