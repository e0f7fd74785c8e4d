SPECIFICATION FairSpec
CONSTANTS
  Jobs = {1, 2}
  Flows = {"f1", "f2"}
  Tasks <- TwoFlows
  Submitters <- FirstOnly
  Cancellable = {}
  TaskJob <- MCTaskJob
  TaskFlow <- MCTaskFlow
  JobStates <- MCStates
  NumReads = 200
  MaxFaults = 1
PROPERTY EveryWaitEnds
