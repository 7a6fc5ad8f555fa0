SPECIFICATION FairSpec
CONSTANTS
  Key = {"a", "b", "c"}
  Value = {1, 2, 3}
  Item <- MCItem
  Inputs <- MCInputs
  Map <- MCMap
  Reduce <- MCReduce
  MaxThreads = 3
  MaxIntermediate = 2
  MaxCalls = 2
INVARIANTS TypeOK MapComplete ReduceComplete SharesPartition
PROPERTIES Returns
