SPECIFICATION PolicySpec
CONSTANTS
  Fold <- MCFold
  IPText <- MCIPText
  CIDRTexts <- MCCIDRTexts
  NoNode = NoNode
  maxPendingDelta = 3
  maxApprovedDelta = 2
  maxMachineClockSkew = 1
  maxMachineDelta = 4
  maxDiffBetweenPendingCSRsAndMachinesCount = 100
  Requests <- MCRequests
  MachineLists <- MCMachineLists
  Pools <- MCPools
  Listeners <- MCListeners
  Nodes <- MCNodes
  Networks <- MCNetworks
  HostText = "10.0.0.1"
INVARIANTS
  ServingNamesVouched
  ListOrderIrrelevant
  RetryCanSucceed
PROPERTIES
  DeclineFinal
