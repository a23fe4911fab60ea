SPECIFICATION FairSpec
CONSTANTS
  Fold <- MCFold
  IPText <- MCIPText
  CIDRTexts <- MCCIDRTexts
  NoNode = NoNode
  NoCSR = NoCSR
  maxPendingDelta = 3
  maxApprovedDelta = 2
  maxMachineClockSkew = 1
  maxMachineDelta = 4
  Request <- MCRequest
  GroupOf <- MCGroupOf
  Addresses <- MCAddresses
  NodeAddresses <- MCNodeAddresses
  BundleRoots <- MCBundleRoots
  NetworkType = "OVNKubernetes"
  HostSubnet <- MCHostSubnet
  InitListening <- MCListening
  CSR = {"client1", "serving1"}
  Machine = {"m1"}
  APIGroupVersions <- TwoGroups
  ServedVersions <- BothServed
  NamespaceOf <- MCNamespaceOf
  MachineNamespace = ""
  Decodable = {"m1"}
  Node = {"n1"}
  Host = {"10.0.0.1"}
  Cert <- NoCerts
  CAHistory <- FixedCA
  Disabled = FALSE
  InitMachines = {"m1"}
  InitNodes = {}
  Events = {"approve", "link", "node"}
  MaxNow = 0
  MaxFaults = 1
  MaxDisruptions = 0
  maxDiffBetweenPendingCSRsAndMachinesCount = 100
PROPERTIES ServingApproved ApprovedSettles
CHECK_DEADLOCK FALSE
