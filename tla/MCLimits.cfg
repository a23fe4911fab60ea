SPECIFICATION ResyncSpec
CONSTANTS
  Fold <- MCFold
  IPText <- MCIPText
  CIDRTexts <- MCCIDRTexts
  NoNode = NoNode
  NoCSR = NoCSR
  maxPendingDelta = 3
  maxApprovedDelta = 2
  maxMachineClockSkew = 1
  maxMachineDelta = 4
  Request <- MCRequest
  GroupOf <- MCGroupOf
  Addresses <- MCAddresses
  NodeAddresses <- MCNodeAddresses
  BundleRoots <- MCBundleRoots
  NetworkType = "OVNKubernetes"
  HostSubnet <- MCHostSubnet
  InitListening <- MCListening
  CSR = {"client1", "garbled"}
  Machine = {"m1"}
  APIGroupVersions <- OneGroup
  ServedVersions <- MAPIOnly
  NamespaceOf <- MCNamespaceOf
  MachineNamespace = ""
  Decodable = {"m1"}
  Node = {"n1"}
  Host = {"10.0.0.1"}
  Cert <- NoCerts
  CAHistory <- FixedCA
  Disabled = FALSE
  InitMachines = {"m1"}
  InitNodes = {}
  Events = {"approve", "node", "resync"}
  MaxNow = 0
  MaxFaults = 0
  MaxDisruptions = 0
  maxDiffBetweenPendingCSRsAndMachinesCount = 0
PROPERTIES EventuallyApproved
CHECK_DEADLOCK FALSE
