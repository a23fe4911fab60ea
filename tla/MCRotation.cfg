SPECIFICATION FairSpec
CONSTANTS
  Fold <- MCFold
  IPText <- MCIPText
  CIDRTexts <- MCCIDRTexts
  NoNode = NoNode
  NoCSR = NoCSR
  maxPendingDelta = 3
  maxApprovedDelta = 2
  maxMachineClockSkew = 1
  maxMachineDelta = 4
  Request <- MCRequest
  GroupOf <- MCGroupOf
  Addresses <- MCAddresses
  NodeAddresses <- MCNodeAddresses
  BundleRoots <- MCBundleRoots
  NetworkType = "OVNKubernetes"
  HostSubnet <- MCHostSubnet
  InitListening <- MCListening
  CSR = {"serving1"}
  Machine = {"m1"}
  APIGroupVersions <- TwoGroups
  ServedVersions <- MAPIOnly
  NamespaceOf <- MCNamespaceOf
  MachineNamespace = ""
  Decodable = {}
  Node = {"n1"}
  Host = {"10.0.0.1"}
  Cert <- RotatedCerts
  CAHistory <- RotatingCA
  Disabled = FALSE
  InitMachines = {}
  InitNodes = {"n1"}
  Events = {"kubelet", "restart", "machine"}
  MaxNow = 0
  MaxFaults = 1
  MaxDisruptions = 1
  maxDiffBetweenPendingCSRsAndMachinesCount = 100
PROPERTIES ServingApproved
CHECK_DEADLOCK FALSE
