----------------------------- MODULE MCApprover -----------------------------
(***************************************************************************)
(* Small clusters for the CSR controller: nodes n1 and n2 with machines m1 *)
(* and m2, and one CSR of each kind the policy tells apart.                *)
(***************************************************************************)
EXTENDS Approver

Name(n) == <<nodeUserPrefix, n>>

BootstrapReq(n) ==
  [username |-> nodeBootstrapperUsername, groups |-> nodeBootstrapperGroups,
   usages |-> kubeletClientUsages, parses |-> TRUE, cn |-> Name(n), orgs |-> <<nodeGroup>>,
   dns |-> <<>>, emails |-> <<>>, ips |-> <<>>, uris |-> <<>>]

ServingReq(n, ip) ==
  [username |-> Name(n), groups |-> {nodeGroup, "system:authenticated"},
   usages |-> validationUsageSetLegacy, parses |-> TRUE, cn |-> Name(n), orgs |-> <<nodeGroup>>,
   dns |-> <<n>>, emails |-> <<>>, ips |-> <<ip>>, uris |-> <<>>]

MCRequest ==
  [c \in CSR |->
     CASE c = "client1"  -> BootstrapReq("n1")
       [] c = "serving1" -> ServingReq("n1", "ip1")
       [] c = "serving2" -> ServingReq("n2", "ip2")
       \* a kubelet's request that does not parse as PEM
       [] c = "garbled"  -> [ServingReq("n1", "ip1") EXCEPT !.parses = FALSE]]

MCIPText == [ip \in {"ip1", "ip2"} |-> IF ip = "ip1" THEN "10.0.0.1" ELSE "10.0.0.2"]
MCFold == [n \in {"n1", "n2"} |-> n]
MCCIDRTexts == [c \in {"10.0.0.0/31"} |-> {"10.0.0.1"}]

AddressesOf(n, text) ==
  <<[type |-> "InternalDNS", address |-> n], [type |-> "InternalIP", address |-> text]>>

MCAddresses ==
  [m \in Machine |-> IF m = "m1" THEN AddressesOf("n1", "10.0.0.1") ELSE AddressesOf("n2", "10.0.0.2")]
MCNodeAddresses ==
  [n \in Node |-> <<[type |-> "InternalIP", address |-> IF n = "n1" THEN "10.0.0.1" ELSE "10.0.0.2"]>>]

\* m1 is an OpenShift machine, m2 one of Cluster API.
MCGroupOf == [m \in Machine |-> IF m = "m1" THEN "mapi" ELSE "capi"]
MCNamespaceOf == [m \in Machine |-> "machine-api"]
OneGroup == <<[group |-> "mapi", version |-> ""]>>
\* The deployment for Cluster API pins a version.
TwoGroups == <<[group |-> "mapi", version |-> ""], [group |-> "capi", version |-> "v1beta1"]>>
MAPIOnly == [g \in {"mapi"} |-> {"v1beta1"}]
BothServed == [g \in {"mapi", "capi"} |-> {"v1beta1"}]

KubeletCert(root) ==
  [cn |-> Name("n1"), dns |-> <<"n1">>, emails |-> <<>>, ips |-> <<"ip1">>, uris |-> <<>>,
   issuer |-> root, expired |-> FALSE]
NoCerts == {}
RotatedCerts == {KubeletCert("new")}
MCListening == [h \in Host |-> <<>>]

MCHostSubnet == [n \in Node |-> [found |-> FALSE, egressIPs |-> <<>>, egressCIDRs |-> <<>>]]
MCBundleRoots == [b \in {"old-bundle", "new-bundle"} |->
                    IF b = "old-bundle" THEN {"old"} ELSE {"old", "new"}]
FixedCA == <<"old-bundle">>
RotatingCA == <<"absent", "nokey", "old-bundle", "new-bundle">>
=============================================================================
