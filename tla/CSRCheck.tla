------------------------------ MODULE CSRCheck ------------------------------
(***************************************************************************)
(* The approval policy (pkg/controller/csr_check.go, node_client.go and    *)
(* the lookups of pkg/machinehandler) as operators.  authorizeCSR maps a   *)
(* request and what the controller observed to one of three verdicts:      *)
(*   "approve"  (true, nil)                                                *)
(*   "decline"  (false, nil): dropped, nothing retries it                  *)
(*   "retry"    (false, error): requeued with back-off                     *)
(* Data.  A user or common name is a pair <<prefix, rest>>, prefix being   *)
(* "system:node:" or "".  Groups and usages are sets (the certificates/v1  *)
(* API refuses repeated usages).  An IP address is a byte value whose      *)
(* String() is IPText[ip]; the 4- and the 16-byte form of one address are  *)
(* two values with one text.  Fold[s] represents s up to letter case.  The *)
(* addresses a CIDR contains are CIDRTexts[cidr], a malformed one being    *)
(* outside that function's domain.  A CA pool is the set of its roots; {}  *)
(* is the nil pool (a bundle with no certificate never becomes a pool).    *)
(***************************************************************************)
EXTENDS Integers, FiniteSets, Sequences, SequencesExt

CONSTANTS
  Fold,         \* strings.EqualFold(a, b) is Fold[a] = Fold[b]
  IPText,       \* net.IP.String()
  CIDRTexts,    \* net.ParseCIDR / IPNet.Contains
  NoNode,       \* a nil NodeRef
  maxPendingDelta, maxApprovedDelta, maxMachineClockSkew, maxMachineDelta,
  maxDiffBetweenPendingCSRsAndMachinesCount

\* 1h, 30s, 10s and 2h in the code; only their order and signs matter.
ASSUME DeltaAssumption ==
  /\ maxMachineClockSkew \in Nat \ {0}
  /\ maxApprovedDelta \in Nat /\ maxPendingDelta \in Nat /\ maxMachineDelta \in Nat
  /\ maxMachineClockSkew < maxApprovedDelta
  /\ maxApprovedDelta < maxPendingDelta
  /\ maxPendingDelta < maxMachineDelta

ASSUME DiffAssumption == maxDiffBetweenPendingCSRsAndMachinesCount \in Nat

Verdict == {"approve", "decline", "retry"}

nodeUserPrefix == "system:node:"
nodeGroup == "system:nodes"
nodeBootstrapperUsername == <<"", "node-bootstrapper">>
nodeBootstrapperGroups ==
  {"system:serviceaccounts:mco", "system:serviceaccounts", "system:authenticated"}

HasNodePrefix(name) == name[1] = nodeUserPrefix

-----------------------------------------------------------------------------
\* Client certificate requests.

kubeletClientUsagesLegacy == {"key encipherment", "digital signature", "client auth"}
kubeletClientUsages == {"digital signature", "client auth"}

hasExactUsages(req, usages) ==
  Cardinality(usages) = Cardinality(req.usages) /\ req.usages \subseteq usages

isNodeClientCert(req) ==
  /\ req.orgs = <<nodeGroup>>
  /\ req.dns = <<>> /\ req.emails = <<>> /\ req.ips = <<>>
  /\ \/ hasExactUsages(req, kubeletClientUsagesLegacy)
     \/ hasExactUsages(req, kubeletClientUsages)
  /\ HasNodePrefix(req.cn)

isReqFromNodeBootstrapper(req) ==
  req.username = nodeBootstrapperUsername /\ req.groups = nodeBootstrapperGroups

isRequestFromNodeUser(req) == HasNodePrefix(req.username)

inTimeSpan(start, end, check) == check > start /\ check < end

\* The index of the first machine, in list order, that has the name among its
\* internal DNS addresses (compared exactly), or 0.
FindMatchingMachineFromInternalDNS(machines, nodeName) ==
  SelectInSeq(machines, LAMBDA m : \E i \in DOMAIN m.addresses :
    m.addresses[i] = [type |-> "InternalDNS", address |-> nodeName])

\* Mutant: any linked machine will do.
FindAnyLinkedMachine(machines, nodeName) ==
  SelectInSeq(machines, LAMBDA m : m.nodeRef # NoNode)

FindMatchingMachineFromNodeRef(machines, nodeName) ==
  SelectInSeq(machines, LAMBDA m : m.nodeRef # NoNode /\ m.nodeRef = nodeName)

\* nodeGet is the outcome of the uncached Get of the Node: "found", "notfound"
\* or "error"; created is the creation time of the CSR.
authorizeNodeClientCSR(req, created, machines, nodeGet) ==
  LET nodeName == req.cn[2]
      i == FindMatchingMachineFromInternalDNS(machines, nodeName)
  IN  IF ~isReqFromNodeBootstrapper(req) \/ nodeName = "" THEN "decline"
      ELSE IF nodeGet = "error" THEN "retry"
      ELSE IF nodeGet = "found" THEN "decline"
      ELSE IF i = 0 THEN "retry"
      ELSE IF /\ machines[i].nodeRef = NoNode
              /\ inTimeSpan(machines[i].created - maxMachineClockSkew,
                            machines[i].created + maxMachineDelta, created)
           THEN "approve"
           ELSE "decline"

-----------------------------------------------------------------------------
\* Serving certificate requests.

validationUsageSetLegacy == {"digital signature", "key encipherment", "server auth"}
validationUsageSet == {"digital signature", "server auth"}

\* The node that asks, or "" when this is not a request for a node's serving
\* certificate or its contents are wrong (both are declined by the caller).
validateCSRContents(req) ==
  IF /\ HasNodePrefix(req.username)
     /\ Cardinality(req.groups) >= 2
     /\ {nodeGroup, "system:authenticated"} \subseteq req.groups
     /\ Cardinality(req.usages) \in
          {Cardinality(validationUsageSetLegacy), Cardinality(validationUsageSet)}
     /\ \/ validationUsageSet \subseteq req.usages
        \/ validationUsageSetLegacy \subseteq req.usages
     /\ req.cn = req.username
     /\ \E i \in DOMAIN req.orgs : req.orgs[i] = nodeGroup
  THEN req.username[2]
  ELSE ""

Texts(ips) == [i \in DOMAIN ips |-> IPText[ips[i]]]

\* Mutant: names may be added.
equalStringsSubset(a, b) == ToSet(a) \subseteq ToSet(b)

\* Both sides are sorted and compared, so the order is irrelevant and the
\* multiplicity is not.
equalStrings(a, b) == ToBag(a) = ToBag(b)
equalURLs(a, b) == ToBag(a) = ToBag(b)
equalIPAddresses(a, b) == ToBag(Texts(a)) = ToBag(Texts(b))

\* The names of a request or of a certificate, as the log prints them.
SANs(x) == x.dns \o x.emails \o Texts(x.ips) \o x.uris

\* x509 verification against a pool: signed by one of its roots and not expired.
CertVerifies(cert, ca) == cert.issuer \in ca /\ ~cert.expired

verifyCertificateCommonName(nodeName, req, cert, ca) ==
  /\ ca # {}
  /\ CertVerifies(cert, ca)
  /\ cert.cn = <<nodeUserPrefix, nodeName>>
  /\ cert.cn = req.cn

authorizeServingRenewal(nodeName, req, cert, ca) ==
  /\ verifyCertificateCommonName(nodeName, req, cert, ca)
  /\ equalStrings(cert.dns, req.dns)
  /\ equalStrings(cert.emails, req.emails)
  /\ equalIPAddresses(cert.ips, req.ips)
  /\ equalURLs(cert.uris, req.uris)

ipInSet(cidrs, texts, ip) ==
  IPText[ip] \in texts \/ \E i \in DOMAIN cidrs : IPText[ip] \in CIDRTexts[cidrs[i]]

subsetIPAddresses(cidrs, super, sub) ==
  \A i \in DOMAIN sub : ipInSet(cidrs, super, sub[i])

\* hostSubnet.found is FALSE when the uncached Get fails for any reason.  An
\* egress IP is given by the text it parses to.
authorizeServingRenewalWithEgressIPs(nodeName, req, cert, ca, hostSubnet) ==
  /\ verifyCertificateCommonName(nodeName, req, cert, ca)
  /\ equalStrings(cert.dns, req.dns)
  /\ equalStrings(cert.emails, req.emails)
  /\ equalURLs(cert.uris, req.uris)
  /\ hostSubnet.found
  /\ \A i \in DOMAIN hostSubnet.egressCIDRs :
       hostSubnet.egressCIDRs[i] \in DOMAIN CIDRTexts
  /\ subsetIPAddresses(hostSubnet.egressCIDRs,
                       ToSet(Texts(cert.ips)) \cup ToSet(hostSubnet.egressIPs), req.ips)

\* Mutant: host names are not DNS names.
DNSTypesWithoutHostname == {"InternalDNS", "ExternalDNS"}

DNSTypes == {"InternalDNS", "ExternalDNS", "Hostname"}
IPTypes == {"InternalIP", "ExternalIP"}

authorizeServingCertWithMachine(machines, nodeAsking, req) ==
  LET i == FindMatchingMachineFromNodeRef(machines, nodeAsking)
      addresses == IF i = 0 THEN {} ELSE ToSet(machines[i].addresses)
  IN  /\ i # 0
      /\ \A san \in ToSet(req.dns) \ {""} : \E a \in addresses :
           a.type \in DNSTypes /\ Fold[a.address] = Fold[san]
      /\ \A san \in ToSet(req.ips) : \E a \in addresses :
           a.type \in IPTypes /\ a.address = IPText[san]

\* The first internal IP the node advertises, or "".
nodeInternalIP(node) ==
  LET i == SelectInSeq(node.addresses, LAMBDA a : a.type = "InternalIP")
  IN  IF i = 0 THEN "" ELSE node.addresses[i].address

\* Sequences of at most one certificate stand for the pointer the code returns.
\* listening[host] is what the TLS server at that address presents, if anything;
\* the handshake verifies it against the pool and against the dialled address.
getServingCert(nodeGet, node, listening, ca) ==
  LET host == nodeInternalIP(node)
  IN  IF /\ ca # {} /\ nodeGet = "found" /\ host # ""
         /\ listening[host] # <<>>
         /\ CertVerifies(listening[host][1], ca)
         /\ host \in ToSet(Texts(listening[host][1].ips))
      THEN listening[host]
      ELSE <<>>

\* network is the outcome of the Get of the cluster Network: its type or "error".
needsEgressCheck(network) == network = "OpenShiftSDN"

\* servingCert is <<>> or <<cert>>.
servingAuthorized(nodeAsking, req, machines, ca, servingCert, network, hostSubnet) ==
  \/ /\ servingCert # <<>>
     /\ authorizeServingRenewal(nodeAsking, req, servingCert[1], ca)
  \/ authorizeServingCertWithMachine(machines, nodeAsking, req)
  \/ /\ needsEgressCheck(network)
     /\ servingCert # <<>>
     /\ authorizeServingRenewalWithEgressIPs(nodeAsking, req, servingCert[1], ca, hostSubnet)

\* Mutant: a serving request is not retried while the node shows no certificate.
authorizeServingCSRNoRetry(req, machines, ca, servingCert, network, hostSubnet) ==
  LET nodeAsking == validateCSRContents(req)
  IN  IF nodeAsking = "" THEN "decline"
      ELSE IF servingAuthorized(nodeAsking, req, machines, ca, servingCert, network, hostSubnet)
           THEN "approve"
           ELSE IF servingCert = <<>> THEN "decline" ELSE "retry"

\* authorizeCSR after the client flow.
authorizeServingCSR(req, machines, ca, servingCert, network, hostSubnet) ==
  LET nodeAsking == validateCSRContents(req)
  IN  IF nodeAsking = "" THEN "decline"
      ELSE IF servingAuthorized(nodeAsking, req, machines, ca, servingCert, network, hostSubnet)
           THEN "approve"
           ELSE "retry"

\* seen collects what the controller read while it decided: nodeGet for a client
\* request; servingCert, network and hostSubnet for a serving one.
authorizeCSR(disabled, machines, req, created, ca, seen) ==
  IF isNodeClientCert(req)
  THEN IF disabled
       THEN "retry"
       ELSE authorizeNodeClientCSR(req, created, machines, seen.nodeGet)
  ELSE authorizeServingCSR(req, machines, ca, seen.servingCert, seen.network, seen.hostSubnet)

-----------------------------------------------------------------------------
\* The CSR object.  obj.by tells who appended the Approved condition ("none",
\* "cma" when it carries this controller's message, "other"), obj.at its last
\* transition time, obj.created the creation timestamp.

isApproved(obj) == obj.by # "none"

isRecentlyApproved(obj, now) ==
  isApproved(obj) /\ inTimeSpan(now - maxApprovedDelta, now + maxMachineClockSkew, obj.at)

isApprovedByCMA(obj) == obj.by = "cma"

\* Mutant: approvals by others go unnoticed.
pendingCertFilterOwnOnly(obj, now) == ~isApproved(obj)

\* Mutant: a CSR that was not handled within the pending window is given up.
pendingCertFilterByAge(obj, now) == ~isApproved(obj) /\ obj.created > now - maxPendingDelta

pendingCertFilter(obj, now) ==
  ~isApproved(obj) \/ (isRecentlyApproved(obj, now) /\ ~isApprovedByCMA(obj))

\* csrs maps the names of the listed CSRs to their objects, spec to their requests.
recentlyPendingNodeCSRs(csrs, spec, now) ==
  Cardinality({c \in DOMAIN csrs :
    /\ inTimeSpan(now - maxPendingDelta, now + maxMachineClockSkew, csrs[c].created)
    /\ isReqFromNodeBootstrapper(spec[c]) \/ isRequestFromNodeUser(spec[c])
    /\ ~isApproved(csrs[c])})

\* Mutant: the allowance is subtracted.
getMaxPendingMinus(machineCount, nodeCount) ==
  Max({machineCount, nodeCount}) - maxDiffBetweenPendingCSRsAndMachinesCount

getMaxPending(machineCount, nodeCount) ==
  Max({machineCount, nodeCount}) + maxDiffBetweenPendingCSRsAndMachinesCount
=============================================================================
