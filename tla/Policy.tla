------------------------------- MODULE Policy -------------------------------
(***************************************************************************)
(* One request before authorizeCSR while the cluster around it changes:    *)
(* machines appear, are linked and relisted, nodes come and go, kubelets   *)
(* change certificates, the CA is rotated, the network is reconfigured.    *)
(* The state is all that authorizeCSR reads, so the reachable states are   *)
(* its inputs, and a step relates its answers before and after one change. *)
(***************************************************************************)
EXTENDS CSRCheck

CONSTANTS
  Requests,        \* requests that may be made (their creation time is 0)
  MachineLists,    \* what the machine lists may return
  Pools,           \* CA pools
  Listeners,       \* what may listen at the node's address: <<>> or <<cert>>
  Nodes,           \* outcomes of the Get of the Node: [get, addresses]
  Networks,        \* outcomes of the reads of Network and HostSubnet: [type, subnet]
  HostText         \* the one address that is dialled

IsSequence(s) == s \in Seq(ToSet(s))
HasNames(x) == IsSequence(x.dns) /\ IsSequence(x.emails) /\ IsSequence(x.ips) /\ IsSequence(x.uris)

\* The names of requests and certificates are lists, and so are machines.
ASSUME NamesAssumption ==
  /\ \A q \in Requests : HasNames(q)
  /\ \A l \in Listeners : l # <<>> => HasNames(l[1])
  /\ \A l \in MachineLists : IsSequence(l)

\* No other address is dialled.
ASSUME HostAssumption == \A n \in Nodes : nodeInternalIP(n) \in {"", HostText}

\* A nil NodeRef is not the name of a node.
ASSUME NoNodeAssumption == \A q \in Requests : q.username[2] # NoNode

VARIABLES req, machines, ca, node, listener, network

vars == <<req, machines, ca, node, listener, network>>

Init ==
  /\ req \in Requests
  /\ machines = <<>> /\ ca = {} /\ node \in Nodes
  /\ listener = <<>> /\ network \in Networks

ChangeMachines ==
  /\ machines' \in MachineLists
  /\ UNCHANGED <<req, ca, node, listener, network>>

ChangeCA ==
  /\ ca' \in Pools
  /\ UNCHANGED <<req, machines, node, listener, network>>

ChangeNode ==
  /\ node' \in Nodes
  /\ UNCHANGED <<req, machines, ca, listener, network>>

ChangeListener ==
  /\ listener' \in Listeners
  /\ UNCHANGED <<req, machines, ca, node, network>>

ChangeNetwork ==
  /\ network' \in Networks
  /\ UNCHANGED <<req, machines, ca, node, listener>>

Next == ChangeMachines \/ ChangeCA \/ ChangeNode \/ ChangeListener \/ ChangeNetwork

PolicySpec == Init /\ [][Next]_vars

-----------------------------------------------------------------------------
servingCert == getServingCert(node.get, node, [h \in {HostText} |-> listener], ca)

VerdictWith(list) ==
  authorizeCSR(FALSE, list, req, 0, ca,
    [nodeGet |-> node.get, servingCert |-> servingCert,
     network |-> network.type, hostSubnet |-> network.subnet])

verdict == VerdictWith(machines)

Client == isNodeClientCert(req)
Asking == validateCSRContents(req)

\* The names a certificate, a machine or the egress configuration stands for.
CertNames == IF servingCert = <<>> THEN {} ELSE ToSet(servingCert[1].dns)
CertTexts == IF servingCert = <<>> THEN {} ELSE ToSet(Texts(servingCert[1].ips))
EgressTexts ==
  ToSet(network.subnet.egressIPs) \cup
    UNION {CIDRTexts[c] : c \in ToSet(network.subnet.egressCIDRs) \cap DOMAIN CIDRTexts}
LinkedTo(m) == m.nodeRef = Asking
DNSOf(m) == {Fold[a.address] : a \in {x \in ToSet(m.addresses) : x.type \in DNSTypes}}
IPsOf(m) == {a.address : a \in {x \in ToSet(m.addresses) : x.type \in IPTypes}}

\* Every DNS name and IP address a serving certificate is approved for belongs
\* to the node that asked: all of them to one machine linked to it, or all of
\* them to the certificate its kubelet presents now, with egress addresses added
\* only on the network that has them.
ServingNamesVouched ==
  verdict = "approve" /\ ~Client =>
    \/ \E m \in ToSet(machines) : /\ LinkedTo(m)
         /\ \A n \in ToSet(req.dns) \ {""} : Fold[n] \in DNSOf(m)
         /\ \A t \in ToSet(Texts(req.ips)) : t \in IPsOf(m)
    \/ /\ servingCert # <<>> /\ servingCert[1].cn = <<nodeUserPrefix, Asking>>
       /\ ToSet(req.dns) = CertNames
       /\ \/ ToBag(SANs(req)) = ToBag(SANs(servingCert[1]))
          \/ network.type = "OpenShiftSDN" /\ ToSet(Texts(req.ips)) \subseteq CertTexts \cup EgressTexts

\* The order in which machines are listed does not matter as long as no two of
\* them claim the node (the lookups return the first match of the list).
Claims(m) ==
  \/ LinkedTo(m)
  \/ [type |-> "InternalDNS", address |-> req.cn[2]] \in ToSet(m.addresses)
ListOrderIrrelevant ==
  (\A i, j \in DOMAIN machines : Claims(machines[i]) /\ Claims(machines[j]) => i = j) =>
    VerdictWith(Reverse(machines)) = verdict

\* A serving request that the code keeps retrying is not beyond hope: a machine
\* linked to the node with the requested names makes it approved, whatever else
\* is wrong (an unreadable network, a foreign certificate, no CA).
Ideal ==
  [nodeRef |-> Asking, created |-> 0, addresses |->
     [i \in DOMAIN req.dns |-> [type |-> "Hostname", address |-> req.dns[i]]] \o
     [i \in DOMAIN req.ips |-> [type |-> "InternalIP", address |-> IPText[req.ips[i]]]]]
RetryCanSucceed == verdict = "retry" /\ ~Client => VerdictWith(<<Ideal>>) = "approve"

\* A declined request is never looked at again by itself.  For a request that is
\* not for a client certificate nothing in the cluster enters that decision, so
\* nothing that changes later could have saved it ("Unrecoverable serving cert
\* error, cannot approve").
DeclineFinal == [][~Client => (verdict = "decline") = (verdict' = "decline")]_vars
=============================================================================
