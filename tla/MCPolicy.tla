------------------------------ MODULE MCPolicy ------------------------------
(***************************************************************************)
(* Requests of node n1 and the cluster facts that speak for or against     *)
(* them.  N1 is n1 in other letters; ip1 and ip1v6 are the 4- and the      *)
(* 16-byte form of one address; egress stands for an egress IP.            *)
(***************************************************************************)
EXTENDS Policy

MCIPText == [ip \in {"ip1", "ip1v6", "ip2", "egress"} |->
               CASE ip \in {"ip1", "ip1v6"} -> "10.0.0.1"
                 [] ip = "ip2" -> "10.0.0.2"
                 [] OTHER -> "10.0.9.9"]
MCFold == [n \in {"n1", "N1", "n2", ""} |-> IF n = "N1" THEN "n1" ELSE n]
MCCIDRTexts == [c \in {"10.0.9.0/24"} |-> {"10.0.9.9"}]

n1 == <<nodeUserPrefix, "n1">>

Serving(dns, ips) ==
  [username |-> n1, groups |-> {nodeGroup, "system:authenticated"},
   usages |-> validationUsageSet, parses |-> TRUE, cn |-> n1, orgs |-> <<"extra", nodeGroup>>,
   dns |-> dns, emails |-> <<>>, ips |-> ips, uris |-> <<>>]

Bootstrap ==
  [username |-> nodeBootstrapperUsername, groups |-> nodeBootstrapperGroups,
   usages |-> kubeletClientUsages, parses |-> TRUE, cn |-> n1, orgs |-> <<nodeGroup>>,
   dns |-> <<>>, emails |-> <<>>, ips |-> <<>>, uris |-> <<>>]

SANRequests ==
  {Serving(d, i) : d \in {<<"n1">>, <<"N1">>, <<"n1", "">>, <<"n1", "n2">>},
                   i \in {<<>>, <<"ip1">>, <<"ip1v6">>, <<"ip1", "ip2">>, <<"egress", "ip1">>}}

Plain == Serving(<<"n1">>, <<"ip1">>)

\* One field at a time off the plain request.
OddRequests ==
  {[Plain EXCEPT !.usages = validationUsageSetLegacy],
   [Plain EXCEPT !.usages = validationUsageSet \cup {"client auth"}],
   [Plain EXCEPT !.usages = {"digital signature", "key encipherment"}],
   [Plain EXCEPT !.groups = {nodeGroup}],
   [Plain EXCEPT !.cn = <<nodeUserPrefix, "n2">>],
   [Plain EXCEPT !.orgs = <<"extra">>],
   [Plain EXCEPT !.emails = <<"ops">>],
   [Plain EXCEPT !.uris = <<"spiffe">>],
   [Plain EXCEPT !.username = <<nodeUserPrefix, "">>, !.cn = <<nodeUserPrefix, "">>],
   [Plain EXCEPT !.username = <<"", "someone">>]}

ClientRequests ==
  {Bootstrap,
   [Bootstrap EXCEPT !.usages = kubeletClientUsagesLegacy],
   [Bootstrap EXCEPT !.username = n1, !.groups = {nodeGroup, "system:authenticated"}],
   [Bootstrap EXCEPT !.groups = nodeBootstrapperGroups \cup {"extra"}],
   [Bootstrap EXCEPT !.cn = <<nodeUserPrefix, "">>]}

MCRequests == SANRequests \cup OddRequests \cup ClientRequests

M(ref, created, addresses) == [nodeRef |-> ref, created |-> created, addresses |-> addresses]
Addr(type, address) == [type |-> type, address |-> address]
Own == <<Addr("InternalDNS", "n1"), Addr("InternalIP", "10.0.0.1")>>
Foreign == <<Addr("InternalDNS", "n2"), Addr("InternalIP", "10.0.0.2")>>

MCMachines == {M("n1", 0, Own), M("n2", 0, Foreign), M("n1", 0, Foreign),
               M(NoNode, 0, Own), M(NoNode, -maxMachineDelta, Own)}
MCMachineLists ==
  {<<>>} \cup {<<m>> : m \in MCMachines}
  \cup {<<M("n2", 0, Foreign), M("n1", 0, Own)>>, <<M("n2", 0, Foreign), M(NoNode, 0, Own)>>,
        <<M("n1", 0, Foreign), M("n1", 0, Own)>>}

Crt(cn, dns, ips, issuer, expired) ==
  [cn |-> cn, dns |-> dns, emails |-> <<>>, ips |-> ips, uris |-> <<>>,
   issuer |-> issuer, expired |-> expired]
MCCerts ==
  {Crt(n1, <<"n1">>, <<"ip1">>, "root", FALSE),
   Crt(n1, <<"n2", "n1">>, <<"ip2", "ip1">>, "root", FALSE),
   Crt(n1, <<"n1">>, <<"ip1">>, "old", FALSE),
   Crt(n1, <<"n1">>, <<"ip1v6">>, "root", TRUE),
   Crt(<<nodeUserPrefix, "n2">>, <<"n1">>, <<"ip1">>, "root", FALSE)}
MCListeners == {<<>>} \cup {<<c>> : c \in MCCerts}
MCPools == {{}, {"root"}}
N(get, addresses) == [get |-> get, addresses |-> addresses]
MCNodes == {N("found", <<Addr("Hostname", "n1"), Addr("InternalIP", "10.0.0.1")>>),
            N("found", <<Addr("Hostname", "n1")>>), N("notfound", <<>>), N("error", <<>>)}
Subnet(found, ips, cidrs) == [found |-> found, egressIPs |-> ips, egressCIDRs |-> cidrs]
NoSubnet == Subnet(FALSE, <<>>, <<>>)
MCNetworks ==
  {[type |-> "OpenShiftSDN", subnet |-> s] : s \in
     {NoSubnet, Subnet(TRUE, <<"10.0.9.9">>, <<>>), Subnet(TRUE, <<>>, <<"10.0.9.0/24">>),
      Subnet(TRUE, <<"10.0.9.9">>, <<"10.0.9">>)}}
  \cup {[type |-> t, subnet |-> Subnet(TRUE, <<"10.0.9.9">>, <<>>)] : t \in {"OVNKubernetes", "error"}}
=============================================================================
