---------------------------- MODULE PolicyProofs ----------------------------
(***************************************************************************)
(* The properties of the approval policy for every request, list of        *)
(* machines, certificate, CA pool, node and network, and not only those of *)
(* the runs.                                                               *)
(***************************************************************************)
EXTENDS Policy, FiniteSetTheorems, SequenceTheorems, WellFoundedInduction, TLAPS

-----------------------------------------------------------------------------
\* Lists

LEMMA Least == ASSUME NEW I \in SUBSET Nat, I # {} PROVE Min(I) \in I
  <1>1. \E x \in I : \A y \in I : ~(<<y, x>> \in OpToRel(<, Nat))
    BY NatLessThanWellFounded, WFMin, Zenon
  <1>2. ASSUME NEW x \in Nat, NEW y \in Nat, y < x PROVE <<y, x>> \in OpToRel(<, Nat)
    <2>1. OpToRel(<, Nat) = {ss \in Nat \X Nat : ss[1] < ss[2]}
      BY Zenon DEF OpToRel
    <2>2. <<y, x>> \in {ss \in Nat \X Nat : ss[1] < ss[2]}
      BY <1>2
    <2> QED
      BY <2>1, <2>2, Zenon
  <1>3. \A x, y \in Nat : ~(y < x) => x =< y
    OBVIOUS
  <1>4. \E x \in I : \A y \in I : x =< y
    BY <1>1, <1>2, <1>3, Zenon
  <1> QED
    BY <1>4, Zenon DEF Min

LEMMA SequenceLen ==
  ASSUME NEW s, IsSequence(s)
  PROVE  Len(s) \in Nat /\ DOMAIN s = 1..Len(s)
  BY LenProperties DEF IsSequence

\* How often x is in s.
Places(s, x) == {i \in DOMAIN s : s[i] = x}
Count(s, x) == Cardinality(Places(s, x))

LEMMA PlacesFinite ==
  ASSUME NEW s, IsSequence(s), NEW x
  PROVE  /\ IsFiniteSet(Places(s, x)) /\ Count(s, x) \in Nat
         /\ Count(s, x) = 0 <=> x \notin Range(s)
  <1>1. Places(s, x) \in SUBSET (1..Len(s)) /\ IsFiniteSet(1..Len(s))
    <2>1. Len(s) \in Nat /\ DOMAIN s = 1..Len(s)
      BY SequenceLen
    <2>2. IsFiniteSet(1..Len(s))
      BY <2>1, FS_Interval
    <2> QED
      BY <2>1, <2>2 DEF Places
  <1>2. IsFiniteSet(Places(s, x))
    BY <1>1, FS_Subset
  <1>3. Count(s, x) \in Nat /\ (Count(s, x) = 0 <=> Places(s, x) = {})
    BY <1>2, FS_CardinalityType, FS_EmptySet DEF Count
  <1> QED
    BY <1>2, <1>3 DEF Places, Range

\* Two lists are the same bag when each value is as often in the one as in the other.
LEMMA SameBag ==
  ASSUME NEW s, IsSequence(s), NEW t, IsSequence(t)
  PROVE  ToBag(s) = ToBag(t) <=> \A x : Count(s, x) = Count(t, x)
  <1>1. /\ ToBag(s) = [x \in Range(s) |-> Count(s, x)]
        /\ ToBag(t) = [x \in Range(t) |-> Count(t, x)]
    BY Zenon DEF ToBag, Count, Places
  <1>2. ASSUME ToBag(s) = ToBag(t), NEW x PROVE Count(s, x) = Count(t, x)
    <2>1. Range(s) = Range(t)
      BY <1>1, <1>2, Zenon
    <2>2. CASE x \in Range(s)
      BY <1>1, <1>2, <2>1, <2>2, Zenon
    <2>3. CASE x \notin Range(s)
      BY <2>1, <2>3, PlacesFinite, Zenon
    <2> QED
      BY <2>2, <2>3
  <1>3. ASSUME \A x : Count(s, x) = Count(t, x) PROVE ToBag(s) = ToBag(t)
    <2>1. Range(s) = Range(t)
      <3>1. \A x : x \in Range(s) <=> x \in Range(t)
        BY <1>3, PlacesFinite, Zenon
      <3> QED
        BY <3>1, Zenon
    <2> QED
      BY <1>1, <1>3, <2>1, Zenon
  <1> QED
    BY <1>2, <1>3, Zenon

LEMMA ConcatIsSequence ==
  ASSUME NEW s, IsSequence(s), NEW t, IsSequence(t)
  PROVE  /\ IsSequence(s \o t) /\ Len(s \o t) = Len(s) + Len(t)
         /\ \A i \in 1..Len(s) + Len(t) :
              (s \o t)[i] = IF i <= Len(s) THEN s[i] ELSE t[i - Len(s)]
  <1> DEFINE S == ToSet(s) \cup ToSet(t)
  <1>1. s \in Seq(S) /\ t \in Seq(S)
    BY SeqMonotonic DEF IsSequence
  <1>2. /\ s \o t \in Seq(S) /\ Len(s \o t) = Len(s) + Len(t)
        /\ \A i \in 1..Len(s) + Len(t) :
             (s \o t)[i] = IF i <= Len(s) THEN s[i] ELSE t[i - Len(s)]
    BY <1>1, ConcatProperties
  <1>3. ASSUME NEW u \in Seq(S) PROVE IsSequence(u)
    <2>1. Len(u) \in Nat /\ DOMAIN u = 1..Len(u) /\ u \in [1..Len(u) -> S]
      BY LenProperties
    <2>2. u \in [1..Len(u) -> ToSet(u)]
      BY <2>1 DEF ToSet
    <2> QED
      BY <2>1, <2>2 DEF IsSequence
  <1> QED
    BY <1>2, <1>3, Zenon

LEMMA CountConcat ==
  ASSUME NEW s, IsSequence(s), NEW t, IsSequence(t), NEW x
  PROVE  Count(s \o t, x) = Count(s, x) + Count(t, x)
  <1> DEFINE n == Len(s)
             moved == {i + n : i \in Places(t, x)}
             f == [i \in Places(t, x) |-> i + n]
  <1>1. /\ Len(s) \in Nat /\ DOMAIN s = 1..Len(s)
        /\ Len(t) \in Nat /\ DOMAIN t = 1..Len(t)
    BY SequenceLen
  <1>2. DOMAIN (s \o t) = 1..Len(s) + Len(t)
    BY ConcatIsSequence, SequenceLen
  <1>3. \A i \in 1..Len(s) + Len(t) :
          (s \o t)[i] = IF i <= Len(s) THEN s[i] ELSE t[i - Len(s)]
    BY ConcatIsSequence
  <1>4. Places(s, x) \subseteq 1..n /\ Places(t, x) \subseteq 1..Len(t)
    BY <1>1 DEF Places
  <1>5. Places(s \o t, x) = Places(s, x) \cup moved
    <2>1. ASSUME NEW i \in Places(s \o t, x) PROVE i \in Places(s, x) \cup moved
      <3>1. i \in 1..Len(s) + Len(t) /\ (s \o t)[i] = x
        BY <1>2 DEF Places
      <3>2. CASE i <= n
        BY <1>1, <1>3, <3>1, <3>2 DEF Places
      <3>3. CASE ~(i <= n)
        <4>1. i - n \in 1..Len(t) /\ t[i - n] = x /\ (i - n) + n = i
          BY <1>1, <1>3, <3>1, <3>3
        <4>2. i - n \in Places(t, x)
          BY <1>1, <4>1 DEF Places
        <4> QED
          BY <4>1, <4>2
      <3> QED
        BY <3>2, <3>3
    <2>2. ASSUME NEW i \in Places(s, x) PROVE i \in Places(s \o t, x)
      <3>1. i \in 1..n /\ s[i] = x
        BY <1>1 DEF Places
      <3>2. i \in 1..Len(s) + Len(t) /\ i <= Len(s)
        BY <1>1, <3>1
      <3> QED
        BY <1>2, <1>3, <3>1, <3>2 DEF Places
    <2>3. ASSUME NEW i \in Places(t, x) PROVE i + n \in Places(s \o t, x)
      <3>1. i \in 1..Len(t) /\ t[i] = x
        BY <1>1 DEF Places
      <3>2. i + n \in 1..Len(s) + Len(t) /\ ~(i + n <= Len(s)) /\ (i + n) - Len(s) = i
        BY <1>1, <3>1
      <3> QED
        BY <1>2, <1>3, <3>1, <3>2 DEF Places
    <2> QED
      BY <2>1, <2>2, <2>3
  <1>6. Places(s, x) \cap moved = {}
    BY <1>1, <1>4
  <1>7. f \in Bijection(Places(t, x), moved)
    <2>1. f \in [Places(t, x) -> moved]
      OBVIOUS
    <2>2. \A i, j \in Places(t, x) : f[i] = f[j] => i = j
      BY <1>1, <1>4
    <2>3. \A y \in moved : \E i \in Places(t, x) : f[i] = y
      OBVIOUS
    <2> QED
      BY <2>1, <2>2, <2>3 DEF Bijection, Injection, Surjection, IsInjective
  <1>8. IsFiniteSet(Places(s, x)) /\ IsFiniteSet(Places(t, x))
    BY PlacesFinite
  <1>9. IsFiniteSet(moved) /\ Cardinality(moved) = Count(t, x)
    BY <1>7, <1>8, FS_Bijection DEF ExistsBijection, Count
  <1>10. Cardinality(Places(s, x) \cup moved)
           = Cardinality(Places(s, x)) + Cardinality(moved) - Cardinality({})
    BY <1>6, <1>8, <1>9, FS_Union
  <1> HIDE DEF moved
  <1> QED
    BY <1>5, <1>9, <1>10, FS_EmptySet, PlacesFinite DEF Count

LEMMA BagConcat ==
  ASSUME NEW s, IsSequence(s), NEW t, IsSequence(t), NEW u, IsSequence(u), NEW v, IsSequence(v),
         ToBag(s) = ToBag(u), ToBag(t) = ToBag(v)
  PROVE  ToBag(s \o t) = ToBag(u \o v)
  <1>1. \A x : Count(s, x) = Count(u, x)
    BY SameBag
  <1>2. \A x : Count(t, x) = Count(v, x)
    BY SameBag
  <1>3. \A x : /\ Count(s \o t, x) = Count(s, x) + Count(t, x)
              /\ Count(u \o v, x) = Count(u, x) + Count(v, x)
    BY CountConcat
  <1>4. \A x : Count(s \o t, x) = Count(u \o v, x)
    BY <1>1, <1>2, <1>3
  <1>5. IsSequence(s \o t) /\ IsSequence(u \o v)
    BY ConcatIsSequence
  <1> QED
    BY <1>4, <1>5, SameBag

LEMMA TextsIsSequence ==
  ASSUME NEW ips, IsSequence(ips)
  PROVE  IsSequence(Texts(ips))
  <1>1. Len(ips) \in Nat /\ DOMAIN ips = 1..Len(ips)
    BY SequenceLen
  <1>2. Texts(ips) = [i \in 1..Len(ips) |-> IPText[ips[i]]]
    BY <1>1, Zenon DEF Texts
  <1>3. Texts(ips) \in [1..Len(ips) -> ToSet(Texts(ips))]
    BY <1>2 DEF ToSet
  <1> QED
    BY <1>1, <1>3 DEF IsSequence

LEMMA SameBagSameSet ==
  ASSUME NEW s, NEW t, ToBag(s) = ToBag(t)
  PROVE  ToSet(s) = ToSet(t)
  <1>1. DOMAIN ToBag(s) = ToSet(s) /\ DOMAIN ToBag(t) = ToSet(t)
    BY Zenon DEF ToBag, ToSet, Range
  <1> QED
    BY <1>1, Zenon

\* All names agree when each kind of names does.
LEMMA SameSANs ==
  ASSUME NEW x, HasNames(x), NEW y, HasNames(y),
         ToBag(x.dns) = ToBag(y.dns), ToBag(x.emails) = ToBag(y.emails),
         ToBag(Texts(x.ips)) = ToBag(Texts(y.ips)), ToBag(x.uris) = ToBag(y.uris)
  PROVE  ToBag(SANs(x)) = ToBag(SANs(y))
  <1>1. /\ IsSequence(x.dns) /\ IsSequence(x.emails) /\ IsSequence(Texts(x.ips)) /\ IsSequence(x.uris)
        /\ IsSequence(y.dns) /\ IsSequence(y.emails) /\ IsSequence(Texts(y.ips)) /\ IsSequence(y.uris)
    BY TextsIsSequence, Zenon DEF HasNames
  <1>2. IsSequence(x.dns \o x.emails) /\ IsSequence(y.dns \o y.emails)
    BY <1>1, ConcatIsSequence
  <1>3. ToBag(x.dns \o x.emails) = ToBag(y.dns \o y.emails)
    BY <1>1, BagConcat
  <1>4. /\ IsSequence(x.dns \o x.emails \o Texts(x.ips))
        /\ IsSequence(y.dns \o y.emails \o Texts(y.ips))
    BY <1>1, <1>2, ConcatIsSequence
  <1>5. ToBag(x.dns \o x.emails \o Texts(x.ips)) = ToBag(y.dns \o y.emails \o Texts(y.ips))
    BY <1>1, <1>2, <1>3, BagConcat
  <1> QED
    BY <1>1, <1>4, <1>5, BagConcat DEF SANs

-----------------------------------------------------------------------------
\* The inputs of the policy

Inputs ==
  /\ req \in Requests
  /\ machines \in MachineLists \cup {<<>>}
  /\ node \in Nodes
  /\ listener \in Listeners \cup {<<>>}

LEMMA InputsInvariant == PolicySpec => []Inputs
  <1>1. Init => Inputs
    BY Zenon DEF Init, Inputs
  <1>2. Inputs /\ [Next]_vars => Inputs'
    BY Zenon DEF Inputs, Next, vars, ChangeMachines, ChangeCA, ChangeNode, ChangeListener, ChangeNetwork
  <1> QED
    BY <1>1, <1>2, PTL DEF PolicySpec

LEMMA InputLists ==
  ASSUME Inputs
  PROVE  /\ HasNames(req) /\ IsSequence(machines)
         /\ servingCert # <<>> => HasNames(servingCert[1])
  <1>1. HasNames(req)
    BY NamesAssumption, Zenon DEF Inputs
  <1>2. IsSequence(<<>>)
    BY EmptySeq, Zenon DEF IsSequence
  <1>3. IsSequence(machines)
    BY <1>2, NamesAssumption, Zenon DEF Inputs
  <1>4. ASSUME servingCert # <<>> PROVE HasNames(servingCert[1])
    <2> DEFINE listening == [h \in {HostText} |-> listener]
    <2>1. servingCert = listening[nodeInternalIP(node)] /\ nodeInternalIP(node) # ""
      BY <1>4, Zenon DEF servingCert, getServingCert
    <2>2. nodeInternalIP(node) = HostText
      BY <2>1, HostAssumption, Zenon DEF Inputs
    <2>3. servingCert = listener
      BY <2>1, <2>2, Zenon
    <2> QED
      BY <1>4, <2>3, NamesAssumption, Zenon DEF Inputs
  <1> QED
    BY <1>1, <1>3, <1>4

-----------------------------------------------------------------------------
\* Verdicts on requests that are not for client certificates

LEMMA ServingVerdict ==
  ASSUME NEW list, ~Client
  PROVE  VerdictWith(list) =
           IF Asking = "" THEN "decline"
           ELSE IF servingAuthorized(Asking, req, list, ca, servingCert, network.type, network.subnet)
                THEN "approve" ELSE "retry"
  BY Zenon DEF VerdictWith, Client, Asking, authorizeCSR, authorizeServingCSR

\* What is declined is the request itself, so no change in the cluster makes up
\* for it or is to blame for it (authorizeCSR, "Unrecoverable serving cert error").
THEOREM DeclinesFinal == PolicySpec => DeclineFinal
  <1>1. ASSUME ~Client PROVE (verdict = "decline") = (Asking = "")
    BY <1>1, ServingVerdict DEF verdict
  <1>2. ASSUME [Next]_vars, ~Client
        PROVE  (verdict = "decline") = (verdict' = "decline")
    <2>1. req' = req
      BY <1>2, Zenon DEF Next, vars, ChangeMachines, ChangeCA, ChangeNode, ChangeListener, ChangeNetwork
    <2>2. ~Client' /\ Asking' = Asking
      BY <1>2, <2>1, Zenon DEF Client, Asking
    <2>3. (~Client => (verdict = "decline") = (Asking = ""))'
      BY <1>1, PTL
    <2> QED
      BY <1>1, <1>2, <2>2, <2>3
  <1> QED
    BY <1>2, PTL DEF PolicySpec, DeclineFinal

-----------------------------------------------------------------------------
\* The lookups of the machine handler

\* What the two lookups look for.
RefersTo(m, name) == m.nodeRef # NoNode /\ m.nodeRef = name
HasInternalDNS(m, name) ==
  \E i \in DOMAIN m.addresses : m.addresses[i] = [type |-> "InternalDNS", address |-> name]

\* f is one of the indices P of the list, or 0 when there is none.
FirstOf(f, list, P) ==
  \/ f = 0 /\ P = {}
  \/ f \in 1..Len(list) /\ f \in P

LEMMA FirstByNodeRef ==
  ASSUME NEW list, IsSequence(list), NEW name
  PROVE  FirstOf(FindMatchingMachineFromNodeRef(list, name), list,
                 {i \in 1..Len(list) : RefersTo(list[i], name)})
  <1> DEFINE I == {i \in 1..Len(list) : RefersTo(list[i], name)}
  <1>1. FindMatchingMachineFromNodeRef(list, name) = IF I # {} THEN Min(I) ELSE 0
    BY Zenon DEF FindMatchingMachineFromNodeRef, SelectInSeq, RefersTo
  <1>2. I \in SUBSET Nat /\ I \subseteq 1..Len(list)
    BY SequenceLen
  <1>3. I # {} => Min(I) \in I
    BY <1>2, Least, Zenon
  <1> HIDE DEF I
  <1>4. FirstOf(FindMatchingMachineFromNodeRef(list, name), list, I)
    BY <1>1, <1>2, <1>3, Zenon DEF FirstOf
  <1> QED
    BY <1>4, Zenon DEF I

LEMMA FirstByInternalDNS ==
  ASSUME NEW list, IsSequence(list), NEW name
  PROVE  FirstOf(FindMatchingMachineFromInternalDNS(list, name), list,
                 {i \in 1..Len(list) : HasInternalDNS(list[i], name)})
  <1> DEFINE I == {i \in 1..Len(list) : HasInternalDNS(list[i], name)}
  <1>1. FindMatchingMachineFromInternalDNS(list, name) = IF I # {} THEN Min(I) ELSE 0
    BY Zenon DEF FindMatchingMachineFromInternalDNS, SelectInSeq, HasInternalDNS
  <1>2. I \in SUBSET Nat /\ I \subseteq 1..Len(list)
    BY SequenceLen
  <1>3. I # {} => Min(I) \in I
    BY <1>2, Least, Zenon
  <1> HIDE DEF I
  <1>4. FirstOf(FindMatchingMachineFromInternalDNS(list, name), list, I)
    BY <1>1, <1>2, <1>3, Zenon DEF FirstOf
  <1> QED
    BY <1>4, Zenon DEF I

-----------------------------------------------------------------------------
\* Who vouches for the names of an approved serving request

\* By the machine of the node.
LEMMA MachineVouches ==
  ASSUME NEW list, IsSequence(list),
         authorizeServingCertWithMachine(list, Asking, req)
  PROVE  \E m \in ToSet(list) : /\ LinkedTo(m)
           /\ \A n \in ToSet(req.dns) \ {""} : Fold[n] \in DNSOf(m)
           /\ \A t \in ToSet(Texts(req.ips)) : t \in IPsOf(m)
  <1> DEFINE f == FindMatchingMachineFromNodeRef(list, Asking)
             m == list[f]
             addresses == IF f = 0 THEN {} ELSE ToSet(list[f].addresses)
  <1>1. /\ f # 0
        /\ \A san \in ToSet(req.dns) \ {""} : \E a \in addresses :
             a.type \in DNSTypes /\ Fold[a.address] = Fold[san]
        /\ \A san \in ToSet(req.ips) : \E a \in addresses :
             a.type \in IPTypes /\ a.address = IPText[san]
    BY Zenon DEF authorizeServingCertWithMachine
  <1>2. f \in 1..Len(list) /\ RefersTo(m, Asking)
    BY <1>1, FirstByNodeRef, Zenon DEF FirstOf
  <1>3. f \in DOMAIN list
    BY <1>2, SequenceLen, Zenon
  <1> HIDE DEF f
  <1>4. m \in ToSet(list) /\ LinkedTo(m) /\ addresses = ToSet(m.addresses)
    BY <1>1, <1>2, <1>3, Zenon DEF ToSet, RefersTo, LinkedTo
  <1> HIDE DEF m, addresses
  <1>5. ASSUME NEW n \in ToSet(req.dns) \ {""} PROVE Fold[n] \in DNSOf(m)
    <2>1. PICK a \in addresses : a.type \in DNSTypes /\ Fold[a.address] = Fold[n]
      BY <1>1, Zenon
    <2>2. a \in {x \in ToSet(m.addresses) : x.type \in DNSTypes}
      BY <1>4, <2>1, Zenon
    <2> QED
      BY <2>1, <2>2, Zenon DEF DNSOf
  <1>6. ASSUME NEW t \in ToSet(Texts(req.ips)) PROVE t \in IPsOf(m)
    <2>1. PICK i \in DOMAIN Texts(req.ips) : t = Texts(req.ips)[i]
      BY Zenon DEF ToSet
    <2>2. i \in DOMAIN req.ips /\ t = IPText[req.ips[i]]
      BY <2>1, Zenon DEF Texts
    <2>3. req.ips[i] \in ToSet(req.ips)
      BY <2>2, Zenon DEF ToSet
    <2>4. PICK a \in addresses : a.type \in IPTypes /\ a.address = IPText[req.ips[i]]
      BY <1>1, <2>3, Zenon
    <2>5. a \in {x \in ToSet(m.addresses) : x.type \in IPTypes}
      BY <1>4, <2>4, Zenon
    <2> QED
      BY <2>2, <2>4, <2>5, Zenon DEF IPsOf
  <1> QED
    BY <1>4, <1>5, <1>6, Zenon

\* By the certificate the kubelet presents.
LEMMA RenewalVouches ==
  ASSUME Inputs, servingCert # <<>>,
         authorizeServingRenewal(Asking, req, servingCert[1], ca)
  PROVE  /\ servingCert[1].cn = <<nodeUserPrefix, Asking>>
         /\ ToSet(req.dns) = CertNames
         /\ ToBag(SANs(req)) = ToBag(SANs(servingCert[1]))
  <1> DEFINE cert == servingCert[1]
  <1>1. /\ cert.cn = <<nodeUserPrefix, Asking>>
        /\ ToBag(cert.dns) = ToBag(req.dns) /\ ToBag(cert.emails) = ToBag(req.emails)
        /\ ToBag(Texts(cert.ips)) = ToBag(Texts(req.ips)) /\ ToBag(cert.uris) = ToBag(req.uris)
    BY Zenon DEF authorizeServingRenewal, verifyCertificateCommonName, equalStrings,
                 equalIPAddresses, equalURLs
  <1>2. ToSet(req.dns) = ToSet(cert.dns)
    BY <1>1, SameBagSameSet, Zenon
  <1>3. HasNames(req) /\ HasNames(cert)
    BY InputLists, Zenon
  <1>4. ToBag(SANs(req)) = ToBag(SANs(cert))
    BY <1>1, <1>3, SameSANs, Zenon
  <1> QED
    BY <1>1, <1>2, <1>4, Zenon DEF CertNames

\* By that certificate and the egress configuration of the node.
LEMMA EgressVouches ==
  ASSUME servingCert # <<>>, needsEgressCheck(network.type),
         authorizeServingRenewalWithEgressIPs(Asking, req, servingCert[1], ca, network.subnet)
  PROVE  /\ servingCert[1].cn = <<nodeUserPrefix, Asking>>
         /\ ToSet(req.dns) = CertNames
         /\ network.type = "OpenShiftSDN"
         /\ ToSet(Texts(req.ips)) \subseteq CertTexts \cup EgressTexts
  <1> DEFINE cert == servingCert[1]
             cidrs == network.subnet.egressCIDRs
             super == ToSet(Texts(cert.ips)) \cup ToSet(network.subnet.egressIPs)
  <1>1. /\ cert.cn = <<nodeUserPrefix, Asking>> /\ ToBag(cert.dns) = ToBag(req.dns)
        /\ \A i \in DOMAIN cidrs : cidrs[i] \in DOMAIN CIDRTexts
        /\ \A i \in DOMAIN req.ips : ipInSet(cidrs, super, req.ips[i])
    BY Zenon DEF authorizeServingRenewalWithEgressIPs, verifyCertificateCommonName, equalStrings,
                 subsetIPAddresses
  <1>2. ToSet(req.dns) = ToSet(cert.dns)
    BY <1>1, SameBagSameSet, Zenon
  <1>3. ASSUME NEW t \in ToSet(Texts(req.ips)) PROVE t \in CertTexts \cup EgressTexts
    <2>1. PICK i \in DOMAIN Texts(req.ips) : t = Texts(req.ips)[i]
      BY Zenon DEF ToSet
    <2>2. i \in DOMAIN req.ips /\ t = IPText[req.ips[i]]
      BY <2>1, Zenon DEF Texts
    <2>3. t \in super \/ \E j \in DOMAIN cidrs : t \in CIDRTexts[cidrs[j]]
      BY <1>1, <2>2, Zenon DEF ipInSet
    <2>4. CASE t \in super
      BY <2>4, Zenon DEF CertTexts, EgressTexts
    <2>5. CASE \E j \in DOMAIN cidrs : t \in CIDRTexts[cidrs[j]]
      <3>1. PICK j \in DOMAIN cidrs : t \in CIDRTexts[cidrs[j]]
        BY <2>5
      <3>2. cidrs[j] \in ToSet(cidrs) \cap DOMAIN CIDRTexts
        BY <1>1, Zenon DEF ToSet
      <3>3. t \in UNION {CIDRTexts[c] : c \in ToSet(cidrs) \cap DOMAIN CIDRTexts}
        BY <3>1, <3>2, Zenon
      <3> QED
        BY <3>3, Zenon DEF EgressTexts
    <2> QED
      BY <2>3, <2>4, <2>5, Zenon
  <1> QED
    BY <1>1, <1>2, <1>3, Zenon DEF CertNames, needsEgressCheck

\* Every name of an approved serving request is vouched for by the node's
\* machine, or by the certificate its kubelet presents (and the egress
\* configuration), for every cluster (authorizeCSR, csr_check.go).
THEOREM NamesVouched == PolicySpec => []ServingNamesVouched
  <1>1. ASSUME Inputs PROVE ServingNamesVouched
    <2>1. SUFFICES ASSUME verdict = "approve", ~Client PROVE ServingNamesVouched
      BY Zenon DEF ServingNamesVouched
    <2>2. servingAuthorized(Asking, req, machines, ca, servingCert, network.type, network.subnet)
      <3>1. "decline" # "approve" /\ "retry" # "approve"
        OBVIOUS
      <3> QED
        BY <2>1, <3>1, ServingVerdict, Zenon DEF verdict
    <2>3. CASE servingCert # <<>> /\ authorizeServingRenewal(Asking, req, servingCert[1], ca)
      BY <1>1, <2>3, RenewalVouches, Zenon DEF ServingNamesVouched
    <2>4. CASE authorizeServingCertWithMachine(machines, Asking, req)
      BY <1>1, <2>4, InputLists, MachineVouches, Zenon DEF ServingNamesVouched
    <2>5. CASE /\ needsEgressCheck(network.type) /\ servingCert # <<>>
               /\ authorizeServingRenewalWithEgressIPs(Asking, req, servingCert[1], ca, network.subnet)
      BY <2>5, EgressVouches, Zenon DEF ServingNamesVouched
    <2> QED
      BY <2>2, <2>3, <2>4, <2>5, Zenon DEF servingAuthorized
  <1> QED
    BY <1>1, InputsInvariant, PTL

-----------------------------------------------------------------------------
\* The order of the machine list

LEMMA ReverseIsSequence ==
  ASSUME NEW list, IsSequence(list)
  PROVE  /\ IsSequence(Reverse(list)) /\ Len(Reverse(list)) = Len(list)
         /\ \A i \in 1..Len(list) : /\ (Len(list) - i) + 1 \in 1..Len(list)
                                    /\ Reverse(list)[i] = list[(Len(list) - i) + 1]
                                    /\ (Len(list) - ((Len(list) - i) + 1)) + 1 = i
  <1> DEFINE n == Len(list)
             r == Reverse(list)
  <1>1. n \in Nat
    BY SequenceLen
  <1>2. r = [i \in 1..n |-> list[(n - i) + 1]]
    BY Zenon DEF Reverse
  <1>3. r \in [1..n -> ToSet(r)]
    BY <1>2 DEF ToSet
  <1>4. r \in Seq(ToSet(r)) /\ Len(r) = n
    <2>1. r \in Seq(ToSet(r))
      BY <1>1, <1>3
    <2>2. DOMAIN r = 1..n /\ DOMAIN r = 1..Len(r) /\ Len(r) \in Nat
      BY <1>2, <2>1, LenProperties
    <2> QED
      BY <1>1, <2>1, <2>2
  <1>5. \A i \in 1..n : /\ (n - i) + 1 \in 1..n /\ (n - ((n - i) + 1)) + 1 = i
    BY <1>1
  <1>6. \A i \in 1..n : r[i] = list[(n - i) + 1]
    BY <1>2
  <1> HIDE DEF r
  <1>7. IsSequence(r)
    BY <1>4, Zenon DEF IsSequence
  <1>8. /\ IsSequence(r) /\ Len(r) = n
        /\ \A i \in 1..n : /\ (n - i) + 1 \in 1..n
                           /\ r[i] = list[(n - i) + 1]
                           /\ (n - ((n - i) + 1)) + 1 = i
    BY <1>4, <1>5, <1>6, <1>7, Zenon
  <1> QED
    BY <1>8, Zenon DEF r

\* P are the indices of at most one element of the list and Q those of the same
\* element in its reverse.
Mirrored(list, P, Q) ==
  /\ P \subseteq 1..Len(list) /\ \A i, j \in P : i = j
  /\ Q \subseteq 1..Len(list)
  /\ \A i \in 1..Len(list) : i \in Q <=> (Len(list) - i) + 1 \in P

FoundSame(list, f, g) ==
  \/ f = 0 /\ g = 0
  \/ f # 0 /\ g # 0 /\ list[f] = Reverse(list)[g]

\* When at most one element is looked for, a lookup finds the same one in a
\* list and in its reverse.
LEMMA SameFound ==
  ASSUME NEW list, IsSequence(list), NEW P, NEW Q, Mirrored(list, P, Q),
         NEW f, FirstOf(f, list, P), NEW g, FirstOf(g, Reverse(list), Q)
  PROVE  FoundSame(list, f, g)
  <1>1. Len(list) \in Nat
    BY SequenceLen
  <1>2. 0 \notin 1..Len(list)
    BY <1>1
  <1>3. CASE P = {}
    BY <1>2, <1>3, Zenon DEF FirstOf, Mirrored, FoundSame
  <1>4. CASE P # {}
    <2>1. PICK p \in P : TRUE
      BY <1>4
    <2>2. (Len(list) - p) + 1 \in Q
      <3>1. p \in 1..Len(list)
        BY <2>1, Zenon DEF Mirrored
      <3>2. (Len(list) - p) + 1 \in 1..Len(list) /\ (Len(list) - ((Len(list) - p) + 1)) + 1 = p
        BY <3>1, ReverseIsSequence, Zenon
      <3> QED
        BY <2>1, <3>2, Zenon DEF Mirrored
    <2>3. f \in P /\ g \in Q
      BY <1>4, <2>2, Zenon DEF FirstOf
    <2>4. g \in 1..Len(list) /\ (Len(list) - g) + 1 = f
      BY <2>3, Zenon DEF Mirrored
    <2>5. Reverse(list)[g] = list[f]
      BY <2>4, ReverseIsSequence, Zenon
    <2> QED
      BY <1>2, <2>3, <2>4, <2>5, Zenon DEF Mirrored, FoundSame
  <1> QED
    BY <1>3, <1>4

LEMMA SameByNodeRef ==
  ASSUME NEW list, IsSequence(list), NEW name,
         \A i, j \in DOMAIN list : RefersTo(list[i], name) /\ RefersTo(list[j], name) => i = j
  PROVE  LET f == FindMatchingMachineFromNodeRef(list, name)
             g == FindMatchingMachineFromNodeRef(Reverse(list), name)
         IN  FoundSame(list, f, g)
  <1> DEFINE P == {i \in 1..Len(list) : RefersTo(list[i], name)}
             Q == {i \in 1..Len(Reverse(list)) : RefersTo(Reverse(list)[i], name)}
  <1>1. DOMAIN list = 1..Len(list)
    BY SequenceLen, Zenon
  <1>2. P \subseteq 1..Len(list) /\ \A i, j \in P : i = j
    BY <1>1, Zenon
  <1>3. Q \subseteq 1..Len(list) /\ \A i \in 1..Len(list) : i \in Q <=> (Len(list) - i) + 1 \in P
    BY ReverseIsSequence, Zenon
  <1>4. FirstOf(FindMatchingMachineFromNodeRef(list, name), list, P)
    BY FirstByNodeRef, Zenon
  <1>5. FirstOf(FindMatchingMachineFromNodeRef(Reverse(list), name), Reverse(list), Q)
    BY ReverseIsSequence, FirstByNodeRef, Zenon
  <1> HIDE DEF P, Q
  <1>6. Mirrored(list, P, Q)
    BY <1>2, <1>3, Zenon DEF Mirrored
  <1> QED
    BY <1>4, <1>5, <1>6, SameFound, Zenon

LEMMA SameByInternalDNS ==
  ASSUME NEW list, IsSequence(list), NEW name,
         \A i, j \in DOMAIN list : HasInternalDNS(list[i], name) /\ HasInternalDNS(list[j], name) => i = j
  PROVE  LET f == FindMatchingMachineFromInternalDNS(list, name)
             g == FindMatchingMachineFromInternalDNS(Reverse(list), name)
         IN  FoundSame(list, f, g)
  <1> DEFINE P == {i \in 1..Len(list) : HasInternalDNS(list[i], name)}
             Q == {i \in 1..Len(Reverse(list)) : HasInternalDNS(Reverse(list)[i], name)}
  <1>1. DOMAIN list = 1..Len(list)
    BY SequenceLen, Zenon
  <1>2. P \subseteq 1..Len(list) /\ \A i, j \in P : i = j
    BY <1>1, Zenon
  <1>3. Q \subseteq 1..Len(list) /\ \A i \in 1..Len(list) : i \in Q <=> (Len(list) - i) + 1 \in P
    BY ReverseIsSequence, Zenon
  <1>4. FirstOf(FindMatchingMachineFromInternalDNS(list, name), list, P)
    BY FirstByInternalDNS, Zenon
  <1>5. FirstOf(FindMatchingMachineFromInternalDNS(Reverse(list), name), Reverse(list), Q)
    BY ReverseIsSequence, FirstByInternalDNS, Zenon
  <1> HIDE DEF P, Q
  <1>6. Mirrored(list, P, Q)
    BY <1>2, <1>3, Zenon DEF Mirrored
  <1> QED
    BY <1>4, <1>5, <1>6, SameFound, Zenon

LEMMA ClientVerdict ==
  ASSUME NEW list, Client
  PROVE  VerdictWith(list) = authorizeNodeClientCSR(req, 0, list, node.get)
  BY Zenon DEF VerdictWith, Client, authorizeCSR

\* The lookups take the first machine that matches, so the order of the list can
\* only matter when two machines claim one node (machinehandler.go).
THEOREM OrderIrrelevant == PolicySpec => []ListOrderIrrelevant
  <1>1. ASSUME Inputs PROVE ListOrderIrrelevant
    <2>1. SUFFICES ASSUME \A i, j \in DOMAIN machines :
                            Claims(machines[i]) /\ Claims(machines[j]) => i = j
                   PROVE  VerdictWith(Reverse(machines)) = VerdictWith(machines)
      BY Zenon DEF ListOrderIrrelevant, verdict
    <2>2. IsSequence(machines)
      BY <1>1, InputLists, Zenon
    <2>3. CASE Client
      <3>1. \A m : HasInternalDNS(m, req.cn[2]) => Claims(m)
        BY Zenon DEF HasInternalDNS, Claims, ToSet
      <3>2. \A i, j \in DOMAIN machines :
              HasInternalDNS(machines[i], req.cn[2]) /\ HasInternalDNS(machines[j], req.cn[2]) => i = j
        BY <2>1, <3>1, Zenon
      <3> DEFINE f == FindMatchingMachineFromInternalDNS(machines, req.cn[2])
                 g == FindMatchingMachineFromInternalDNS(Reverse(machines), req.cn[2])
      <3>3. \/ f = 0 /\ g = 0
            \/ f # 0 /\ g # 0 /\ machines[f] = Reverse(machines)[g]
        BY <2>2, <3>2, SameByInternalDNS, Zenon DEF FoundSame
      <3>4. authorizeNodeClientCSR(req, 0, machines, node.get)
              = authorizeNodeClientCSR(req, 0, Reverse(machines), node.get)
        <4> DEFINE Checked(rest) ==
                     IF ~isReqFromNodeBootstrapper(req) \/ req.cn[2] = "" THEN "decline"
                     ELSE IF node.get = "error" THEN "retry"
                     ELSE IF node.get = "found" THEN "decline"
                     ELSE rest
                   Fits(m) ==
                     IF /\ m.nodeRef = NoNode
                        /\ inTimeSpan(m.created - maxMachineClockSkew, m.created + maxMachineDelta, 0)
                     THEN "approve"
                     ELSE "decline"
        <4>1. /\ authorizeNodeClientCSR(req, 0, machines, node.get)
                   = Checked(IF f = 0 THEN "retry" ELSE Fits(machines[f]))
              /\ authorizeNodeClientCSR(req, 0, Reverse(machines), node.get)
                   = Checked(IF g = 0 THEN "retry" ELSE Fits(Reverse(machines)[g]))
          BY Zenon DEF authorizeNodeClientCSR
        <4> HIDE DEF f, g, Checked, Fits
        <4>2. (IF f = 0 THEN "retry" ELSE Fits(machines[f]))
                = IF g = 0 THEN "retry" ELSE Fits(Reverse(machines)[g])
          <5>1. CASE f = 0 /\ g = 0
            BY <5>1, Zenon
          <5>2. CASE f # 0 /\ g # 0 /\ machines[f] = Reverse(machines)[g]
            <6>1. Fits(machines[f]) = Fits(Reverse(machines)[g])
              BY <5>2
            <6> QED
              BY <5>2, <6>1, Zenon
          <5> QED
            BY <3>3, <5>1, <5>2, Zenon
        <4> QED
          BY <4>1, <4>2
      <3> QED
        BY <2>3, <3>4, ClientVerdict, Zenon
    <2>4. CASE ~Client
      <3>1. \A m : RefersTo(m, Asking) => Claims(m)
        BY Zenon DEF RefersTo, Claims, LinkedTo
      <3>2. \A i, j \in DOMAIN machines :
              RefersTo(machines[i], Asking) /\ RefersTo(machines[j], Asking) => i = j
        BY <2>1, <3>1, Zenon
      <3> DEFINE f == FindMatchingMachineFromNodeRef(machines, Asking)
                 g == FindMatchingMachineFromNodeRef(Reverse(machines), Asking)
      <3>3. \/ f = 0 /\ g = 0
            \/ f # 0 /\ g # 0 /\ machines[f] = Reverse(machines)[g]
        BY <2>2, <3>2, SameByNodeRef, Zenon DEF FoundSame
      <3>4. authorizeServingCertWithMachine(machines, Asking, req)
              <=> authorizeServingCertWithMachine(Reverse(machines), Asking, req)
        <4> DEFINE Covered(addresses) ==
              /\ \A san \in ToSet(req.dns) \ {""} : \E a \in addresses :
                   a.type \in DNSTypes /\ Fold[a.address] = Fold[san]
              /\ \A san \in ToSet(req.ips) : \E a \in addresses :
                   a.type \in IPTypes /\ a.address = IPText[san]
        <4>1. /\ authorizeServingCertWithMachine(machines, Asking, req)
                   <=> f # 0 /\ Covered(IF f = 0 THEN {} ELSE ToSet(machines[f].addresses))
              /\ authorizeServingCertWithMachine(Reverse(machines), Asking, req)
                   <=> g # 0 /\ Covered(IF g = 0 THEN {} ELSE ToSet(Reverse(machines)[g].addresses))
          BY Zenon DEF authorizeServingCertWithMachine
        <4> HIDE DEF f, g, Covered
        <4> QED
          BY <3>3, <4>1, Zenon
      <3>5. servingAuthorized(Asking, req, machines, ca, servingCert, network.type, network.subnet)
              <=> servingAuthorized(Asking, req, Reverse(machines), ca, servingCert,
                                    network.type, network.subnet)
        BY <3>4, Zenon DEF servingAuthorized
      <3> QED
        BY <2>4, <3>5, ServingVerdict, Zenon
    <2> QED
      BY <2>3, <2>4
  <1> QED
    BY <1>1, InputsInvariant, PTL

-----------------------------------------------------------------------------
\* What a retried serving request waits for

LEMMA Within ==
  ASSUME NEW a \in Nat, NEW b \in Nat, NEW i \in 1..a
  PROVE  i \in 1..a + b /\ i <= a
  OBVIOUS

LEMMA Beyond ==
  ASSUME NEW a \in Nat, NEW b \in Nat, NEW i \in 1..b
  PROVE  a + i \in 1..a + b /\ ~(a + i <= a) /\ (a + i) - a = i
  OBVIOUS

LEMMA Singleton ==
  ASSUME NEW x
  PROVE  IsSequence(<<x>>) /\ 1..Len(<<x>>) = {1} /\ <<x>>[1] = x
  <1>1. Len(<<x>>) = 1 /\ <<x>>[1] = x /\ DOMAIN <<x>> = 1..1
    OBVIOUS
  <1>2. 1..1 = {1}
    OBVIOUS
  <1>3. x \in ToSet(<<x>>)
    BY <1>1, <1>2 DEF ToSet
  <1>4. \A S : x \in S => <<x>> \in Seq(S)
    OBVIOUS
  <1> QED
    BY <1>1, <1>2, <1>3, <1>4, Zenon DEF IsSequence

LEMMA IdealAddresses ==
  ASSUME Inputs
  PROVE  /\ \A n \in ToSet(req.dns) : \E a \in ToSet(Ideal.addresses) :
              a.type = "Hostname" /\ a.address = n
         /\ \A ip \in ToSet(req.ips) : \E a \in ToSet(Ideal.addresses) :
              a.type = "InternalIP" /\ a.address = IPText[ip]
  <1> DEFINE names == [i \in DOMAIN req.dns |-> [type |-> "Hostname", address |-> req.dns[i]]]
             ips == [i \in DOMAIN req.ips |->
                       [type |-> "InternalIP", address |-> IPText[req.ips[i]]]]
  <1>1. Ideal.addresses = names \o ips
    BY DEF Ideal
  <1>2. /\ IsSequence(req.dns) /\ Len(req.dns) \in Nat /\ DOMAIN req.dns = 1..Len(req.dns)
        /\ IsSequence(req.ips) /\ Len(req.ips) \in Nat /\ DOMAIN req.ips = 1..Len(req.ips)
    BY InputLists, SequenceLen, Zenon DEF HasNames
  <1>3. /\ IsSequence(names) /\ Len(names) = Len(req.dns)
        /\ IsSequence(ips) /\ Len(ips) = Len(req.ips)
    <2>1. names \in [1..Len(req.dns) -> ToSet(names)]
      BY <1>2 DEF ToSet
    <2>2. ips \in [1..Len(req.ips) -> ToSet(ips)]
      BY <1>2 DEF ToSet
    <2>3. IsSequence(names) /\ IsSequence(ips)
      BY <1>2, <2>1, <2>2 DEF IsSequence
    <2>4. /\ DOMAIN names = 1..Len(req.dns) /\ DOMAIN names = 1..Len(names) /\ Len(names) \in Nat
          /\ DOMAIN ips = 1..Len(req.ips) /\ DOMAIN ips = 1..Len(ips) /\ Len(ips) \in Nat
      BY <1>2, <2>3, SequenceLen
    <2> HIDE DEF names, ips
    <2> QED
      BY <1>2, <2>3, <2>4
  <1>4. /\ DOMAIN (names \o ips) = 1..Len(req.dns) + Len(req.ips)
        /\ \A i \in 1..Len(req.dns) + Len(req.ips) :
             (names \o ips)[i] = IF i <= Len(req.dns) THEN names[i] ELSE ips[i - Len(req.dns)]
    <2> HIDE DEF names, ips
    <2>1. /\ IsSequence(names \o ips) /\ Len(names \o ips) = Len(names) + Len(ips)
          /\ \A i \in 1..Len(names) + Len(ips) :
               (names \o ips)[i] = IF i <= Len(names) THEN names[i] ELSE ips[i - Len(names)]
      BY <1>3, ConcatIsSequence, Zenon
    <2>2. DOMAIN (names \o ips) = 1..Len(names \o ips)
      BY <2>1, SequenceLen, Zenon
    <2> QED
      BY <1>3, <2>1, <2>2, Zenon
  <1>5. ASSUME NEW n \in ToSet(req.dns)
        PROVE  \E a \in ToSet(names \o ips) : a.type = "Hostname" /\ a.address = n
    <2>1. PICK i \in 1..Len(req.dns) : n = req.dns[i]
      BY <1>2 DEF ToSet
    <2>2. i \in 1..Len(req.dns) + Len(req.ips) /\ i <= Len(req.dns)
      BY <1>2, Within
    <2>3. (names \o ips)[i] = names[i]
      BY <1>4, <2>2, Zenon
    <2>4. names[i].type = "Hostname" /\ names[i].address = n
      BY <1>2, <2>1
    <2>5. names[i] \in ToSet(names \o ips)
      BY <1>4, <2>2, <2>3, Zenon DEF ToSet
    <2> QED
      BY <2>4, <2>5, Zenon
  <1>6. ASSUME NEW ip \in ToSet(req.ips)
        PROVE  \E a \in ToSet(names \o ips) : a.type = "InternalIP" /\ a.address = IPText[ip]
    <2>1. PICK i \in 1..Len(req.ips) : ip = req.ips[i]
      BY <1>2 DEF ToSet
    <2> DEFINE j == Len(req.dns) + i
    <2>2. j \in 1..Len(req.dns) + Len(req.ips) /\ ~(j <= Len(req.dns)) /\ j - Len(req.dns) = i
      BY <1>2, Beyond, Zenon
    <2> HIDE DEF j
    <2>3. (names \o ips)[j] = ips[i]
      BY <1>4, <2>2
    <2>4. ips[i].type = "InternalIP" /\ ips[i].address = IPText[ip]
      BY <1>2, <2>1
    <2>5. ips[i] \in ToSet(names \o ips)
      BY <1>4, <2>2, <2>3, Zenon DEF ToSet
    <2> QED
      BY <2>4, <2>5, Zenon
  <1> QED
    BY <1>1, <1>5, <1>6, Zenon

\* A machine that is linked to the node and has the requested names is enough to
\* get a retried serving request approved, so the retries of authorizeCSR are not
\* in vain for good.
THEOREM RetriesCanSucceed == PolicySpec => []RetryCanSucceed
  <1>1. ASSUME Inputs PROVE RetryCanSucceed
    <2>1. SUFFICES ASSUME verdict = "retry", ~Client
                   PROVE  VerdictWith(<<Ideal>>) = "approve"
      BY Zenon DEF RetryCanSucceed
    <2>2. Asking # ""
      <3>1. "retry" # "decline"
        OBVIOUS
      <3> QED
        BY <2>1, <3>1, ServingVerdict, Zenon DEF verdict
    <2>3. Asking # NoNode
      <3>1. Asking = req.username[2]
        BY <2>2, Zenon DEF Asking, validateCSRContents
      <3> QED
        BY <1>1, <3>1, NoNodeAssumption, Zenon DEF Inputs
    <2> DEFINE list == <<Ideal>>
               f == FindMatchingMachineFromNodeRef(list, Asking)
    <2>4. IsSequence(list) /\ 1..Len(list) = {1} /\ list[1] = Ideal
      BY Singleton, Zenon
    <2>5. RefersTo(list[1], Asking)
      <3>1. Ideal.nodeRef = Asking
        BY DEF Ideal
      <3> QED
        BY <2>3, <2>4, <3>1, Zenon DEF RefersTo
    <2> HIDE DEF list
    <2>6. f = 1
      <3>1. 1 \in {i \in 1..Len(list) : RefersTo(list[i], Asking)}
        BY <2>4, <2>5, Zenon
      <3>2. FirstOf(f, list, {i \in 1..Len(list) : RefersTo(list[i], Asking)})
        BY <2>4, FirstByNodeRef, Zenon
      <3>3. f \in 1..Len(list)
        BY <3>1, <3>2, Zenon DEF FirstOf
      <3> QED
        BY <2>4, <3>3, Zenon
    <2> HIDE DEF f
    <2>7. authorizeServingCertWithMachine(list, Asking, req)
      <3> DEFINE addresses == IF f = 0 THEN {} ELSE ToSet(list[f].addresses)
      <3>1. 1 # 0
        OBVIOUS
      <3>2. f # 0 /\ addresses = ToSet(Ideal.addresses)
        BY <2>4, <2>6, <3>1, Zenon
      <3>3. "Hostname" \in DNSTypes /\ "InternalIP" \in IPTypes
        BY DEF DNSTypes, IPTypes
      <3> HIDE DEF addresses
      <3>4. \A san \in ToSet(req.dns) \ {""} : \E a \in addresses :
              a.type \in DNSTypes /\ Fold[a.address] = Fold[san]
        <4>1. TAKE san \in ToSet(req.dns) \ {""}
        <4>2. PICK a \in ToSet(Ideal.addresses) : a.type = "Hostname" /\ a.address = san
          BY <1>1, <4>1, IdealAddresses, Zenon
        <4> QED
          BY <3>2, <3>3, <4>2, Zenon
      <3>5. \A san \in ToSet(req.ips) : \E a \in addresses :
              a.type \in IPTypes /\ a.address = IPText[san]
        BY <1>1, <3>2, <3>3, IdealAddresses, Zenon
      <3> QED
        BY <3>2, <3>4, <3>5, Zenon DEF authorizeServingCertWithMachine, addresses, f
    <2> QED
      BY <2>1, <2>2, <2>7, ServingVerdict, Zenon DEF servingAuthorized, list
  <1> QED
    BY <1>1, InputsInvariant, PTL
=============================================================================
