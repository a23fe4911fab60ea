----------------------------- MODULE MCStartUp -----------------------------
\* Small sets of flags, environments and files for StartUp.
EXTENDS StartUp

Shipped ==
  [apigroup |-> "", apiGroupVersions |-> <<<<mapiGroup, "v1beta1">>>>, config |-> TRUE,
   METRICS_PORT |-> "unset", kubeconfigs |-> TRUE, leaderElect |-> TRUE,
   durations |-> [lease |-> 137, renew |-> 107, retry |-> 26]]

MCPart == {"", mapiGroup, capiGroup, "v1beta1", "v1", "v2", "other"}

\* Texts with every number of parts, blank ones among them.
Texts == {<<mapiGroup>>, <<capiGroup, "v1beta1">>, <<mapiGroup, "">>, <<"">>, <<"", "">>,
          <<"", "v1">>, <<"other">>, <<mapiGroup, "v1", "v2">>}

\* Every choice of groups, and every other setting on its own.
MCSettings ==
  {[Shipped EXCEPT !.apigroup = g, !.apiGroupVersions = l] :
     g \in {"", mapiGroup, "other"},
     l \in {<<>>} \cup {<<t>> : t \in Texts} \cup {<<t, u>> : t, u \in Texts}}
  \cup
  {[Shipped EXCEPT !.METRICS_PORT = m, !.kubeconfigs = k, !.leaderElect = e,
                   !.durations.renew = d] :
     m \in {"unset", "number", "other"}, k \in BOOLEAN, e \in BOOLEAN,
     d \in {31, 32, 107, 137}}

OnlyShipped == {Shipped}

File(is, values) == [is |-> is, values |-> values]
NoFile == {File("missing", <<>>)}
Files == {File(is, <<>>) : is \in {"missing", "empty", "malformed"}} \cup
         {File("object", v) : v \in UNION {[1..n -> {"true", "false", "mistyped"}] : n \in 0..2}}
=============================================================================
