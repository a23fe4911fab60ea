---------------------------- MODULE CSRLifecycle ----------------------------
(***************************************************************************)
(* What the approver promises to everybody else who uses CSRs, whatever it *)
(* caches, retries or loses: a CSR is pending until one decision is made   *)
(* about it, the decision stays as it is until the CSR is collected, a     *)
(* collected CSR does not come back, and what the approver decides is to   *)
(* approve, and only requests of nodes.  Each step concerns one CSR.       *)
(***************************************************************************)
CONSTANTS
  CSR,        \* names of CSRs
  Eligible,   \* those the approver may approve
  Time        \* the times at which decisions are made

VARIABLE csr  \* [CSR -> the state of the CSR]

Undecided(stage) == [stage |-> stage, by |-> "none", at |-> 0]

Init == csr = [c \in CSR |-> Undecided("unborn")]

Become(c, state) == csr' = [csr EXCEPT ![c] = state]

Create(c) == csr[c].stage = "unborn" /\ Become(c, Undecided("pending"))

Approve(c, by) ==
  /\ csr[c].stage = "pending"
  /\ by = "cma" => c \in Eligible
  /\ \E t \in Time : Become(c, [stage |-> "approved", by |-> by, at |-> t])

Deny(c) == csr[c].stage = "pending" /\ Become(c, Undecided("denied"))

Collect(c) ==
  csr[c].stage \in {"pending", "approved", "denied"} /\ Become(c, Undecided("gone"))

Next ==
  \E c \in CSR :
    \/ Create(c) \/ Deny(c) \/ Collect(c)
    \/ \E by \in {"cma", "other"} : Approve(c, by)

Spec == Init /\ [][Next]_csr
=============================================================================
