--------------------------- MODULE SpendingContract ---------------------------
(***************************************************************************)
(* What the owner of a discovery run may count on when it spends its       *)
(* budget of model calls, with no worker, lease or retry in sight.  Every  *)
(* call is charged before it is made, and made at most once for what was   *)
(* charged; an operation is charged a second time only after its first     *)
(* charge came to nothing; what companies are owed when they are selected  *)
(* stays affordable until it is spent or released.  DiscoveryAttempts      *)
(* implements this specification.                                          *)
(***************************************************************************)
EXTENDS Naturals, FiniteSets

CONSTANTS Ops,    \* operations: Scout's batches, the roles of the companies
          Limit   \* limits.attempts.model

VARIABLES spent,   \* model calls charged to the run
          owed,    \* operations that still have their first charge reserved
          entry,   \* per operation and charge: what came of it
          calls    \* per operation and charge: calls that reached the provider

vars == <<spent, owed, entry, calls>>

Charges == {1, 2}
Fruitless == {"error", "unknown", "invalid"}

Init ==
    /\ spent = 0 /\ owed = {}
    /\ entry = [o \in Ops |-> [n \in Charges |-> "none"]]
    /\ calls = [o \in Ops |-> [n \in Charges |-> 0]]

\* Companies are selected: the budget covers the first call of each role.
Select ==
    /\ owed = {}
    /\ owed' \in SUBSET {o \in Ops : entry[o][1] = "none"}
    /\ spent + Cardinality(owed') <= Limit
    /\ UNCHANGED <<spent, entry, calls>>

\* A company that failed is owed nothing.
Release ==
    /\ owed' \in SUBSET owed
    /\ UNCHANGED <<spent, entry, calls>>

\* A charge never takes what is owed to others.
Charge(o, n) ==
    /\ entry[o][n] = "none"
    /\ n = 2 => entry[o][1] \in Fruitless
    /\ spent + 1 + Cardinality(owed \ {o}) <= Limit
    /\ spent' = spent + 1
    /\ owed' = owed \ {o}
    /\ entry' = [entry EXCEPT ![o][n] = "reserved"]
    /\ UNCHANGED calls

\* The call may come after its charge was written off as unknown.
Call(o, n) ==
    /\ entry[o][n] # "none" /\ calls[o][n] = 0
    /\ calls' = [calls EXCEPT ![o][n] = 1]
    /\ UNCHANGED <<spent, owed, entry>>

\* A charge is settled once, and with an answer or an error only of a call.
Settle(o, n) ==
    /\ entry[o][n] = "reserved"
    /\ \E out \in Fruitless \cup {"valid"} :
          /\ out # "unknown" => calls[o][n] = 1
          /\ entry' = [entry EXCEPT ![o][n] = out]
    /\ UNCHANGED <<spent, owed, calls>>

Next ==
    \/ Select \/ Release
    \/ \E o \in Ops, n \in Charges : Charge(o, n) \/ Call(o, n) \/ Settle(o, n)

Spec == Init /\ [][Next]_vars
==============================================================================
