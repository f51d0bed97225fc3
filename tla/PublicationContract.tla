------------------------- MODULE PublicationContract -------------------------
(***************************************************************************)
(* What the financial engine promises about one request, with no worker,   *)
(* lease, checkpoint or retry in sight: a run fixes the evidence it reads  *)
(* once, publishes each of its units at most once from that evidence while *)
(* the evidence stands, publishes nothing after it was asked to cancel,    *)
(* ends once, and disappears only as a whole.  FinancialRun implements it. *)
(***************************************************************************)
EXTENDS Naturals

CONSTANTS Units,     \* what the request asks to publish
          Evidence,  \* evidence versions
          Attempts   \* the attempts that may publish

VARIABLES phase,      \* "none" | "open" | "completed" | "failed" | "cancelled"
          basis,      \* the evidence the run reads, 0 until it is fixed
          published,  \* what the parent received: [unit, value, by]
          cancelling, \* the owner asked for cancellation
          withdrawn   \* evidence that may no longer be published

vars == <<phase, basis, published, cancelling, withdrawn>>

Ended == {"completed", "failed", "cancelled"}

Init ==
    /\ phase = "none"
    /\ basis = 0
    /\ published = {}
    /\ cancelling = FALSE
    /\ withdrawn = {}

Open ==
    /\ phase = "none"
    /\ phase' = "open"
    /\ UNCHANGED <<basis, published, cancelling, withdrawn>>

Fix ==
    /\ phase = "open" /\ ~cancelling /\ basis = 0
    /\ basis' \in Evidence
    /\ UNCHANGED <<phase, published, cancelling, withdrawn>>

\* The last publication also completes the run.
Publish ==
    /\ phase = "open" /\ ~cancelling
    /\ basis \in Evidence \ withdrawn
    /\ \E u \in Units, a \in Attempts :
          /\ \A p \in published : p.unit # u
          /\ published' = published \cup {[unit |-> u, value |-> basis, by |-> a]}
    /\ phase' \in {"open", "completed"}
    /\ UNCHANGED <<basis, cancelling, withdrawn>>

Fail ==
    /\ phase = "open"
    /\ phase' = "failed"
    /\ UNCHANGED <<basis, published, cancelling, withdrawn>>

\* The request and its completion may be one step or two.
Cancel ==
    /\ phase = "open"
    /\ cancelling' = TRUE
    /\ phase' \in {"open", "cancelled"}
    /\ UNCHANGED <<basis, published, withdrawn>>

Withdraw ==
    /\ \E e \in Evidence : withdrawn' = withdrawn \cup {e}
    /\ UNCHANGED <<phase, basis, published, cancelling>>

\* Erasure takes the run with everything it published.
Erase ==
    /\ phase # "none"
    /\ phase' = "none" /\ basis' = 0 /\ published' = {} /\ cancelling' = FALSE
    /\ withdrawn' = withdrawn \/ \E e \in Evidence : withdrawn' = withdrawn \cup {e}

Next == Open \/ Fix \/ Publish \/ Fail \/ Cancel \/ Withdraw \/ Erase

Spec == Init /\ [][Next]_vars
==============================================================================
