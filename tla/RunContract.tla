----------------------------- MODULE RunContract -----------------------------
(***************************************************************************)
(* What a discovery run promises to the person who started it, with no    *)
(* worker, lease or checkpoint in sight: the states GET /v1/discovery/runs *)
(* can show, and how they may follow one another.  DiscoveryRun implements *)
(* this specification.                                                     *)
(***************************************************************************)
CONSTANT Candidates

VARIABLES status,   \* RunStatus of the run
          cancel,   \* the owner asked for cancellation while the run was active
          chosen,   \* the companies selected for research
          sealed    \* the companies with a sealed assessment

vars == <<status, cancel, chosen, sealed>>

Active == status \in {"queued", "running"}
Ended  == {"completed", "partial", "failed", "cancelled"}

Init ==
    /\ status = "queued"
    /\ cancel = FALSE
    /\ chosen = {}
    /\ sealed = {}

Start ==
    /\ status = "queued"
    /\ status' = "running"
    /\ UNCHANGED <<cancel, chosen, sealed>>

\* The companies to research are chosen once.
Choose ==
    /\ status = "running"
    /\ ~cancel
    /\ chosen = {}
    /\ chosen' \in SUBSET Candidates
    /\ UNCHANGED <<status, cancel, sealed>>

\* A chosen company is assessed at most once, never after a cancellation.
Seal ==
    /\ status = "running"
    /\ ~cancel
    /\ \E c \in chosen \ sealed : sealed' = sealed \cup {c}
    /\ UNCHANGED <<status, cancel, chosen>>

\* A queued run ends at once; a running one is only marked.
AskCancel ==
    /\ Active
    /\ cancel' = TRUE
    /\ status' = IF status = "queued" THEN "cancelled" ELSE status
    /\ UNCHANGED <<chosen, sealed>>

\* A run that was asked to cancel ends as cancelled and no other run does; a
\* run is reported as completed only with every chosen company assessed.
End ==
    /\ status = "running"
    /\ status' \in Ended
    /\ (status' = "cancelled") = cancel
    /\ status' = "completed" => chosen \subseteq sealed
    /\ UNCHANGED <<cancel, chosen, sealed>>

Next == Start \/ Choose \/ Seal \/ AskCancel \/ End

Spec == Init /\ [][Next]_vars
==============================================================================
