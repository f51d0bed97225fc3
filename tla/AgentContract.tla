---------------------------- MODULE AgentContract -----------------------------
(***************************************************************************)
(* What a research agent promises to its owner, with no handler, claim,    *)
(* transaction or lock in sight: the run log, the findings with their      *)
(* alerts, and the evidence the agent counts as processed.  Findings and   *)
(* processed evidence appear together, a cluster of evidence is reported   *)
(* once, nothing is processed without a finding, and a run is called       *)
(* completed only after it published.  AgentRuns implements this           *)
(* specification.                                                          *)
(***************************************************************************)
CONSTANTS Runs,
          Clusters   \* evidence grouped by what it says, as sets

VARIABLES alive,      \* the agent exists
          log,        \* per run: "none" | "running" | "completed" | "failed"
          findings,   \* what the owner was told: <<run, cluster>>
          processed,  \* evidence the agent will not read again
          published,  \* runs that published
          overtaken   \* runs another run declared failed

vars == <<alive, log, findings, processed, published, overtaken>>

Told(C) == \E f \in findings : f[2] = C

Init ==
    /\ alive = TRUE
    /\ log = [r \in Runs |-> "none"]
    /\ findings = {} /\ processed = {} /\ published = {} /\ overtaken = {}

\* One run at a time, as far as the log says.
Start(r) ==
    /\ log[r] = "none" /\ \A s \in Runs : log[s] # "running"
    /\ log' = [log EXCEPT ![r] = "running"]
    /\ UNCHANGED <<alive, findings, processed, published, overtaken>>

\* A run that was overtaken may still publish, and then evidence may have to
\* be processed again; otherwise what is processed stays processed.
Publish(r) ==
    /\ alive /\ log[r] # "none"
    /\ \E S \in SUBSET Clusters :
          /\ \A C \in S : ~Told(C)
          /\ findings' = findings \cup ({r} \X S)
    /\ \A d \in processed' : \E f \in findings' : d \in f[2]
    /\ published' = published \cup {r}
    /\ published' \cap overtaken = {} => processed \subseteq processed'
    /\ UNCHANGED <<alive, log, overtaken>>

Complete(r) ==
    /\ log[r] = "running" /\ r \in published
    /\ log' = [log EXCEPT ![r] = "completed"]
    /\ UNCHANGED <<alive, findings, processed, published, overtaken>>

\* A run fails by itself or is overtaken by the next one.
Fail(r) ==
    /\ log[r] = "running"
    /\ log' = [log EXCEPT ![r] = "failed"]
    /\ overtaken' \in {overtaken, overtaken \cup {r}}
    /\ UNCHANGED <<alive, findings, processed, published>>

\* The owner deletes the agent: the findings go, the log stays.
Delete ==
    /\ alive /\ alive' = FALSE
    /\ findings' = {}
    /\ UNCHANGED <<log, processed, published, overtaken>>

Next ==
    \/ \E r \in Runs : Start(r) \/ Publish(r) \/ Complete(r) \/ Fail(r)
    \/ Delete

Spec == Init /\ [][Next]_vars
==============================================================================
