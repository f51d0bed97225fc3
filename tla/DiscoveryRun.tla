---------------------------- MODULE DiscoveryRun ----------------------------
(***************************************************************************)
(* One discovery run: its row in discovery_runs, its candidates, and the   *)
(* workers that claim, execute, lose and reclaim it (services/discovery/   *)
(* src/run-repo.ts, worker-lock.ts, candidate-repo.ts, assessment-repo.ts, *)
(* runner.ts, stages.ts, worker.ts).                                       *)
(*                                                                         *)
(* Every repository call is one database transaction and one action here.  *)
(* A worker's steps between two transactions are its control state pc.  A  *)
(* step that the code precedes with assertRunnable (an unfenced read) is   *)
(* taken together with that read: whatever could change in between makes   *)
(* the fenced write fail by itself, except the deadline, and passing the   *)
(* deadline changes nothing a write looks at.                              *)
(*                                                                         *)
(* Time is abstracted to its two comparisons: has the lease expired, has   *)
(* the run's deadline passed.  A successful heartbeat is the reason why an *)
(* attended lease does not expire, so it needs no action.                  *)
(***************************************************************************)
EXTENDS Integers, Sequences

CONSTANTS Workers,      \* worker processes
          NoWorker,     \* lease_owner of a run nobody has claimed
          Candidates,   \* the companies Scout may find
          MaxCohort,    \* size limit of the research cohort (25 in the code)
          MaxFaults     \* bound on crashes, stalls and lost database replies

ASSUME NoWorkerAssumption == NoWorker \notin Workers
ASSUME MaxCohortAssumption == MaxCohort \in Nat
ASSUME MaxFaultsAssumption == MaxFaults \in Nat

VARIABLES
    status, stage, owner, epoch, leaseState, cancelRequested, checkpoint,
    gaps,       \* coverage.gaps of the row is not empty
    cohort,     \* the candidates with a selection_ordinal, in that order
    cstate,     \* state of every discovery_candidates row
    sealed,     \* candidates whose assessment and snapshot_id are set
    systemic,   \* candidates with a "systemic:" reason code
    events,     \* discovery_events, each with the epoch that wrote it
    deadline,   \* started_at + run_timeout_ms has passed
    pc, held, local, pool, pending, incomplete, aborted, verdict,
    faults

rowVars == <<status, stage, owner, epoch, leaseState, cancelRequested,
             checkpoint, gaps>>
candidateVars == <<cohort, cstate, sealed, systemic>>
workerVars == <<pc, held, local, pool, pending, incomplete, aborted, verdict>>
vars == <<rowVars, candidateVars, events, deadline, workerVars, faults>>

Terminal == {"completed", "partial", "failed", "cancelled"}
Statuses == {"queued", "running"} \cup Terminal
CandidateStates == {"absent", "unresolved_identity", "discovered",
                    "not_selected", "researching", "assessed", "research_error"}
Elems(s) == {s[i] : i \in DOMAIN s}

\* The control points of executeDiscoveryRun and executeStages.  At StagePcs
\* executeStages is running and an abort makes it throw.
StagePcs == {"begin", "discover", "save", "select", "company", "research",
             "fail", "advance"}
Pcs == StagePcs \cup {"idle", "finalize", "catch"}

EmptyCheckpoint == [stage |-> "queued", cohort |-> <<>>, next |-> 0]

Init ==
    /\ status = "queued" /\ stage = "queued"
    /\ owner = NoWorker /\ epoch = 0 /\ leaseState = "none"
    /\ cancelRequested = FALSE /\ deadline = FALSE
    /\ checkpoint = EmptyCheckpoint
    /\ gaps = FALSE
    /\ cohort = <<>>
    /\ cstate = [c \in Candidates |-> "absent"]
    /\ sealed = {} /\ systemic = {}
    /\ events = <<>>
    /\ pc = [w \in Workers |-> "idle"]
    /\ held = [w \in Workers |-> 0]
    /\ local = [w \in Workers |-> EmptyCheckpoint]
    /\ pool = [w \in Workers |-> {}]
    /\ pending = [w \in Workers |-> {}]
    /\ incomplete = [w \in Workers |-> FALSE]
    /\ aborted = [w \in Workers |-> FALSE]
    /\ verdict = [w \in Workers |-> "completed"]
    /\ faults = 0

-----------------------------------------------------------------------------
(* The lease.                                                              *)

\* Mutants: the lease is live, whoever holds it; the lease is this worker's,
\* live or not.
HoldsAnyLease(w) == leaseState = "live"
HoldsAnyTime(w) == owner = w /\ epoch = held[w]

\* lockLiveLease with allowCancelled: the lease is this worker's, of this
\* epoch, set, and not expired.
Holds(w) ==
    /\ owner = w
    /\ epoch = held[w]
    /\ leaseState = "live"

\* lockLiveLease: a requested cancellation stops every other write.
Fenced(w) == Holds(w) /\ ~cancelRequested

\* Mutant: the fence does not look at the cancellation.
MayWriteAnyway(w) == Holds(w) /\ ~deadline

\* assertRunnable and the fenced write it precedes.
MayWrite(w) == Fenced(w) /\ ~deadline

Goto(w, p) == pc' = [pc EXCEPT ![w] = p]

\* An event written by worker w, under the epoch w holds (a history variable:
\* the table does not store it).
Event(w, kind, about) ==
    Append(events, [kind |-> kind, about |-> about, epoch |-> held[w]])

\* The variables of executeStages go out of scope.
Return(w) ==
    /\ local' = [local EXCEPT ![w] = EmptyCheckpoint]
    /\ pool' = [pool EXCEPT ![w] = {}]
    /\ pending' = [pending EXCEPT ![w] = {}]
    /\ incomplete' = [incomplete EXCEPT ![w] = FALSE]

\* A worker has nothing to remember once it is out of executeDiscoveryRun.
Leave(w) ==
    /\ Return(w)
    /\ Goto(w, "idle")
    /\ held' = [held EXCEPT ![w] = 0]
    /\ aborted' = [aborted EXCEPT ![w] = FALSE]
    /\ verdict' = [verdict EXCEPT ![w] = "completed"]

\* Mutant: only queued runs are claimed.
ClaimableQueued == status = "queued"

\* claimNextRun: a queued run, or a running one whose lease has expired.
Claimable ==
    \/ status = "queued"
    \/ status = "running" /\ leaseState = "expired"

Claim(w) ==
    /\ pc[w] = "idle"
    /\ Claimable
    /\ status' = "running"
    /\ stage' = IF stage = "queued" THEN "discovery" ELSE stage
    /\ owner' = w
    /\ epoch' = epoch + 1
    /\ leaseState' = "live"
    /\ held' = [held EXCEPT ![w] = epoch + 1]
    /\ Goto(w, "begin")
    /\ UNCHANGED <<cancelRequested, checkpoint, gaps, candidateVars, events,
                   deadline, local, pool, pending, incomplete, aborted,
                   verdict, faults>>
-----------------------------------------------------------------------------
(* executeStages.                                                          *)

\* Mutant: the checkpoint decides whether Scout runs.
NoCohortCheckpointed == checkpoint.stage # "research"

\* The stage of the row decides whether Scout runs.
NoCohortYet == stage = "discovery"

\* At a stage step the worker goes on: it has not been aborted.
At(w, p) == pc[w] = p /\ ~aborted[w]

\* assertRunnable, then the fenced read of the checkpoint.
Begin(w) ==
    /\ At(w, "begin")
    /\ MayWrite(w)
    /\ local' = [local EXCEPT ![w] = checkpoint]
    /\ Goto(w, IF NoCohortYet THEN "discover" ELSE "select")
    /\ UNCHANGED <<rowVars, candidateVars, events, deadline, held, pool,
                   pending, incomplete, aborted, verdict, faults>>

\* admitCandidate: a known lead is left alone (the worker still has it in its
\* pool when it is resolved), a new one becomes a row.
Admit(w, c) ==
    /\ At(w, "discover")
    /\ MayWrite(w)
    /\ c \notin pool[w]
    /\ \/ /\ cstate[c] = "absent"
          /\ cstate' = [cstate EXCEPT ![c] = "discovered"]
          /\ pool' = [pool EXCEPT ![w] = @ \cup {c}]
       \/ /\ cstate[c] = "absent"
          /\ cstate' = [cstate EXCEPT ![c] = "unresolved_identity"]
          /\ UNCHANGED pool
       \/ /\ cstate[c] = "discovered"
          /\ pool' = [pool EXCEPT ![w] = @ \cup {c}]
          /\ UNCHANGED cstate
    /\ UNCHANGED <<rowVars, cohort, sealed, systemic, events, deadline, pc,
                   held, local, pending, incomplete, aborted, verdict, faults>>

\* The sequences chooseResearchCohort may return for the candidates in S.
Cohorts(S) ==
    {s \in UNION {[1..n -> S] : n \in 0..MaxCohort} :
        \A i, j \in DOMAIN s : s[i] = s[j] => i = j}

\* commitCohort: states, ordinals, stage and event in one transaction.
CommitCohort(w) ==
    /\ At(w, "discover")
    /\ MayWrite(w)
    /\ NoCohortYet
    /\ \E s \in Cohorts(pool[w]), g \in BOOLEAN :
         /\ \A c \in Elems(s) : cstate[c] = "discovered"
         /\ cohort' = s
         /\ gaps' = g
         /\ cstate' = [c \in Candidates |->
                         IF c \in Elems(s) THEN "researching"
                         ELSE IF cstate[c] = "discovered" THEN "not_selected"
                         ELSE cstate[c]]
         /\ local' = [local EXCEPT ![w] =
                        [stage |-> "research", cohort |-> s, next |-> 0]]
    /\ pool' = [pool EXCEPT ![w] = {}]
    /\ stage' = "research"
    /\ events' = Event(w, "cohort", {})
    /\ Goto(w, "save")
    /\ UNCHANGED <<status, owner, epoch, leaseState, cancelRequested,
                   checkpoint, sealed, systemic, deadline, held, pending,
                   incomplete, aborted, verdict, faults>>

\* saveCheckpoint writes the stage of the checkpoint into the row as well.
SaveCheckpoint(w, k) ==
    /\ Fenced(w)
    /\ checkpoint' = k
    /\ stage' = k.stage

SaveCohort(w) ==
    /\ pc[w] = "save"
    /\ SaveCheckpoint(w, local[w])
    /\ Goto(w, "select")
    /\ UNCHANGED <<status, owner, epoch, leaseState, cancelRequested, gaps,
                   candidateVars, events, deadline, held, local, pool, pending,
                   incomplete, aborted, verdict, faults>>

\* Mutant: every selected company is researched again after a restart.
PendingAlways(c) == TRUE

\* A company is still to be researched: no assessment and not in error.
Pending(c) == c \notin sealed /\ cstate[c] = "researching"

\* A checkpoint that does not name the committed cohort.
Outdated(k) == k.stage # "research" \/ k.cohort # cohort

\* selectedCandidates reads the rows once, before the loop; an
\* outdated checkpoint is rebuilt from the ordinals.
Select(w) ==
    /\ pc[w] = "select"
    /\ pending' = [pending EXCEPT ![w] = {c \in Elems(cohort) : Pending(c)}]
    /\ \/ /\ ~Outdated(local[w])
          /\ UNCHANGED <<checkpoint, stage, local>>
       \/ /\ Outdated(local[w])
          /\ LET k == [stage |-> "research", cohort |-> cohort, next |-> 0]
             IN  /\ SaveCheckpoint(w, k)
                 /\ local' = [local EXCEPT ![w] = k]
    /\ Goto(w, "company")
    /\ UNCHANGED <<status, owner, epoch, leaseState, cancelRequested, gaps,
                   candidateVars, events, deadline, held, pool, incomplete,
                   aborted, verdict, faults>>
-----------------------------------------------------------------------------
(* The company loop of executeStages, one iteration per selected company.  *)

Current(w) == local[w].cohort[local[w].next + 1]
MoreCompanies(w) == local[w].next < Len(local[w].cohort)

\* Enter the iteration: research the company unless the rows read before the
\* loop showed it settled.
StartCompany(w) ==
    /\ At(w, "company")
    /\ MoreCompanies(w)
    /\ Goto(w, IF Current(w) \in pending[w] THEN "research" ELSE "advance")
    /\ UNCHANGED <<rowVars, candidateVars, events, deadline, held, local, pool,
                   pending, incomplete, aborted, verdict, faults>>

\* commitAssessment: seals the assessment, the candidate's state and the event.
SealAssessment(w) ==
    /\ MayWrite(w)
    /\ Pending(Current(w))
    /\ sealed' = sealed \cup {Current(w)}
    /\ cstate' = [cstate EXCEPT ![Current(w)] = "assessed"]
    /\ events' = Event(w, "assessed", {Current(w)})

CommitAssessment(w) ==
    /\ At(w, "research")
    /\ SealAssessment(w)
    /\ Goto(w, "advance")
    /\ UNCHANGED <<rowVars, cohort, systemic, deadline, held, local, pool,
                   pending, incomplete, aborted, verdict, faults>>

\* The commit went through but its reply was lost: researchCompany throws.
CommitReplyLost(w) ==
    /\ At(w, "research")
    /\ faults < MaxFaults
    /\ SealAssessment(w)
    /\ faults' = faults + 1
    /\ Goto(w, "fail")
    /\ UNCHANGED <<rowVars, cohort, systemic, deadline, held, local, pool,
                   pending, incomplete, aborted, verdict>>

\* Any error of the company's research that is not a control error.
ResearchFails(w) ==
    /\ At(w, "research")
    /\ Goto(w, "fail")
    /\ UNCHANGED <<rowVars, candidateVars, events, deadline, held, local, pool,
                   pending, incomplete, aborted, verdict, faults>>

\* Mutant: the failure is remembered by the worker only.
ForgetFailure(c) == UNCHANGED <<cstate, systemic>>

\* failCandidate looks at no state of the candidate.
RecordFailure(c) ==
    /\ cstate' = [cstate EXCEPT ![c] = "research_error"]
    /\ systemic' \in {systemic, systemic \cup {c}}

FailCandidate(w) ==
    /\ At(w, "fail")
    /\ MayWrite(w)
    /\ RecordFailure(Current(w))
    /\ incomplete' = [incomplete EXCEPT ![w] = TRUE]
    /\ Goto(w, "advance")
    /\ UNCHANGED <<rowVars, cohort, sealed, events, deadline, held, local,
                   pool, pending, aborted, verdict, faults>>

\* The end of an iteration: the checkpoint moves past the company.
Advance(w) ==
    /\ At(w, "advance")
    /\ ~deadline
    /\ LET k == [local[w] EXCEPT !.next = @ + 1]
       IN  /\ SaveCheckpoint(w, k)
           /\ local' = [local EXCEPT ![w] = k]
    /\ Goto(w, "company")
    /\ UNCHANGED <<status, owner, epoch, leaseState, cancelRequested, gaps,
                   candidateVars, events, deadline, held, pool, pending,
                   incomplete, aborted, verdict, faults>>

InError(c) == cstate[c] = "research_error"

\* Mutant: only what this worker saw fail makes the run partial.
OutcomeOfWorker(w) ==
    IF incomplete[w] \/ gaps THEN "partial" ELSE "completed"

\* The status executeStages returns, from the rows it reads after the loop.
Outcome(w) ==
    IF /\ cohort # <<>>
       /\ sealed = {}
       /\ \A c \in Elems(cohort) : InError(c) /\ c \in systemic
    THEN "failed"
    ELSE IF incomplete[w] \/ gaps \/ \E c \in Candidates : InError(c)
    THEN "partial"
    ELSE "completed"

Conclude(w) ==
    /\ At(w, "company")
    /\ ~MoreCompanies(w)
    /\ verdict' = [verdict EXCEPT ![w] = Outcome(w)]
    /\ Goto(w, "finalize")
    /\ Return(w)
    /\ UNCHANGED <<rowVars, candidateVars, events, deadline, held, aborted,
                   faults>>
-----------------------------------------------------------------------------
(* executeDiscoveryRun: finalization and the error paths.                  *)

\* Mutant: finalize ignores a requested cancellation.
MayEndAnyway(w, st) == Holds(w)

\* lockLiveLease allows a requested cancellation to be finalized as such.
MayEnd(w, st) == Holds(w) /\ (st = "cancelled" \/ ~cancelRequested)

\* finalize: an assessed candidate gets the state of its decision back.
EndRun(w, st) ==
    /\ MayEnd(w, st)
    /\ status' = st
    /\ stage' = "finalization"
    /\ leaseState' = "none"
    /\ cstate' = [c \in Candidates |->
                    IF c \in sealed THEN "assessed" ELSE cstate[c]]
    /\ events' = Event(w, "finalized", {})
    /\ UNCHANGED <<owner, epoch, cancelRequested, checkpoint, gaps, cohort,
                   sealed, systemic, deadline>>

Finalize(w) ==
    /\ pc[w] = "finalize"
    /\ EndRun(w, verdict[w])
    /\ Leave(w)
    /\ UNCHANGED faults

\* The catch block, unless the signal was aborted or a heartbeat failed.
Catch(w, st) ==
    IF aborted[w]
    THEN Leave(w)
    ELSE /\ Goto(w, "catch")
         /\ verdict' = [verdict EXCEPT ![w] = st]
         /\ Return(w)
         /\ UNCHANGED <<held, aborted>>

\* finalize committed, or rolled back, and the worker got an error: the catch
\* block tries again with the outcome it already has.
FinalizeFails(w) ==
    /\ pc[w] = "finalize"
    /\ faults < MaxFaults
    /\ \/ EndRun(w, verdict[w])
       \/ UNCHANGED <<rowVars, candidateVars, events, deadline>>
    /\ Catch(w, verdict[w])
    /\ faults' = faults + 1

CatchFinalize(w) ==
    /\ pc[w] = "catch"
    /\ EndRun(w, verdict[w])
    /\ Leave(w)
    /\ UNCHANGED faults

\* The second finalize fails as well: lease lost, a cancellation that arrived
\* meanwhile, or the database.  The run keeps its status and its lease.
CatchFails(w) ==
    /\ pc[w] = "catch"
    /\ \/ ~MayEnd(w, verdict[w]) /\ UNCHANGED faults
       \/ faults < MaxFaults /\ faults' = faults + 1
    /\ Leave(w)
    /\ UNCHANGED <<rowVars, candidateVars, events, deadline>>

\* The control points where the code looks at the row before it goes on:
\* assertRunnable, or a write inside the fence.
Checks(w) ==
    \/ pc[w] \in {"begin", "discover", "save", "research", "fail", "advance",
                  "finalize"}
    \/ pc[w] = "select" /\ Outdated(local[w])

\* lease_lost ends the execution without a trace.
LeaseLost(w) ==
    /\ Checks(w)
    /\ ~Holds(w)
    /\ Leave(w)
    /\ UNCHANGED <<rowVars, candidateVars, events, deadline, faults>>

\* The worker notices the cancellation.
SeeCancellation(w) ==
    /\ Checks(w)
    /\ cancelRequested
    /\ Catch(w, "cancelled")
    /\ UNCHANGED <<rowVars, candidateVars, events, deadline, faults>>

\* Only assertRunnable looks at the deadline, after the cancellation.
SeeDeadline(w) ==
    /\ pc[w] \in {"begin", "discover", "research", "fail", "advance"}
    /\ deadline
    /\ ~cancelRequested
    /\ Catch(w, "partial")
    /\ UNCHANGED <<rowVars, candidateVars, events, deadline, faults>>

\* reserveAttempt, fenced, refuses to dispatch a provider call: budget_exhausted
\* ends the run as partial; an operation found in progress leaves it alone for
\* the next lease.
OutOfBudget(w) ==
    /\ At(w, "discover") \/ At(w, "research")
    /\ Fenced(w)
    /\ Catch(w, "partial")
    /\ UNCHANGED <<rowVars, candidateVars, events, deadline, faults>>

InProgress(w) ==
    /\ At(w, "discover") \/ At(w, "research")
    /\ Fenced(w)
    /\ faults < MaxFaults
    /\ faults' = faults + 1
    /\ Leave(w)
    /\ UNCHANGED <<rowVars, candidateVars, events, deadline>>

\* Any other error out of executeStages, the database's included.
StageFails(w) ==
    /\ \E p \in StagePcs : At(w, p)
    /\ faults < MaxFaults
    /\ faults' = faults + 1
    /\ Catch(w, "failed")
    /\ UNCHANGED <<rowVars, candidateVars, events, deadline>>

\* A heartbeat fails: the lease is gone, the run is being cancelled, or the
\* database did not answer.  The first one is due 20 s into the execution,
\* when it has long begun, and the catch block no longer looks at it.
HeartbeatFails(w) ==
    /\ pc[w] \notin {"idle", "begin", "catch"}
    /\ ~aborted[w]
    /\ \/ ~Fenced(w) /\ UNCHANGED faults
       \/ faults < MaxFaults /\ faults' = faults + 1
    /\ aborted' = [aborted EXCEPT ![w] = TRUE]
    /\ UNCHANGED <<rowVars, candidateVars, events, deadline, pc, held, local,
                   pool, pending, incomplete, verdict>>

\* The abort surfaces, at the latest when executeStages returns: the worker
\* leaves the run as it is, lease included.
Abort(w) ==
    /\ pc[w] \in StagePcs \ {"save", "select"}
    /\ aborted[w]
    /\ Leave(w)
    /\ UNCHANGED <<rowVars, candidateVars, events, deadline, faults>>
-----------------------------------------------------------------------------
(* The environment: the owner of the run, time, and faults.                *)

\* requestCancel.
RequestCancel ==
    /\ status \in {"queued", "running"}
    /\ cancelRequested' = TRUE
    /\ \/ /\ status = "queued"
          /\ status' = "cancelled"
          /\ stage' = "finalization"
          /\ leaseState' = "none"
          /\ events' = Append(events, [kind |-> "finalized", about |-> {},
                                       epoch |-> epoch])
       \/ /\ status = "running"
          /\ UNCHANGED <<status, stage, leaseState, events>>
    /\ UNCHANGED <<owner, epoch, checkpoint, gaps, candidateVars, deadline,
                   workerVars, faults>>

\* Some worker sends heartbeats for the current lease.
Attended ==
    \E w \in Workers : pc[w] # "idle" /\ held[w] = epoch /\ ~aborted[w]

ExpireLease ==
    /\ leaseState = "live"
    /\ ~Attended
    /\ leaseState' = "expired"
    /\ UNCHANGED <<status, stage, owner, epoch, cancelRequested, checkpoint,
                   gaps, candidateVars, events, deadline, workerVars, faults>>

\* The worker is alive but too slow for its lease.
Stall ==
    /\ leaseState = "live"
    /\ Attended
    /\ faults < MaxFaults
    /\ faults' = faults + 1
    /\ leaseState' = "expired"
    /\ UNCHANGED <<status, stage, owner, epoch, cancelRequested, checkpoint,
                   gaps, candidateVars, events, deadline, workerVars>>

\* The process dies, or is told to stop.
Crash(w) ==
    /\ pc[w] # "idle"
    /\ faults < MaxFaults
    /\ faults' = faults + 1
    /\ Leave(w)
    /\ UNCHANGED <<rowVars, candidateVars, events, deadline>>

PassDeadline ==
    /\ ~deadline
    /\ epoch > 0
    /\ deadline' = TRUE
    /\ UNCHANGED <<rowVars, candidateVars, events, workerVars, faults>>

\* What a worker does when nothing goes wrong around it.
Work(w) ==
    \/ Begin(w) \/ (\E c \in Candidates : Admit(w, c)) \/ CommitCohort(w)
    \/ SaveCohort(w) \/ Select(w) \/ StartCompany(w) \/ CommitAssessment(w)
    \/ FailCandidate(w) \/ Advance(w) \/ Conclude(w) \/ Finalize(w)
    \/ CatchFinalize(w) \/ CatchFails(w) \/ LeaseLost(w)
    \/ SeeCancellation(w) \/ SeeDeadline(w) \/ Abort(w)

Disturb(w) ==
    \/ CommitReplyLost(w) \/ ResearchFails(w) \/ FinalizeFails(w)
    \/ OutOfBudget(w) \/ InProgress(w) \/ StageFails(w) \/ HeartbeatFails(w)
    \/ Crash(w)

Next ==
    \/ \E w \in Workers : Claim(w) \/ Work(w) \/ Disturb(w)
    \/ RequestCancel \/ ExpireLease \/ Stall \/ PassDeadline

Spec == Init /\ [][Next]_vars

\* Workers keep polling and executing, and a lease nobody renews runs out.
Fairness ==
    /\ WF_vars(\E w \in Workers : Claim(w))
    /\ \A w \in Workers : WF_vars(Work(w))
    /\ WF_vars(ExpireLease)

FairSpec == Spec /\ Fairness
-----------------------------------------------------------------------------
(* Properties.                                                             *)

Stages == {"queued", "discovery", "research", "finalization"}
Checkpoints == [stage : Stages, cohort : Seq(Candidates), next : Nat]
Events == [kind : {"cohort", "assessed", "finalized"},
           about : SUBSET Candidates, epoch : Nat]

\* The type invariant; the cohort keeps to its limit and has no company twice.
TypeOK ==
    /\ status \in Statuses
    /\ stage \in Stages
    /\ owner \in Workers \cup {NoWorker}
    /\ epoch \in Nat
    /\ leaseState \in {"none", "live", "expired"}
    /\ cancelRequested \in BOOLEAN /\ gaps \in BOOLEAN /\ deadline \in BOOLEAN
    /\ checkpoint \in Checkpoints
    /\ cohort \in Seq(Candidates) /\ Len(cohort) <= MaxCohort
    /\ \A i, j \in DOMAIN cohort : cohort[i] = cohort[j] => i = j
    /\ cstate \in [Candidates -> CandidateStates]
    /\ sealed \subseteq Candidates /\ systemic \subseteq Candidates
    /\ events \in Seq(Events)
    /\ pc \in [Workers -> Pcs]
    /\ held \in [Workers -> Nat]
    /\ local \in [Workers -> Checkpoints]
    /\ pool \in [Workers -> SUBSET Candidates]
    /\ pending \in [Workers -> SUBSET Candidates]
    /\ incomplete \in [Workers -> BOOLEAN]
    /\ aborted \in [Workers -> BOOLEAN]
    /\ verdict \in [Workers -> Terminal]
    /\ faults \in 0..MaxFaults

\* The fence works: a worker that lost its lease leaves no event behind a
\* later worker's, and nothing is written after the run was finalized
\* (lockLiveLease in every write; the "zombie worker" hazard).
FencedHistory ==
    \A i, j \in DOMAIN events : i < j =>
        /\ events[i].epoch <= events[j].epoch
        /\ events[i].kind # "finalized"

\* A company is past the durable checkpoint only when it is settled in its own
\* row: sealed, or in error.  What a resumed worker skips, nobody has to redo.
Settled(c) == c \in sealed \/ InError(c)
CheckpointHonest ==
    checkpoint.stage = "research" =>
        /\ checkpoint.cohort = cohort
        /\ \A i \in 1..checkpoint.next : i \in DOMAIN cohort /\ Settled(cohort[i])

\* The holder of the lease never pays for a company that is already assessed:
\* "does not replay already committed work" (docs/discovery-campaigns-
\* operations.md), whatever crashed between the seal and the checkpoint.
NoReplay ==
    \A w \in Workers :
        Holds(w) /\ pc[w] = "research" => Current(w) \notin sealed

\* A run is reported as completed only if every selected company has its
\* sealed assessment and no failure was forgotten by a restart (executeStages
\* keeps incomplete in memory only).  However it ends, a company with a sealed
\* assessment is not left in error by a seal whose reply was lost.
CompletedIsComplete ==
    /\ status = "completed" =>
        /\ Elems(cohort) \subseteq sealed
        /\ systemic = {} /\ ~gaps
    /\ status \in Terminal => \A c \in sealed : ~InError(c)

\* Cancellation wins every race: a run that was asked to cancel while it was
\* active ends as cancelled, and no other run does.
CancelWins == status \in Terminal => (status = "cancelled" <=> cancelRequested)

\* The cohort is committed once and no restart changes it.
CohortCommits == {i \in DOMAIN events : events[i].kind = "cohort"}
CohortOnce ==
    [][CohortCommits # {} =>
         /\ cohort' = cohort
         /\ CohortCommits' = CohortCommits]_vars

\* The result of a run that has ended never changes again.
Result == <<rowVars, candidateVars, events>>
ResultIsFinal == [][(status \in Terminal) => Result' = Result]_vars

\* The run keeps the promise of RunContract.
Contract == INSTANCE RunContract
              WITH cancel <- cancelRequested, chosen <- Elems(cohort)
KeepsContract == Contract!Spec

\* Every run ends: whatever crashes, its lease expires and it is reclaimed.
\* With CancelWins, a cancellation is carried out even when the worker that
\* was running left the run to its lease (runner.ts, the aborted signal).
RunEnds == <>(status \in Terminal)
==============================================================================
