---------------------------- MODULE FinancialRun ----------------------------
(***************************************************************************)
(* One request to the financial engine (services/financial-engine/src):    *)
(* the row a surface reserves for its request key, the units it publishes, *)
(* the request handlers that retry it and the supervisors that recover it. *)
(*                                                                         *)
(* Every transaction of the code is one action; between two of them a      *)
(* worker holds only what it read (pc, rid, tok, seen, basis, todo), and   *)
(* that may be stale.  The row lock of fencedTransaction is what makes a   *)
(* fenced transaction one step, and the share locks finalization takes on  *)
(* its evidence are what keeps Withdraw and Erase out of it.               *)
(*                                                                         *)
(* Evidence is a version number: binding reads the newest, and evaluation  *)
(* is a function of what was bound, so the value of a result is the        *)
(* version it was computed from.                                           *)
(***************************************************************************)
EXTENDS Integers, FiniteSets

CONSTANTS Requests,     \* handlers of publishRequest, all in one process
          Supervisors,  \* financial workers (createFinancialWorker)
          Plans,        \* the plans a planning model may come up with
          TooBig,       \* the plans checkPlanLimits refuses
          NumUnits,     \* publication units of the plan
          Corrupt,      \* units whose evaluation is an integrity failure
          Standalone,   \* the parent is not a Discovery run
          Registered,   \* the parent registered a ParentRecovery
          NoPlan, NoOwner,
          MaxEvidence, MaxVersion, MaxRuns, MaxEpoch, MaxFaults  \* bounds

Workers == Requests \cup Supervisors
Units == 1..NumUnits
Evidence == 1..MaxEvidence

ASSUME ConstantsAssumption ==
    /\ Requests \cap Supervisors = {}
    /\ NumUnits \in Nat /\ MaxEvidence \in Nat \ {0}
    /\ MaxVersion \in Nat /\ MaxRuns \in Nat /\ MaxEpoch \in Nat /\ MaxFaults \in Nat
    /\ Corrupt \subseteq Units
    /\ TooBig \subseteq Plans /\ NoPlan \notin Plans
    /\ Standalone \in BOOLEAN /\ Registered \in BOOLEAN
    /\ NoOwner \notin {"request", "supervisor"}

VARIABLES
    runId, state, plan, version, owner, epoch, live, cancel, bound, \* financial_runs
    units, results,   \* financial_run_units; the persisted value of each unit
    published,        \* the rows persistParent wrote
    newest, revoked,  \* evidence: the version a read sees; versions withdrawn
    parent,           \* the parent's version, 0 once it takes no publication
    pc, rid, tok, myPlan, ver, seen, basis, todo,   \* per worker
    faults

rowVars == <<runId, state, plan, version, owner, epoch, live, cancel>>
dataVars == <<bound, units, results, published>>
worldVars == <<newest, revoked, parent>>
localVars == <<rid, tok, myPlan, ver, seen, basis, todo>>
vars == <<rowVars, dataVars, worldVars, pc, localVars, faults>>

Open == {"pending", "running", "ready_to_seal"}
Ended == {"completed", "failed", "cancelled"}
UnitStates == {"none", "pending", "computed", "sealed", "rejected"}
ExecPcs == {"bind", "declare", "check", "ready"}
Pcs == ExecPcs \cup {"idle", "reserve", "recover", "acquire", "list",
                     "finalize", "cancelling", "failing", "release"}

Init ==
    /\ runId = 1 /\ state = "none" /\ plan = NoPlan /\ version = 1
    /\ owner = NoOwner /\ epoch = 0 /\ live = FALSE /\ cancel = FALSE
    /\ bound = 0 /\ published = {}
    /\ units = [u \in Units |-> "none"] /\ results = [u \in Units |-> 0]
    /\ newest = 1 /\ revoked = {} /\ parent = 1
    /\ pc = [w \in Workers |-> "idle"]
    /\ rid = [w \in Workers |-> 0] /\ tok = [w \in Workers |-> 0]
    /\ myPlan = [w \in Workers |-> NoPlan] /\ ver = [w \in Workers |-> 0]
    /\ seen = [w \in Workers |-> "none"] /\ basis = [w \in Workers |-> 0]
    /\ todo = [w \in Workers |-> {}]
    /\ faults = 0

-----------------------------------------------------------------------------
(* The lease (lease.ts).                                                   *)

\* Handlers of one process lease under the same worker_id: only the epoch
\* tells two of them apart.
Name(w) == IF w \in Requests THEN "request" ELSE "supervisor"

SameRun(w) == state # "none" /\ runId = rid[w]

\* Mutant: the worker id is taken for the lease, the epoch is not compared.
OwnsByName(w) == SameRun(w) /\ owner = Name(w) /\ live

\* The row is leased to this very attempt.
Owns(w) == SameRun(w) /\ owner = Name(w) /\ epoch = tok[w] /\ live

\* lockFencedRun with allowCancelRequested, and without.
Held(w) == Owns(w) /\ state \in Open

\* Mutant: every fence lets a requested cancellation through.
FencedDespiteCancel(w) == Held(w)

Fenced(w) == Held(w) /\ ~cancel

Goto(w, p) == pc' = [pc EXCEPT ![w] = p]

Forget(w) ==
    /\ rid' = [rid EXCEPT ![w] = 0] /\ tok' = [tok EXCEPT ![w] = 0]
    /\ myPlan' = [myPlan EXCEPT ![w] = NoPlan] /\ ver' = [ver EXCEPT ![w] = 0]
    /\ seen' = [seen EXCEPT ![w] = "none"] /\ basis' = [basis EXCEPT ![w] = 0]
    /\ todo' = [todo EXCEPT ![w] = {}]

GiveUp(w) == Goto(w, "idle") /\ Forget(w)

\* The drive is over: a handler gives its lease up in a finally block, a
\* supervisor just keeps it.
Leave(w) == IF w \in Requests THEN Goto(w, "release") /\ UNCHANGED localVars
                              ELSE GiveUp(w)

\* transitionRun to a terminal state clears the lease.
EndRun(s) ==
    /\ state' = s /\ owner' = NoOwner /\ live' = FALSE
    /\ UNCHANGED <<runId, plan, version, epoch, cancel>>

\* Mutant: a lease that ran out is never up for taking.
FreeOnlyUnowned == owner = NoOwner

\* Nobody holds the lease, or it has lapsed.
Free == owner = NoOwner \/ ~live

Acquirable(w) ==
    /\ SameRun(w) /\ state \in Open /\ ~cancel /\ Free
    /\ Standalone \/ w \in Requests

\* What driveLeasedRun does first with the row it was given.
Start(s, p) == IF s = "ready_to_seal" THEN "list"
               ELSE IF p \in TooBig THEN "failing" ELSE "bind"

\* A handler drives the row the acquisition returned, a supervisor the row
\* it listed before it had the lease.
Acquire(w) ==
    /\ pc[w] = "acquire"
    /\ IF Acquirable(w)
       THEN LET now == IF state = "pending" THEN "running" ELSE state IN
            /\ epoch < MaxEpoch
            /\ epoch' = epoch + 1 /\ owner' = Name(w) /\ live' = TRUE
            /\ state' = now
            /\ tok' = [tok EXCEPT ![w] = epoch + 1]
            /\ Goto(w, Start(IF w \in Requests THEN now ELSE seen[w], plan))
            /\ UNCHANGED <<runId, plan, version, cancel, rid, myPlan, ver,
                           seen, basis, todo>>
       ELSE GiveUp(w) /\ UNCHANGED rowVars
    /\ UNCHANGED <<dataVars, worldVars, faults>>

Release(w) ==
    /\ pc[w] = "release"
    /\ live' = (live /\ ~Owns(w))
    /\ GiveUp(w)
    /\ UNCHANGED <<runId, state, plan, version, owner, epoch, cancel,
                   dataVars, worldVars, faults>>

-----------------------------------------------------------------------------
(* A request (request.ts, run-repo.ts).                                    *)

\* findPlanForRequest, then a planning call when nothing was reserved.
Lookup(w) ==
    /\ pc[w] = "idle" /\ w \in Requests /\ parent # 0
    /\ myPlan' \in {[myPlan EXCEPT ![w] = p] :
                       p \in IF state = "none" THEN Plans ELSE {plan}}
    /\ ver' = [ver EXCEPT ![w] = parent]
    /\ Goto(w, "reserve")
    /\ UNCHANGED <<rowVars, dataVars, worldVars, rid, tok, seen, basis, todo,
                   faults>>

\* reserveRun: insert the row, or take the one the request key names.
Reserve(w) ==
    /\ pc[w] = "reserve"
    /\ \/ /\ state = "none"
          /\ state' = "pending" /\ plan' = myPlan[w] /\ version' = ver[w]
          /\ rid' = [rid EXCEPT ![w] = runId]
          /\ Goto(w, "acquire")
          /\ UNCHANGED <<runId, owner, epoch, live, cancel, tok, myPlan, ver,
                         seen, basis, todo>>
       \/ /\ state \in Open /\ plan = myPlan[w] /\ version = ver[w]
          /\ rid' = [rid EXCEPT ![w] = runId]
          /\ Goto(w, "acquire")
          /\ UNCHANGED <<rowVars, tok, myPlan, ver, seen, basis, todo>>
       \/ /\ state # "none"
          /\ state \in Ended \/ plan # myPlan[w] \/ version # ver[w]
          /\ GiveUp(w)
          /\ UNCHANGED rowVars
    /\ UNCHANGED <<dataVars, worldVars, faults>>

-----------------------------------------------------------------------------
(* Executing a leased run (execute.ts, bind-inputs.ts, unit-repo.ts,       *)
(* checkpoints.ts).                                                        *)

\* Mutant: a retry selects evidence again.
BindToNewest == newest

\* Persisted bindings are reused; a first attempt reads the newest evidence.
BindTo == IF bound # 0 THEN bound ELSE newest

BindInputs(w) ==
    /\ pc[w] = "bind" /\ Fenced(w)
    /\ bound' = BindTo
    /\ basis' = [basis EXCEPT ![w] = bound']
    /\ Goto(w, "declare")
    /\ UNCHANGED <<rowVars, units, results, published, worldVars, rid, tok,
                   myPlan, ver, seen, todo, faults>>

DeclareUnits(w) ==
    /\ pc[w] = "declare" /\ Fenced(w)
    /\ units' = [u \in Units |-> IF units[u] = "none" THEN "pending" ELSE units[u]]
    /\ todo' = [todo EXCEPT ![w] = Units]
    /\ Goto(w, "check")
    /\ UNCHANGED <<rowVars, bound, results, published, worldVars, rid, tok,
                   myPlan, ver, seen, basis, faults>>

\* The next unit of the list this worker goes through.
IsNext(w, u) == u \in todo[w] /\ \A v \in todo[w] : u <= v

\* A unit that is no longer pending was checkpointed by an earlier attempt.
CheckpointUnit(w) ==
    /\ pc[w] = "check" /\ Fenced(w)
    /\ \E u \in Units :
          /\ IsNext(w, u)
          /\ todo' = [todo EXCEPT ![w] = @ \ {u}]
          /\ IF units[u] = "pending"
             THEN /\ results' = [results EXCEPT ![u] = basis[w]]
                  /\ units' = [units EXCEPT ![u] =
                                 IF u \in Corrupt THEN "rejected" ELSE "computed"]
             ELSE UNCHANGED <<results, units>>
          /\ Goto(w, IF todo[w] = {u} THEN "ready" ELSE "check")
    /\ UNCHANGED <<rowVars, bound, published, worldVars, rid, tok, myPlan, ver,
                   seen, basis, faults>>

ReadyToSeal(w) ==
    /\ pc[w] = "ready" /\ Fenced(w)
    /\ state' = IF state = "running" THEN "ready_to_seal" ELSE state
    /\ Goto(w, "list")
    /\ UNCHANGED <<runId, plan, version, owner, epoch, live, cancel, dataVars,
                   worldVars, localVars, faults>>

\* The fence of executeRun failed: a cancellation is honoured in a
\* transaction of its own, a lost lease writes nothing.
ExecutionFenced(w) ==
    /\ pc[w] \in ExecPcs /\ ~Fenced(w)
    /\ IF Held(w) THEN Goto(w, "cancelling") /\ UNCHANGED localVars
                  ELSE Leave(w)
    /\ UNCHANGED <<rowVars, dataVars, worldVars, faults>>

HonourCancel(w) ==
    /\ pc[w] = "cancelling"
    /\ IF Held(w) THEN EndRun("cancelled") ELSE UNCHANGED rowVars
    /\ Leave(w)
    /\ UNCHANGED <<dataVars, worldVars, faults>>

\* The limits were exceeded, or a defect ended the execution.
FailRun(w) ==
    /\ pc[w] = "failing"
    /\ IF Held(w) THEN EndRun("failed") ELSE UNCHANGED rowVars
    /\ Leave(w)
    /\ UNCHANGED <<dataVars, worldVars, faults>>

-----------------------------------------------------------------------------
(* Publishing the units (publish.ts, finalize.ts).                         *)

\* An unfenced read of the units to finalize.
ListUnits(w) ==
    /\ pc[w] = "list"
    /\ LET computed == IF SameRun(w) THEN {u \in Units : units[u] = "computed"}
                                     ELSE {} IN
       IF computed = {} THEN Leave(w)
       ELSE /\ todo' = [todo EXCEPT ![w] = computed]
            /\ Goto(w, "finalize")
            /\ UNCHANGED <<rid, tok, myPlan, ver, seen, basis>>
    /\ UNCHANGED <<rowVars, dataVars, worldVars, faults>>

\* finalizeUnit gets past its rejections.
Publishable(w, u) ==
    version = ver[w] /\ units[u] = "computed" /\ bound \notin revoked

\* Mutant: only units that were never computed count as open.
NonePending(u) == \A v \in Units \ {u} : units[v] # "pending"

\* No unit but u is open.
NoneOpen(u) == \A v \in Units \ {u} : units[v] \notin {"pending", "computed"}

\* After finalizeUnit returned: the next unit, or the end of the drive.
FinalizeNext(w, u) ==
    IF todo[w] = {u} THEN Leave(w)
    ELSE /\ todo' = [todo EXCEPT ![w] = @ \ {u}]
         /\ UNCHANGED <<pc, rid, tok, myPlan, ver, seen, basis>>

\* The unit is sealed, its results final and the parent's row written in the
\* transaction that completes the run when no unit is left open.
PublishUnit(w, u) ==
    /\ IsNext(w, u) /\ Publishable(w, u)
    /\ units' = [units EXCEPT ![u] = "sealed"]
    /\ published' = published \cup
          {[unit |-> u, value |-> results[u], by |-> tok[w]]}
    /\ IF NoneOpen(u) THEN EndRun("completed") ELSE UNCHANGED rowVars
    /\ FinalizeNext(w, u)

FinalizeUnit(w) ==
    /\ pc[w] = "finalize" /\ Fenced(w) /\ parent # 0
    /\ \E u \in Units : PublishUnit(w, u)
    /\ UNCHANGED <<bound, results, worldVars, faults>>

\* An existing or a rejected unit commits nothing, and the drive goes on.
SkipUnit(w) ==
    /\ pc[w] = "finalize" /\ Fenced(w)
    /\ \E u \in Units : IsNext(w, u) /\ ~Publishable(w, u) /\ FinalizeNext(w, u)
    /\ UNCHANGED <<rowVars, dataVars, worldVars, faults>>

\* The fence failed, or the parent refused: the transaction rolls back and
\* the drive stops.
FinalizationStops(w) ==
    /\ pc[w] = "finalize"
    /\ ~Fenced(w) \/ parent = 0
    /\ Fenced(w) => \E u \in Units : IsNext(w, u) /\ Publishable(w, u)
    /\ Leave(w)
    /\ UNCHANGED <<rowVars, dataVars, worldVars, faults>>

-----------------------------------------------------------------------------
(* Cancellation and recovery (run-repo.ts, recovery.ts, worker.ts).        *)

\* requestCancellation: without a live lease the run ends at once.
AskCancel ==
    /\ cancel' = TRUE
    /\ IF Free THEN state' = "cancelled" /\ owner' = NoOwner /\ live' = FALSE
               ELSE UNCHANGED <<state, owner, live>>
    /\ UNCHANGED <<runId, plan, version, epoch>>

OwnerCancels ==
    /\ state \in Open
    /\ AskCancel
    /\ UNCHANGED <<dataVars, worldVars, pc, localVars, faults>>

\* Mutant: runs with a pending cancellation are left to their holder.
RecoverableUncancelled ==
    Standalone /\ state \in Open /\ Free /\ ~cancel /\ Registered

\* listRecoverableRuns reads without a lock.
Recoverable == Standalone /\ state \in Open /\ Free /\ (cancel \/ Registered)

ListRecoverable(w) ==
    /\ pc[w] = "idle" /\ w \in Supervisors /\ Recoverable
    /\ rid' = [rid EXCEPT ![w] = runId]
    /\ seen' = [seen EXCEPT ![w] = IF cancel THEN "cancelled" ELSE state]
    /\ Goto(w, "recover")
    /\ UNCHANGED <<rowVars, dataVars, worldVars, tok, myPlan, ver, basis, todo,
                   faults>>

\* recoverRun up to the lease: a run listed with a cancellation is cancelled,
\* a parent that withdrew is skipped.
Recover(w) ==
    /\ pc[w] = "recover"
    /\ \/ /\ seen[w] = "cancelled"
          /\ IF SameRun(w) /\ state \in Open THEN AskCancel ELSE UNCHANGED rowVars
          /\ GiveUp(w)
       \/ /\ seen[w] # "cancelled" /\ parent = 0
          /\ GiveUp(w) /\ UNCHANGED rowVars
       \/ /\ seen[w] # "cancelled" /\ parent # 0
          /\ ver' = [ver EXCEPT ![w] = parent]
          /\ Goto(w, "acquire")
          /\ UNCHANGED <<rowVars, rid, tok, myPlan, seen, basis, todo>>
    /\ UNCHANGED <<dataVars, worldVars, faults>>

-----------------------------------------------------------------------------
(* The world: time, faults, evidence and the parent.                       *)

Attended == \E w \in Workers : pc[w] # "idle" /\ Held(w)

\* An attended lease lapses only when its holder is slower than the TTL.
LeaseExpires ==
    /\ live
    /\ IF Attended THEN faults < MaxFaults /\ faults' = faults + 1
                   ELSE UNCHANGED faults
    /\ live' = FALSE
    /\ UNCHANGED <<runId, state, plan, version, owner, epoch, cancel, dataVars,
                   worldVars, pc, localVars>>

\* The process dies, or its connection does: no finally block reaches the row.
Crash(w) ==
    /\ pc[w] # "idle" /\ faults < MaxFaults
    /\ faults' = faults + 1
    /\ GiveUp(w)
    /\ UNCHANGED <<rowVars, dataVars, worldVars>>

\* A transient database fault rolls the transaction back and ends the drive;
\* a defect of the execution fails the run.
Fault(w) ==
    /\ pc[w] \in ExecPcs \cup {"list", "finalize"} /\ faults < MaxFaults
    /\ faults' = faults + 1
    /\ \/ Leave(w)
       \/ pc[w] \in ExecPcs /\ Goto(w, "failing") /\ UNCHANGED localVars
    /\ UNCHANGED <<rowVars, dataVars, worldVars>>

\* A new filing or correction changes what a read sees.
EvidenceArrives ==
    /\ newest < MaxEvidence
    /\ newest' = newest + 1
    /\ UNCHANGED <<rowVars, dataVars, revoked, parent, pc, localVars, faults>>

\* The fact of version e is invalidated or its source changes owner; a read
\* after that sees a version without it.
Revoked(e) ==
    /\ revoked' = revoked \cup {e}
    /\ newest' = IF e = newest THEN newest + 1 ELSE newest
    /\ newest' \in Evidence

Withdraw ==
    /\ \E e \in 1..newest : Revoked(e)
    /\ UNCHANGED <<rowVars, dataVars, parent, pc, localVars, faults>>

\* The memo, thesis or thread moves on and refuses what was computed for it,
\* or is edited under a new version.
ParentChanges ==
    /\ parent # 0
    /\ parent' = 0 \/ (parent < MaxVersion /\ parent' = parent + 1)
    /\ UNCHANGED <<rowVars, dataVars, newest, revoked, pc, localVars, faults>>

\* Deleting the parent, or evidence the run bound, erases the run with all it
\* published; a later request reserves a new row.
Erase ==
    /\ state # "none" /\ runId < MaxRuns
    /\ \/ parent' = 0 /\ UNCHANGED <<revoked, newest>>
       \/ bound # 0 /\ Revoked(bound) /\ UNCHANGED parent
    /\ runId' = runId + 1 /\ state' = "none" /\ plan' = NoPlan /\ version' = 1
    /\ owner' = NoOwner /\ epoch' = 0 /\ live' = FALSE /\ cancel' = FALSE
    /\ bound' = 0 /\ published' = {}
    /\ units' = [u \in Units |-> "none"] /\ results' = [u \in Units |-> 0]
    /\ UNCHANGED <<pc, localVars, faults>>

-----------------------------------------------------------------------------
WorkerStep(w) ==
    \/ Lookup(w) \/ Reserve(w) \/ Acquire(w) \/ Release(w)
    \/ BindInputs(w) \/ DeclareUnits(w) \/ CheckpointUnit(w) \/ ReadyToSeal(w)
    \/ ExecutionFenced(w) \/ HonourCancel(w) \/ FailRun(w)
    \/ ListUnits(w) \/ FinalizeUnit(w) \/ SkipUnit(w) \/ FinalizationStops(w)
    \/ ListRecoverable(w) \/ Recover(w)

WorldStep ==
    \/ OwnerCancels \/ LeaseExpires \/ EvidenceArrives \/ Withdraw
    \/ ParentChanges \/ Erase

Next ==
    \/ \E w \in Workers : WorkerStep(w) \/ Crash(w) \/ Fault(w)
    \/ WorldStep

Spec == Init /\ [][Next]_vars

\* Workers take their next step, supervisors tick, a lease nobody attends
\* runs out.  Nobody is bound to retry a request, cancel, fail or edit.
Fairness ==
    /\ \A w \in Workers : WF_vars(WorkerStep(w) /\ ~Lookup(w))
    /\ WF_vars(LeaseExpires /\ ~Attended)

FairSpec == Spec /\ Fairness

-----------------------------------------------------------------------------
(* Properties.                                                             *)

TypeOK ==
    /\ runId \in Nat \ {0} /\ state \in Open \cup Ended \cup {"none"}
    /\ plan \in Plans \cup {NoPlan} /\ version \in Nat
    /\ owner \in {NoOwner, "request", "supervisor"} /\ epoch \in 0..MaxEpoch
    /\ live \in BOOLEAN /\ cancel \in BOOLEAN
    /\ bound \in Evidence \cup {0}
    /\ units \in [Units -> UnitStates] /\ results \in [Units -> Nat]
    /\ published \subseteq [unit : Units, value : Nat, by : 0..MaxEpoch]
    /\ newest \in Evidence /\ revoked \subseteq Evidence /\ parent \in Nat
    /\ pc \in [Workers -> Pcs]
    /\ rid \in [Workers -> Nat] /\ tok \in [Workers -> 0..MaxEpoch]
    /\ myPlan \in [Workers -> Plans \cup {NoPlan}] /\ ver \in [Workers -> Nat]
    /\ seen \in [Workers -> Open \cup {"none", "cancelled"}]
    /\ basis \in [Workers -> Nat] /\ todo \in [Workers -> SUBSET Units]
    /\ faults \in Nat

\* Whatever crashed, stalled, retried or raced, everything a run computed or
\* published comes from the one evidence version it bound first, and so does
\* what its current holder still has in memory (bind-inputs.ts "retry reuses
\* the persisted bindings").
OneEvidence ==
    /\ \A u \in Units : results[u] \in {0, bound}
    /\ \A p \in published : p.value = bound /\ bound # 0
    /\ \A w \in Workers :
          Held(w) /\ pc[w] \in {"declare", "check"} => basis[w] = bound

\* A unit is sealed exactly when the parent holds its publication, a run is
\* completed only when every unit was sealed or rejected and at least one
\* was sealed, and it is never sealed without being computed
\* (finalize.ts "commit; any failure rolls every step back").
CompletedIsPublished ==
    /\ \A u \in Units : units[u] = "sealed" <=> \E p \in published : p.unit = u
    /\ state = "completed" =>
          /\ published # {}
          /\ \A u \in Units : units[u] \in {"sealed", "rejected"}

\* The run keeps the engine's promise: published once, from one evidence
\* version that still stands, never after a cancellation, and ended once.
Contract == INSTANCE PublicationContract WITH
    phase <- IF state \in Open THEN "open" ELSE state,
    basis <- bound,
    cancelling <- cancel,
    withdrawn <- revoked,
    Attempts <- 0..MaxEpoch

KeepsContract == Contract!Spec

\* An attempt whose lease was superseded, or whose run was erased and reserved
\* again, changes nothing any more, even when the attempt that superseded it
\* runs in the same process under the same worker id (lease.ts "a worker whose
\* lease expired, was superseded, or whose run was cancelled can never write").
Superseded(w) == tok[w] # 0 /\ (rid[w] # runId \/ tok[w] < epoch)

SupersededWritesNothing ==
    [][\A w \in Workers :
         Superseded(w) /\ <<pc[w], todo[w]>>' # <<pc[w], todo[w]>>
         => UNCHANGED <<rowVars, dataVars>>]_vars

\* A cancellation of a run outside Discovery ends the run, whoever held it,
\* died or was retried meanwhile.
CancelEnds == cancel /\ Standalone ~> state \notin Open

\* The supervisors finish every run they may resume: it stays open only when
\* no unit is left that could be published.
Stuck ==
    \/ parent # version \/ bound \in revoked
    \/ \A u \in Units : units[u] = "rejected"
    \/ epoch = MaxEpoch

RunEnds ==
    Standalone /\ Registered /\ state \in Open ~> state \notin Open \/ Stuck
=============================================================================
