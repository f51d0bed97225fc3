-------------------------- MODULE DiscoveryAttempts --------------------------
(***************************************************************************)
(* The attempt ledger of a discovery run: every call of a language model   *)
(* is reserved in discovery_attempts, charged to the run's budget, made,   *)
(* and settled (services/discovery/src/attempt-repo.ts, operations.ts,     *)
(* model.ts, assessment.ts, scout.ts; services/llm/src/router.ts).         *)
(*                                                                         *)
(* A transaction is one action.  A worker walks through Scout's batches,   *)
(* commits the cohort, and asks two roles about every company; the calls   *)
(* themselves happen between two transactions, outside any lock.  What a   *)
(* worker reads between two of its own transactions and only it can write  *)
(* is taken with the later one.  DiscoveryRun models the rest of the run.  *)
(***************************************************************************)
EXTENDS Integers, Sequences, FiniteSets

CONSTANTS Workers,
          NoWorker,     \* reserved_worker_id of a row that is not there
          Companies,
          ScoutOps,     \* the operation keys of Scout's batches (at most 4)
          MaxCohort,    \* size limit of the cohort (25)
          Limit,        \* limits.attempts.model (64)
          MaxFaults     \* bound on crashes, stalls and lost database replies

Roles == {"analyst", "skeptic"}
RoleOps == Companies \X Roles
Ops == ScoutOps \cup RoleOps
Tries == {1, 2}
NoOp == <<>>

ASSUME NoWorkerAssumption == NoWorker \notin Workers
ASSUME ScoutAssumption == IsFiniteSet(ScoutOps) /\ ScoutOps \cap RoleOps = {}
ASSUME MaxCohortAssumption == MaxCohort \in Nat
ASSUME MaxFaultsAssumption == MaxFaults \in Nat
\* policy.ts: 2 * 4 calls of Scout and 2 * 25 roles fit into 64 calls.
ASSUME LimitAssumption ==
    Limit \in Nat /\ 2 * Cardinality(ScoutOps) + 2 * MaxCohort <= Limit

VARIABLES
    epoch, lease, cancelled,      \* the row of the run
    used,                         \* usage.model
    committed, cohort,            \* the selected companies, once committed
    validated,                    \* roles with a validated output saved
    assessed, failed,             \* companies sealed, and in research_error
    ledger,                       \* discovery_attempts: operation, attempt number
    calls,                        \* history: calls that reached the provider
    pc, held, asked,              \* workers: control, epoch, Scout batches done
    op, index, try, repair,       \* the operation being asked, see below
    faults

runVars == <<epoch, lease, cancelled>>
companyVars == <<committed, cohort, validated, assessed, failed>>
opVars == <<op, index, try, repair>>
workerVars == <<pc, held, asked, opVars>>
vars == <<runVars, used, companyVars, ledger, calls, workerVars, faults>>

\* A recorded success carries the response: it passes the role's validation, or
\* it does not.
Answers == {"valid", "invalid"}
Outcomes == {"none", "reserved", "error", "unknown"} \cup Answers
NoRow == [outcome |-> "none", worker |-> NoWorker, epoch |-> 0]
Elems(s) == {s[i] : i \in DOMAIN s}

\* dispatch: reserved, and the provider not called yet.  call: the call is in
\* flight.  answer: the response is here.  end: about to finalize the run.
Pcs == {"idle", "scout", "next", "ask", "dispatch", "call", "answer", "fail",
        "end"}

Init ==
    /\ epoch = 0 /\ lease = "none" /\ cancelled = FALSE
    /\ used = 0
    /\ committed = FALSE /\ cohort = <<>>
    /\ validated = {} /\ assessed = {} /\ failed = {}
    /\ ledger = [o \in Ops |-> [n \in Tries |-> NoRow]]
    /\ calls = [o \in Ops |-> [n \in Tries |-> 0]]
    /\ pc = [w \in Workers |-> "idle"]
    /\ held = [w \in Workers |-> 0]
    /\ asked = [w \in Workers |-> {}]
    /\ op = [w \in Workers |-> NoOp]
    /\ index = [w \in Workers |-> 0]
    /\ try = [w \in Workers |-> 1]
    /\ repair = [w \in Workers |-> FALSE]
    /\ faults = 0

-----------------------------------------------------------------------------
(* The lease.                                                              *)

\* Mutant: the lease is live, whoever holds it.
HoldsAnyLease(w) == lease = "live"

\* lockLiveLease with allowCancelled, as finishAttempt uses it.
Holds(w) == lease = "live" /\ held[w] = epoch

\* lockLiveLease in every other transaction.
Fenced(w) == Holds(w) /\ ~cancelled

Goto(w, p) == pc' = [pc EXCEPT ![w] = p]

\* The operation is over: nothing of it is remembered.
Forget(w) ==
    /\ op' = [op EXCEPT ![w] = NoOp]
    /\ index' = [index EXCEPT ![w] = 0]
    /\ try' = [try EXCEPT ![w] = 1]
    /\ repair' = [repair EXCEPT ![w] = FALSE]

\* Ask provider attempt n of operation o at router index i.
Ask(w, o, i, n, again) ==
    /\ Goto(w, "ask")
    /\ op' = [op EXCEPT ![w] = o]
    /\ index' = [index EXCEPT ![w] = i]
    /\ try' = [try EXCEPT ![w] = n]
    /\ repair' = [repair EXCEPT ![w] = again]

\* The worker has forgotten the run.
Leave(w) ==
    /\ Goto(w, "idle")
    /\ held' = [held EXCEPT ![w] = 0]
    /\ asked' = [asked EXCEPT ![w] = {}]
    /\ Forget(w)

\* claimNextRun; the stage of the row decides where the worker begins.
Claim(w) ==
    /\ pc[w] = "idle"
    /\ epoch = 0 \/ lease = "expired"
    /\ epoch' = epoch + 1
    /\ lease' = "live"
    /\ held' = [held EXCEPT ![w] = epoch + 1]
    /\ Goto(w, IF committed THEN "next" ELSE "scout")
    /\ UNCHANGED <<cancelled, used, companyVars, ledger, calls, asked, opVars,
                   faults>>
-----------------------------------------------------------------------------
(* reserveAttempt and finishAttempt.                                       *)

Row(w) == ledger[op[w]][try[w]]
Rows == {r \in Ops \X Tries : ledger[r[1]][r[2]].outcome # "none"}

\* The initial calls that are still owed to the selected companies.
Unheard ==
    {r \in RoleOps : /\ r[1] \in Elems(cohort) \ failed
                     /\ ledger[r][1].outcome = "none"}

\* Mutants: the last call is refused or granted wrongly; repairs and second
\* attempts may take what is reserved for the first ones.
AffordableOneMore(o, n) == used <= Limit
AffordableAnyway(o, n) ==
    /\ used < Limit
    /\ n = 1 => used + Cardinality(Unheard \ {o}) < Limit

\* reserveRunBudget and enforceModelReservationFloor: a first attempt is one of
\* those owed, a second one (fallback or repair) must leave room for all of them.
Affordable(o, n) ==
    /\ used < Limit
    /\ used + 1 + Cardinality(IF n = 1 THEN Unheard \ {o} ELSE Unheard) <= Limit

\* Mutant: the same worker under a new epoch is taken for the same execution.
StaleByWorker(w) == Row(w).worker # w

\* reservationIsStale.
Stale(w) == Row(w).worker # w \/ Row(w).epoch # held[w]

\* Who made a reservation is never read once it is settled.
Settle(o, n, outcome) ==
    ledger' = [ledger EXCEPT ![o][n] = [NoRow EXCEPT !.outcome = outcome]]

\* The operation throws budget_exhausted: Scout stops asking, a company's
\* operation stops the run.
Exhausted(w) ==
    /\ IF op[w] \in ScoutOps
       THEN /\ asked' = [asked EXCEPT ![w] = ScoutOps]
            /\ Goto(w, "scout")
       ELSE /\ Goto(w, "end")
            /\ UNCHANGED asked
    /\ Forget(w)

\* It throws any error that is not a DiscoveryError: Scout notes a gap and goes
\* on to the next batch, the company fails.
OpFails(w) ==
    /\ IF op[w] \in ScoutOps
       THEN /\ asked' = [asked EXCEPT ![w] = @ \cup {op[w]}]
            /\ Goto(w, "scout")
       ELSE /\ Goto(w, "fail")
            /\ UNCHANGED asked
    /\ Forget(w)

\* It throws request_conflict: Scout's ends the run, the company fails.
Conflicts(w) ==
    /\ Goto(w, IF op[w] \in ScoutOps THEN "end" ELSE "fail")
    /\ UNCHANGED asked
    /\ Forget(w)

\* Mutant: an attempt with an unknown outcome is made again.
FreeAgain(w) == Row(w).outcome \in {"none", "unknown"}

\* There is no row of this number yet.
Free(w) == Row(w).outcome = "none"

\* Reserve and charge in one transaction.
ReserveNew(w) ==
    /\ pc[w] = "ask"
    /\ Fenced(w)
    /\ Free(w)
    /\ Affordable(op[w], try[w])
    /\ ledger' = [ledger EXCEPT ![op[w]][try[w]] =
                    [outcome |-> "reserved", worker |-> w, epoch |-> held[w]]]
    /\ used' = used + 1
    /\ Goto(w, "dispatch")
    /\ UNCHANGED <<runVars, companyVars, calls, held, asked, opVars, faults>>

RefuseNew(w) ==
    /\ pc[w] = "ask"
    /\ Fenced(w)
    /\ Free(w)
    /\ ~Affordable(op[w], try[w])
    /\ Exhausted(w)
    /\ UNCHANGED <<runVars, used, companyVars, ledger, calls, held, faults>>

\* Mutant: a recorded success is forgotten.
CachedInvalid(w) == Row(w).outcome = "invalid"

\* The ledger has the response.
Cached(w) == Row(w).outcome \in Answers

UseCached(w) ==
    /\ pc[w] = "ask"
    /\ Fenced(w)
    /\ Cached(w)
    /\ Goto(w, "answer")
    /\ UNCHANGED <<runVars, used, companyVars, ledger, calls, held, asked,
                   opVars, faults>>

\* A spent attempt is not made again; the reservation of a lost lease becomes
\* "unknown".  The first provider attempt goes on with the second number.  (A
\* reservation that is not stale, operation_in_progress, is never found:
\* NeverInProgress.)
Spent(w) ==
    /\ pc[w] = "ask"
    /\ Fenced(w)
    /\ ~Free(w) /\ ~Cached(w)
    /\ IF Row(w).outcome = "reserved"
       THEN Stale(w) /\ Settle(op[w], try[w], "unknown")
       ELSE UNCHANGED ledger
    /\ IF index[w] = 0 /\ try[w] = 1
       THEN Ask(w, op[w], 0, 2, repair[w]) /\ UNCHANGED asked
       ELSE Exhausted(w)
    /\ UNCHANGED <<runVars, used, companyVars, calls, held, faults>>

\* The provider is called; nothing looks at the lease here.
Dispatch(w) ==
    /\ pc[w] = "dispatch"
    /\ calls' = [calls EXCEPT ![op[w]][try[w]] = @ + 1]
    /\ Goto(w, "call")
    /\ UNCHANGED <<runVars, used, companyVars, ledger, held, asked, opVars,
                   faults>>

\* The run's time limit cannot be read before the call (signalForAttempt): the
\* reservation stays although no call was made.
DispatchFails(w) ==
    /\ pc[w] = "dispatch"
    /\ faults < MaxFaults
    /\ faults' = faults + 1
    /\ OpFails(w)
    /\ UNCHANGED <<runVars, used, companyVars, ledger, calls, held>>

\* finishAttempt updates a row that is still reserved; the holder's always is.
Finishes(w) == pc[w] = "call" /\ Holds(w) /\ Row(w).outcome = "reserved"

Answer(w) ==
    /\ Finishes(w)
    /\ \E a \in Answers : Settle(op[w], try[w], a)
    /\ Goto(w, "answer")
    /\ UNCHANGED <<runVars, used, companyVars, calls, held, asked, opVars,
                   faults>>

\* The call failed or timed out.  The router tries the next deployment, if there
\* is one and index 1 is not yet used, or gives up.
CallFails(w) ==
    /\ Finishes(w)
    /\ Settle(op[w], try[w], "error")
    /\ \/ index[w] = 0 /\ Ask(w, op[w], 1, 2, repair[w]) /\ UNCHANGED asked
       \/ OpFails(w)
    /\ UNCHANGED <<runVars, used, companyVars, calls, held, faults>>

\* The database fails in finishAttempt.  Either the answer is recorded, the
\* reply is lost and recording the error conflicts; or neither is recorded.
FinishFails(w) ==
    /\ Finishes(w)
    /\ faults < MaxFaults
    /\ faults' = faults + 1
    /\ \/ (\E a \in Answers : Settle(op[w], try[w], a)) /\ Conflicts(w)
       \/ UNCHANGED ledger /\ OpFails(w)
    /\ UNCHANGED <<runVars, used, companyVars, calls, held>>
-----------------------------------------------------------------------------
(* Scout and the company loop.                                             *)

AskScout(w) ==
    /\ pc[w] = "scout"
    /\ \E o \in ScoutOps \ asked[w] : Ask(w, o, 0, 1, FALSE)
    /\ UNCHANGED <<runVars, used, companyVars, ledger, calls, held, asked,
                   faults>>

\* An unusable selection is a gap as well.
AcceptScout(w) ==
    /\ pc[w] = "answer"
    /\ op[w] \in ScoutOps
    /\ asked' = [asked EXCEPT ![w] = @ \cup {op[w]}]
    /\ Goto(w, "scout")
    /\ Forget(w)
    /\ UNCHANGED <<runVars, used, companyVars, ledger, calls, held, faults>>

\* What chooseResearchCohort may return.
Cohorts == {s \in UNION {[1..n -> Companies] : n \in 0..MaxCohort} :
              \A i, j \in DOMAIN s : s[i] = s[j] => i = j}

\* How many batches there are depends on the hits, so Scout may stop any time.
CommitCohort(w) ==
    /\ pc[w] = "scout"
    /\ Fenced(w)
    /\ cohort' \in Cohorts
    /\ committed' = TRUE
    /\ Goto(w, "next")
    /\ asked' = [asked EXCEPT ![w] = {}]
    /\ UNCHANGED <<runVars, used, validated, assessed, failed, ledger, calls,
                   held, opVars, faults>>

\* The company the loop has come to.
Pending(i) == cohort[i] \notin assessed \cup failed
Upcoming == {i \in DOMAIN cohort : Pending(i) /\ \A j \in 1..(i - 1) : ~Pending(j)}

\* resolveRole: the next role without a validated output, Analyst first.
AskRole(w) ==
    /\ pc[w] = "next"
    /\ Fenced(w)
    /\ \E i \in Upcoming, role \in Roles :
         /\ <<cohort[i], role>> \notin validated
         /\ role = "skeptic" => <<cohort[i], "analyst">> \in validated
         /\ Ask(w, <<cohort[i], role>>, 0, 1, FALSE)
    /\ UNCHANGED <<runVars, used, companyVars, ledger, calls, held, asked,
                   faults>>

\* completeRole validated the response, and its checkpoint is saved.
AcceptRole(w) ==
    /\ pc[w] = "answer"
    /\ op[w] \in RoleOps
    /\ Row(w).outcome = "valid"
    /\ Fenced(w)
    /\ validated' = validated \cup {op[w]}
    /\ Goto(w, "next")
    /\ Forget(w)
    /\ UNCHANGED <<runVars, used, committed, cohort, assessed, failed, ledger,
                   calls, held, asked, faults>>

\* An invalid response is repaired once, as attempt 2 of the same operation.
Repair(w) ==
    /\ pc[w] = "answer"
    /\ op[w] \in RoleOps
    /\ Row(w).outcome = "invalid"
    /\ \/ ~repair[w] /\ Ask(w, op[w], 1, 2, TRUE)
       \/ repair[w] /\ Goto(w, "fail") /\ Forget(w)
    /\ UNCHANGED <<runVars, used, companyVars, ledger, calls, held, asked,
                   faults>>

Assess(w) ==
    /\ pc[w] = "next"
    /\ Fenced(w)
    /\ \E i \in Upcoming :
         /\ {cohort[i]} \X Roles \subseteq validated
         /\ assessed' = assessed \cup {cohort[i]}
    /\ UNCHANGED <<runVars, used, committed, cohort, validated, failed, ledger,
                   calls, workerVars, faults>>

\* Evidence, quotes, visibility or the seal: anything else about the company.
ResearchFails(w) ==
    /\ \/ pc[w] = "next" /\ Upcoming # {}
       \/ pc[w] = "answer" /\ op[w] \in RoleOps /\ Row(w).outcome = "valid"
    /\ Goto(w, "fail")
    /\ Forget(w)
    /\ UNCHANGED <<runVars, used, companyVars, ledger, calls, held, asked,
                   faults>>

\* failCandidate: what was reserved for the company is free again.
FailCompany(w) ==
    /\ pc[w] = "fail"
    /\ Fenced(w)
    /\ \E i \in Upcoming : failed' = failed \cup {cohort[i]}
    /\ Goto(w, "next")
    /\ UNCHANGED <<runVars, used, committed, cohort, validated, assessed,
                   ledger, calls, held, asked, opVars, faults>>

Conclude(w) ==
    /\ pc[w] = "next"
    /\ Upcoming = {}
    /\ Goto(w, "end")
    /\ UNCHANGED <<runVars, used, companyVars, ledger, calls, held, asked,
                   opVars, faults>>

\* finalize.
End(w) ==
    /\ pc[w] = "end"
    /\ Holds(w)
    /\ lease' = "none"
    /\ Leave(w)
    /\ UNCHANGED <<epoch, cancelled, used, companyVars, ledger, calls, faults>>

\* Every transaction but the dispatch looks at the lease first.
LeaseLost(w) ==
    /\ pc[w] \notin {"idle", "dispatch"}
    /\ ~Holds(w)
    /\ Leave(w)
    /\ UNCHANGED <<runVars, used, companyVars, ledger, calls, faults>>

\* A cancellation or the run's deadline, noticed wherever the code looks at the
\* row (the deadline itself is DiscoveryRun's).
StopEarly(w) ==
    /\ pc[w] \in {"scout", "next", "ask", "answer", "fail"}
    /\ Holds(w)
    /\ Goto(w, "end")
    /\ asked' = [asked EXCEPT ![w] = {}]
    /\ Forget(w)
    /\ UNCHANGED <<runVars, used, companyVars, ledger, calls, held, faults>>
-----------------------------------------------------------------------------
(* The environment.                                                        *)

RequestCancel ==
    /\ lease \in {"live", "expired"}
    /\ cancelled' = TRUE
    /\ UNCHANGED <<epoch, lease, used, companyVars, ledger, calls, workerVars,
                   faults>>

\* A lease somebody renews expires only by a fault.
ExpireLease ==
    /\ lease = "live"
    /\ IF \E w \in Workers : pc[w] # "idle" /\ held[w] = epoch
       THEN faults < MaxFaults /\ faults' = faults + 1
       ELSE UNCHANGED faults
    /\ lease' = "expired"
    /\ UNCHANGED <<epoch, cancelled, used, companyVars, ledger, calls,
                   workerVars>>

\* The process dies, or a failed heartbeat aborts the execution.
Crash(w) ==
    /\ pc[w] # "idle"
    /\ faults < MaxFaults
    /\ faults' = faults + 1
    /\ Leave(w)
    /\ UNCHANGED <<runVars, used, companyVars, ledger, calls>>

Step(w) ==
    \/ Claim(w) \/ ReserveNew(w) \/ RefuseNew(w) \/ UseCached(w) \/ Spent(w)
    \/ Dispatch(w) \/ DispatchFails(w) \/ Answer(w) \/ CallFails(w)
    \/ FinishFails(w) \/ AskScout(w) \/ AcceptScout(w) \/ CommitCohort(w)
    \/ AskRole(w) \/ AcceptRole(w) \/ Repair(w) \/ Assess(w)
    \/ ResearchFails(w) \/ FailCompany(w) \/ Conclude(w) \/ End(w)
    \/ LeaseLost(w) \/ StopEarly(w) \/ Crash(w)

Next == (\E w \in Workers : Step(w)) \/ RequestCancel \/ ExpireLease

Spec == Init /\ [][Next]_vars
-----------------------------------------------------------------------------
(* Properties.                                                             *)

\* The type invariant; the cohort keeps to its limit and has no company twice.
TypeOK ==
    /\ epoch \in Nat
    /\ lease \in {"none", "live", "expired"}
    /\ cancelled \in BOOLEAN /\ committed \in BOOLEAN
    /\ used \in Nat
    /\ cohort \in Seq(Companies) /\ Len(cohort) <= MaxCohort
    /\ \A i, j \in DOMAIN cohort : cohort[i] = cohort[j] => i = j
    /\ validated \subseteq RoleOps
    /\ assessed \subseteq Companies /\ failed \subseteq Companies
    /\ ledger \in [Ops -> [Tries -> [outcome : Outcomes,
                                     worker : Workers \cup {NoWorker},
                                     epoch : Nat]]]
    /\ calls \in [Ops -> [Tries -> Nat]]
    /\ pc \in [Workers -> Pcs]
    /\ held \in [Workers -> Nat]
    /\ asked \in [Workers -> SUBSET ScoutOps]
    /\ op \in [Workers -> Ops \cup {NoOp}]
    /\ index \in [Workers -> {0, 1}]
    /\ try \in [Workers -> Tries]
    /\ repair \in [Workers -> BOOLEAN]
    /\ faults \in 0..MaxFaults

\* A reservation pays for at most one call of the provider, and no call is made
\* without one, whoever crashed or lost the lease in between: an operation costs
\* two calls at most ("unknown: treat it as charged", docs/discovery-campaigns-
\* operations.md).
OneCallPerRow ==
    \A o \in Ops, n \in Tries :
        calls[o][n] <= (IF <<o, n>> \in Rows THEN 1 ELSE 0)

\* The usage of the run is the number of its reservations, and never more than
\* its limit (reserveRunBudget).
UsageCounted == used = Cardinality(Rows) /\ used <= Limit

\* A response that passed validation is never paid for a second time: not by the
\* router, a repair, a restart or a second worker (completeRole, cached results).
ValidEndsOp ==
    \A o \in Ops : ledger[o][1].outcome = "valid" => ledger[o][2].outcome = "none"

\* The floor works: a selected company's initial call is never refused, however
\* many calls failed or were repaired before it.
InitialNeverRefused ==
    \A w \in Workers :
        /\ pc[w] = "ask" /\ Fenced(w)
        /\ op[w] \in RoleOps /\ try[w] = 1 /\ Row(w).outcome = "none"
        => Affordable(op[w], 1)

\* The holder of the lease never meets a reservation of its own: the run cannot
\* be left behind again and again with operation_in_progress.
NeverInProgress ==
    \A w \in Workers :
        ~(pc[w] = "ask" /\ Fenced(w) /\ Row(w).outcome = "reserved" /\ ~Stale(w))

\* A row is settled once, and with an outcome only under the lease that made
\* the reservation: a late answer of a worker that was replaced is dropped.
SettledOnce ==
    [][\A o \in Ops, n \in Tries :
         ledger'[o][n] # ledger[o][n] =>
            \/ ledger[o][n].outcome = "none"
            \/ /\ ledger[o][n].outcome = "reserved"
               /\ \/ ledger'[o][n].outcome = "unknown"
                  \/ ledger[o][n].epoch = epoch /\ lease = "live"]_vars

Entries == [o \in Ops |-> [n \in Tries |-> ledger[o][n].outcome]]

\* The budget is spent as promised, whoever crashed, stalled or was replaced:
\* charged before the call, once per call, and never what is owed to others.
Contract == INSTANCE SpendingContract WITH
    spent <- used, owed <- Unheard, entry <- Entries

KeepsContract == Contract!Spec
==============================================================================
