---------------------- MODULE DiscoveryAttempts_proofs ----------------------
(***************************************************************************)
(* Proofs about DiscoveryAttempts, for any number of workers, companies,   *)
(* Scout operations and faults, and any limit that satisfies the           *)
(* assumptions.                                                            *)
(***************************************************************************)
EXTENDS DiscoveryAttempts, FiniteSetTheorems, TLAPS

-----------------------------------------------------------------------------
(* Type correctness.  A worker in one of the states of an operation has an *)
(* operation.                                                              *)

OpPcs == {"ask", "dispatch", "call", "answer"}
HasOp == \A w \in Workers : pc[w] \in OpPcs => op[w] \in Ops

\* The variables of the workers.
WorkerTypes ==
    /\ pc \in [Workers -> Pcs]
    /\ held \in [Workers -> Nat]
    /\ asked \in [Workers -> SUBSET ScoutOps]
    /\ op \in [Workers -> Ops \cup {NoOp}]
    /\ index \in [Workers -> {0, 1}]
    /\ try \in [Workers -> Tries]
    /\ repair \in [Workers -> BOOLEAN]
    /\ HasOp

LedgerType ==
    ledger \in [Ops -> [Tries -> [outcome : Outcomes,
                                  worker : Workers \cup {NoWorker},
                                  epoch : Nat]]]

\* The variables of the run.
RunTypes ==
    /\ epoch \in Nat
    /\ lease \in {"none", "live", "expired"}
    /\ cancelled \in BOOLEAN /\ committed \in BOOLEAN
    /\ used \in Nat
    /\ cohort \in Seq(Companies) /\ Len(cohort) <= MaxCohort
    /\ \A i, j \in DOMAIN cohort : cohort[i] = cohort[j] => i = j
    /\ validated \subseteq RoleOps
    /\ assessed \subseteq Companies /\ failed \subseteq Companies
    /\ calls \in [Ops -> [Tries -> Nat]]
    /\ faults \in 0..MaxFaults

TypeInv == WorkerTypes /\ LedgerType /\ RunTypes

LEMMA TypeInvImplies == TypeInv => TypeOK
BY DEF TypeInv, WorkerTypes, LedgerType, RunTypes, TypeOK

\* Asking an operation keeps the types of the worker's variables.
LEMMA AskType ==
    ASSUME WorkerTypes, NEW w \in Workers, NEW o \in Ops, NEW i \in {0, 1},
           NEW n \in Tries, NEW again \in BOOLEAN, Ask(w, o, i, n, again),
           held' = held, asked' = asked
    PROVE  WorkerTypes'
BY DEF WorkerTypes, HasOp, OpPcs, Ask, Goto, Pcs

\* So does the end of an operation, wherever the worker goes then.
LEMMA ForgetType ==
    ASSUME WorkerTypes, NEW w \in Workers, NEW p \in Pcs \ OpPcs, Goto(w, p),
           Forget(w), held' = held, asked' \in [Workers -> SUBSET ScoutOps]
    PROVE  WorkerTypes'
<1>1. /\ pc' \in [Workers -> Pcs]
      /\ op' \in [Workers -> Ops \cup {NoOp}]
      /\ index' \in [Workers -> {0, 1}]
      /\ try' \in [Workers -> Tries]
      /\ repair' \in [Workers -> BOOLEAN]
  BY DEF WorkerTypes, Forget, Goto, Tries
<1>2. HasOp'
  BY DEF WorkerTypes, HasOp, Forget, Goto
<1> QED
  BY <1>1, <1>2 DEF WorkerTypes

\* A worker that only moves on keeps them too.
LEMMA GotoType ==
    ASSUME WorkerTypes, NEW w \in Workers, NEW p \in Pcs, Goto(w, p),
           p \in OpPcs => op[w] \in Ops,
           held' = held, asked' \in [Workers -> SUBSET ScoutOps],
           UNCHANGED opVars
    PROVE  WorkerTypes'
BY DEF WorkerTypes, HasOp, Goto, opVars

LEMMA LeaveType ==
    ASSUME WorkerTypes, NEW w \in Workers, Leave(w)
    PROVE  WorkerTypes'
<1>1. /\ pc' \in [Workers -> Pcs]
      /\ op' \in [Workers -> Ops \cup {NoOp}]
      /\ index' \in [Workers -> {0, 1}]
      /\ try' \in [Workers -> Tries]
      /\ repair' \in [Workers -> BOOLEAN]
  BY DEF WorkerTypes, Leave, Forget, Goto, Tries, Pcs
<1>2. held' \in [Workers -> Nat] /\ asked' \in [Workers -> SUBSET ScoutOps]
  BY DEF WorkerTypes, Leave
<1>3. HasOp'
  BY DEF WorkerTypes, HasOp, Leave, Forget, Goto, OpPcs
<1> QED
  BY <1>1, <1>2, <1>3 DEF WorkerTypes

\* The three ways an operation ends in an error.
LEMMA EndsType ==
    ASSUME WorkerTypes, NEW w \in Workers, op[w] \in Ops, held' = held,
           Exhausted(w) \/ OpFails(w) \/ Conflicts(w)
    PROVE  WorkerTypes'
<1>1. PICK p \in Pcs \ OpPcs : Goto(w, p)
  BY DEF Exhausted, OpFails, Conflicts, Pcs, OpPcs
<1>2. asked' \in [Workers -> SUBSET ScoutOps]
  BY DEF Exhausted, OpFails, Conflicts, WorkerTypes
<1>3. Forget(w)
  BY DEF Exhausted, OpFails, Conflicts
<1> QED
  BY <1>1, <1>2, <1>3, ForgetType

LEMMA SettleType ==
    ASSUME LedgerType, NEW o \in Ops, NEW n \in Tries, NEW out \in Outcomes,
           Settle(o, n, out)
    PROVE  LedgerType'
BY DEF LedgerType, Settle, NoRow

LEMMA TypeInit == Init => TypeInv
<1> SUFFICES ASSUME Init PROVE TypeInv
  OBVIOUS
<1>1. WorkerTypes
  BY DEF Init, WorkerTypes, HasOp, OpPcs, Pcs, Tries
<1>2. LedgerType
  <2>1. NoRow \in [outcome : Outcomes, worker : Workers \cup {NoWorker}, epoch : Nat]
    BY DEF NoRow, Outcomes
  <2> QED
    BY <2>1 DEF Init, LedgerType
<1>3. /\ cohort \in Seq(Companies) /\ Len(cohort) <= MaxCohort
      /\ \A i, j \in DOMAIN cohort : cohort[i] = cohort[j] => i = j
  BY MaxCohortAssumption DEF Init
<1>4. RunTypes
  <2>1. calls \in [Ops -> [Tries -> Nat]]
    BY DEF Init
  <2>2. faults \in 0..MaxFaults
    BY MaxFaultsAssumption DEF Init
  <2>3. cancelled \in BOOLEAN /\ committed \in BOOLEAN
    BY DEF Init
  <2>4. /\ epoch \in Nat /\ used \in Nat
        /\ lease \in {"none", "live", "expired"}
        /\ validated \subseteq RoleOps
        /\ assessed \subseteq Companies /\ failed \subseteq Companies
    BY DEF Init
  <2> QED
    BY <1>3, <2>1, <2>2, <2>3, <2>4 DEF RunTypes
<1> QED
  BY <1>1, <1>2, <1>4 DEF TypeInv

LEMMA CohortsType ==
    ASSUME NEW s \in Cohorts
    PROVE  /\ s \in Seq(Companies) /\ Len(s) <= MaxCohort
           /\ \A i, j \in DOMAIN s : s[i] = s[j] => i = j
<1>1. PICK n \in 0..MaxCohort : s \in [1..n -> Companies]
  BY DEF Cohorts
<1>2. s \in Seq(Companies) /\ Len(s) = n
  BY <1>1
<1> QED
  BY <1>1, <1>2, MaxCohortAssumption DEF Cohorts

\* Every action keeps the types.
LEMMA TypeStep == TypeInv /\ [Next]_vars => TypeInv'
<1> SUFFICES ASSUME TypeInv, [Next]_vars PROVE TypeInv'
  OBVIOUS
<1> USE DEF runVars, companyVars, workerVars, opVars
<1>1. ASSUME NEW w \in Workers, Claim(w) PROVE TypeInv'
  <2>1. WorkerTypes'
    BY <1>1 DEF Claim, TypeInv, WorkerTypes, HasOp, OpPcs, Goto, Pcs, RunTypes, opVars
  <2>2. LedgerType'
    BY <1>1 DEF Claim, TypeInv, LedgerType
  <2>3. RunTypes'
    BY <1>1 DEF Claim, TypeInv, RunTypes
  <2> QED
    BY <2>1, <2>2, <2>3 DEF TypeInv
<1>2. ASSUME NEW w \in Workers, ReserveNew(w) PROVE TypeInv'
  <2>0. op[w] \in Ops
    BY <1>2 DEF ReserveNew, TypeInv, WorkerTypes, HasOp, OpPcs
  <2>1. WorkerTypes'
    BY <1>2, <2>0, GotoType DEF ReserveNew, TypeInv, WorkerTypes, Pcs
  <2>2. LedgerType'
    <3>1. [outcome |-> "reserved", worker |-> w, epoch |-> held[w]] \in
            [outcome : Outcomes, worker : Workers \cup {NoWorker}, epoch : Nat]
      BY DEF TypeInv, WorkerTypes, Outcomes
    <3>2. try[w] \in Tries
      BY DEF TypeInv, WorkerTypes
    <3> QED
      BY <1>2, <2>0, <3>1, <3>2 DEF ReserveNew, TypeInv, LedgerType
  <2>3. RunTypes'
    BY <1>2 DEF ReserveNew, TypeInv, RunTypes
  <2> QED
    BY <2>1, <2>2, <2>3 DEF TypeInv
<1>3. ASSUME NEW w \in Workers, RefuseNew(w) PROVE TypeInv'
  <2>0. op[w] \in Ops
    BY <1>3 DEF RefuseNew, TypeInv, WorkerTypes, HasOp, OpPcs
  <2>1. WorkerTypes'
    BY <1>3, <2>0, EndsType DEF RefuseNew, TypeInv
  <2>2. LedgerType'
    BY <1>3 DEF RefuseNew, TypeInv, LedgerType
  <2>3. RunTypes'
    BY <1>3 DEF RefuseNew, TypeInv, RunTypes
  <2> QED
    BY <2>1, <2>2, <2>3 DEF TypeInv
<1>4. ASSUME NEW w \in Workers, UseCached(w) PROVE TypeInv'
  <2>0. op[w] \in Ops
    BY <1>4 DEF UseCached, TypeInv, WorkerTypes, HasOp, OpPcs
  <2>1. WorkerTypes'
    BY <1>4, <2>0, GotoType DEF UseCached, TypeInv, Pcs, WorkerTypes
  <2>2. LedgerType'
    BY <1>4 DEF UseCached, TypeInv, LedgerType
  <2>3. RunTypes'
    BY <1>4 DEF UseCached, TypeInv, RunTypes
  <2> QED
    BY <2>1, <2>2, <2>3 DEF TypeInv
<1>5. ASSUME NEW w \in Workers, Spent(w) PROVE TypeInv'
  <2>0. op[w] \in Ops
    BY <1>5 DEF Spent, TypeInv, WorkerTypes, HasOp, OpPcs
  <2>1. WorkerTypes'
    <3>1. CASE Ask(w, op[w], 0, 2, repair[w]) /\ UNCHANGED asked
      <4>1. repair[w] \in BOOLEAN
        BY DEF TypeInv, WorkerTypes
      <4> QED
        BY <1>5, <2>0, <3>1, <4>1, AskType DEF Spent, TypeInv, Tries
    <3>2. CASE Exhausted(w)
      BY <1>5, <2>0, <3>2, EndsType DEF Spent, TypeInv
    <3> QED
      BY <1>5, <3>1, <3>2 DEF Spent
  <2>2. LedgerType'
    <3>1. try[w] \in Tries
      BY DEF TypeInv, WorkerTypes
    <3> QED
      BY <1>5, <2>0, <3>1, SettleType DEF Spent, TypeInv, LedgerType, Outcomes, Answers
  <2>3. RunTypes'
    BY <1>5 DEF Spent, TypeInv, RunTypes
  <2> QED
    BY <2>1, <2>2, <2>3 DEF TypeInv
<1>6. ASSUME NEW w \in Workers, Dispatch(w) PROVE TypeInv'
  <2>0. op[w] \in Ops
    BY <1>6 DEF Dispatch, TypeInv, WorkerTypes, HasOp, OpPcs
  <2>1. WorkerTypes'
    BY <1>6, <2>0, GotoType DEF Dispatch, TypeInv, Pcs, WorkerTypes
  <2>2. LedgerType'
    BY <1>6 DEF Dispatch, TypeInv, LedgerType
  <2>3. RunTypes'
    <3>1. try[w] \in Tries
      BY DEF TypeInv, WorkerTypes
    <3>2. calls' \in [Ops -> [Tries -> Nat]]
      BY <1>6, <2>0, <3>1 DEF Dispatch, TypeInv, RunTypes
    <3> QED
      BY <1>6, <3>2 DEF Dispatch, TypeInv, RunTypes
  <2> QED
    BY <2>1, <2>2, <2>3 DEF TypeInv
<1>7. ASSUME NEW w \in Workers, Answer(w) PROVE TypeInv'
  <2>0. op[w] \in Ops
    BY <1>7 DEF Answer, TypeInv, WorkerTypes, HasOp, OpPcs, Finishes
  <2>1. WorkerTypes'
    BY <1>7, <2>0, GotoType DEF Answer, TypeInv, Pcs, WorkerTypes
  <2>2. LedgerType'
    <3>1. try[w] \in Tries
      BY DEF TypeInv, WorkerTypes
    <3> QED
      BY <1>7, <2>0, <3>1, SettleType DEF Answer, TypeInv, LedgerType, Outcomes, Answers
  <2>3. RunTypes'
    BY <1>7 DEF Answer, TypeInv, RunTypes
  <2> QED
    BY <2>1, <2>2, <2>3 DEF TypeInv
<1>8. ASSUME NEW w \in Workers, CallFails(w) PROVE TypeInv'
  <2>0. op[w] \in Ops
    BY <1>8 DEF CallFails, TypeInv, WorkerTypes, HasOp, OpPcs, Finishes
  <2>1. WorkerTypes'
    <3>1. CASE Ask(w, op[w], 1, 2, repair[w]) /\ UNCHANGED asked
      <4>1. repair[w] \in BOOLEAN
        BY DEF TypeInv, WorkerTypes
      <4> QED
        BY <1>8, <2>0, <3>1, <4>1, AskType DEF CallFails, TypeInv, Tries
    <3>2. CASE OpFails(w)
      BY <1>8, <2>0, <3>2, EndsType DEF CallFails, TypeInv
    <3> QED
      BY <1>8, <3>1, <3>2 DEF CallFails
  <2>2. LedgerType'
    <3>1. try[w] \in Tries
      BY DEF TypeInv, WorkerTypes
    <3> QED
      BY <1>8, <2>0, <3>1, SettleType DEF CallFails, TypeInv, LedgerType, Outcomes, Answers
  <2>3. RunTypes'
    BY <1>8 DEF CallFails, TypeInv, RunTypes
  <2> QED
    BY <2>1, <2>2, <2>3 DEF TypeInv
<1>9. ASSUME NEW w \in Workers, FinishFails(w) PROVE TypeInv'
  <2>0. op[w] \in Ops
    BY <1>9 DEF FinishFails, TypeInv, WorkerTypes, HasOp, OpPcs, Finishes
  <2>1. WorkerTypes'
    BY <1>9, <2>0, EndsType DEF FinishFails, TypeInv
  <2>2. LedgerType'
    <3>1. try[w] \in Tries
      BY DEF TypeInv, WorkerTypes
    <3> QED
      BY <1>9, <2>0, <3>1, SettleType DEF FinishFails, TypeInv, LedgerType, Outcomes, Answers
  <2>3. RunTypes'
    BY <1>9, MaxFaultsAssumption DEF FinishFails, TypeInv, RunTypes
  <2> QED
    BY <2>1, <2>2, <2>3 DEF TypeInv
<1>9a. ASSUME NEW w \in Workers, DispatchFails(w) PROVE TypeInv'
  <2>0. op[w] \in Ops
    BY <1>9a DEF DispatchFails, TypeInv, WorkerTypes, HasOp, OpPcs
  <2>1. WorkerTypes'
    BY <1>9a, <2>0, EndsType DEF DispatchFails, TypeInv
  <2>2. LedgerType'
    BY <1>9a DEF DispatchFails, TypeInv, LedgerType
  <2>3. RunTypes'
    BY <1>9a, MaxFaultsAssumption DEF DispatchFails, TypeInv, RunTypes
  <2> QED
    BY <2>1, <2>2, <2>3 DEF TypeInv
<1>10. ASSUME NEW w \in Workers, AskScout(w) PROVE TypeInv'
  <2>1. WorkerTypes'
    <3>1. PICK o \in ScoutOps \ asked[w] : Ask(w, o, 0, 1, FALSE)
      BY <1>10 DEF AskScout
    <3> QED
      BY <1>10, <3>1, AskType DEF AskScout, TypeInv, Ops, Tries
  <2>2. LedgerType'
    BY <1>10 DEF AskScout, TypeInv, LedgerType
  <2>3. RunTypes'
    BY <1>10 DEF AskScout, TypeInv, RunTypes
  <2> QED
    BY <2>1, <2>2, <2>3 DEF TypeInv
<1>11. ASSUME NEW w \in Workers, AcceptScout(w) PROVE TypeInv'
  <2>1. WorkerTypes'
    <3>1. asked' \in [Workers -> SUBSET ScoutOps]
      BY <1>11 DEF AcceptScout, TypeInv, WorkerTypes
    <3> QED
      BY <1>11, <3>1, ForgetType DEF AcceptScout, TypeInv, Pcs, OpPcs
  <2>2. LedgerType'
    BY <1>11 DEF AcceptScout, TypeInv, LedgerType
  <2>3. RunTypes'
    BY <1>11 DEF AcceptScout, TypeInv, RunTypes
  <2> QED
    BY <2>1, <2>2, <2>3 DEF TypeInv
<1>12. ASSUME NEW w \in Workers, CommitCohort(w) PROVE TypeInv'
  <2>1. WorkerTypes'
    <3>1. asked' \in [Workers -> SUBSET ScoutOps]
      BY <1>12 DEF CommitCohort, TypeInv, WorkerTypes
    <3> QED
      BY <1>12, <3>1, GotoType DEF CommitCohort, TypeInv, Pcs, OpPcs
  <2>2. LedgerType'
    BY <1>12 DEF CommitCohort, TypeInv, LedgerType
  <2>3. RunTypes'
    <3>1. cohort' \in Cohorts
      BY <1>12 DEF CommitCohort
    <3>2. /\ cohort' \in Seq(Companies) /\ Len(cohort') <= MaxCohort
          /\ \A i, j \in DOMAIN cohort' : cohort'[i] = cohort'[j] => i = j
      BY <3>1, CohortsType
    <3> QED
      BY <1>12, <3>2 DEF CommitCohort, TypeInv, RunTypes
  <2> QED
    BY <2>1, <2>2, <2>3 DEF TypeInv
<1>13. ASSUME NEW w \in Workers, AskRole(w) PROVE TypeInv'
  <2>1. WorkerTypes'
    <3>1. PICK i \in Upcoming, role \in Roles : Ask(w, <<cohort[i], role>>, 0, 1, FALSE)
      BY <1>13 DEF AskRole
    <3>2. cohort[i] \in Companies
      BY DEF Upcoming, TypeInv, RunTypes
    <3>3. <<cohort[i], role>> \in Ops
      BY <3>2 DEF Ops, RoleOps
    <3> QED
      BY <1>13, <3>1, <3>3, AskType DEF AskRole, TypeInv, Tries
  <2>2. LedgerType'
    BY <1>13 DEF AskRole, TypeInv, LedgerType
  <2>3. RunTypes'
    BY <1>13 DEF AskRole, TypeInv, RunTypes
  <2> QED
    BY <2>1, <2>2, <2>3 DEF TypeInv
<1>14. ASSUME NEW w \in Workers, AcceptRole(w) PROVE TypeInv'
  <2>1. WorkerTypes'
    BY <1>14, ForgetType DEF AcceptRole, TypeInv, Pcs, OpPcs, WorkerTypes
  <2>2. LedgerType'
    BY <1>14 DEF AcceptRole, TypeInv, LedgerType
  <2>3. RunTypes'
    BY <1>14 DEF AcceptRole, TypeInv, RunTypes
  <2> QED
    BY <2>1, <2>2, <2>3 DEF TypeInv
<1>15. ASSUME NEW w \in Workers, Repair(w) PROVE TypeInv'
  <2>0. op[w] \in Ops
    BY <1>15 DEF Repair, TypeInv, WorkerTypes, HasOp, OpPcs
  <2>1. WorkerTypes'
    <3>1. CASE Ask(w, op[w], 1, 2, TRUE)
      BY <1>15, <2>0, <3>1, AskType DEF Repair, TypeInv, Tries
    <3>2. CASE Goto(w, "fail") /\ Forget(w)
      BY <1>15, <3>2, ForgetType DEF Repair, TypeInv, Pcs, OpPcs, WorkerTypes
    <3> QED
      BY <1>15, <3>1, <3>2 DEF Repair
  <2>2. LedgerType'
    BY <1>15 DEF Repair, TypeInv, LedgerType
  <2>3. RunTypes'
    BY <1>15 DEF Repair, TypeInv, RunTypes
  <2> QED
    BY <2>1, <2>2, <2>3 DEF TypeInv
<1>16. ASSUME NEW w \in Workers, Assess(w) PROVE TypeInv'
  <2>1. WorkerTypes'
    BY <1>16 DEF Assess, TypeInv, WorkerTypes, HasOp, workerVars, opVars
  <2>2. LedgerType'
    BY <1>16 DEF Assess, TypeInv, LedgerType
  <2>3. RunTypes'
    <3>1. PICK i \in Upcoming : assessed' = assessed \cup {cohort[i]}
      BY <1>16 DEF Assess
    <3>2. cohort[i] \in Companies
      BY DEF Upcoming, TypeInv, RunTypes
    <3> QED
      BY <1>16, <3>1, <3>2 DEF Assess, TypeInv, RunTypes
  <2> QED
    BY <2>1, <2>2, <2>3 DEF TypeInv
<1>17. ASSUME NEW w \in Workers, ResearchFails(w) PROVE TypeInv'
  <2>1. WorkerTypes'
    BY <1>17, ForgetType DEF ResearchFails, TypeInv, Pcs, OpPcs, WorkerTypes
  <2>2. LedgerType'
    BY <1>17 DEF ResearchFails, TypeInv, LedgerType
  <2>3. RunTypes'
    BY <1>17 DEF ResearchFails, TypeInv, RunTypes
  <2> QED
    BY <2>1, <2>2, <2>3 DEF TypeInv
<1>18. ASSUME NEW w \in Workers, FailCompany(w) PROVE TypeInv'
  <2>1. WorkerTypes'
    BY <1>18, GotoType DEF FailCompany, TypeInv, Pcs, OpPcs, WorkerTypes
  <2>2. LedgerType'
    BY <1>18 DEF FailCompany, TypeInv, LedgerType
  <2>3. RunTypes'
    <3>1. PICK i \in Upcoming : failed' = failed \cup {cohort[i]}
      BY <1>18 DEF FailCompany
    <3>2. cohort[i] \in Companies
      BY DEF Upcoming, TypeInv, RunTypes
    <3> QED
      BY <1>18, <3>1, <3>2 DEF FailCompany, TypeInv, RunTypes
  <2> QED
    BY <2>1, <2>2, <2>3 DEF TypeInv
<1>19. ASSUME NEW w \in Workers, Conclude(w) PROVE TypeInv'
  <2>1. WorkerTypes'
    BY <1>19, GotoType DEF Conclude, TypeInv, Pcs, OpPcs, WorkerTypes
  <2>2. LedgerType'
    BY <1>19 DEF Conclude, TypeInv, LedgerType
  <2>3. RunTypes'
    BY <1>19 DEF Conclude, TypeInv, RunTypes
  <2> QED
    BY <2>1, <2>2, <2>3 DEF TypeInv
<1>20. ASSUME NEW w \in Workers, End(w) PROVE TypeInv'
  <2>1. WorkerTypes'
    BY <1>20, LeaveType DEF End, TypeInv
  <2>2. LedgerType'
    BY <1>20 DEF End, TypeInv, LedgerType
  <2>3. RunTypes'
    BY <1>20 DEF End, TypeInv, RunTypes
  <2> QED
    BY <2>1, <2>2, <2>3 DEF TypeInv
<1>21. ASSUME NEW w \in Workers, LeaseLost(w) PROVE TypeInv'
  <2>1. WorkerTypes'
    BY <1>21, LeaveType DEF LeaseLost, TypeInv
  <2>2. LedgerType'
    BY <1>21 DEF LeaseLost, TypeInv, LedgerType
  <2>3. RunTypes'
    BY <1>21 DEF LeaseLost, TypeInv, RunTypes
  <2> QED
    BY <2>1, <2>2, <2>3 DEF TypeInv
<1>22. ASSUME NEW w \in Workers, StopEarly(w) PROVE TypeInv'
  <2>1. WorkerTypes'
    <3>1. asked' \in [Workers -> SUBSET ScoutOps]
      BY <1>22 DEF StopEarly, TypeInv, WorkerTypes
    <3> QED
      BY <1>22, <3>1, ForgetType DEF StopEarly, TypeInv, Pcs, OpPcs
  <2>2. LedgerType'
    BY <1>22 DEF StopEarly, TypeInv, LedgerType
  <2>3. RunTypes'
    BY <1>22 DEF StopEarly, TypeInv, RunTypes
  <2> QED
    BY <2>1, <2>2, <2>3 DEF TypeInv
<1>23. ASSUME NEW w \in Workers, Crash(w) PROVE TypeInv'
  <2>1. WorkerTypes'
    BY <1>23, LeaveType DEF Crash, TypeInv
  <2>2. LedgerType'
    BY <1>23 DEF Crash, TypeInv, LedgerType
  <2>3. RunTypes'
    BY <1>23, MaxFaultsAssumption DEF Crash, TypeInv, RunTypes
  <2> QED
    BY <2>1, <2>2, <2>3 DEF TypeInv
<1>24. ASSUME RequestCancel PROVE TypeInv'
  <2>1. WorkerTypes'
    BY <1>24 DEF RequestCancel, TypeInv, WorkerTypes, HasOp, workerVars, opVars
  <2>2. LedgerType'
    BY <1>24 DEF RequestCancel, TypeInv, LedgerType
  <2>3. RunTypes'
    BY <1>24 DEF RequestCancel, TypeInv, RunTypes
  <2> QED
    BY <2>1, <2>2, <2>3 DEF TypeInv
<1>25. ASSUME ExpireLease PROVE TypeInv'
  <2>1. WorkerTypes'
    BY <1>25 DEF ExpireLease, TypeInv, WorkerTypes, HasOp, workerVars, opVars
  <2>2. LedgerType'
    BY <1>25 DEF ExpireLease, TypeInv, LedgerType
  <2>3. RunTypes'
    BY <1>25, MaxFaultsAssumption DEF ExpireLease, TypeInv, RunTypes
  <2> QED
    BY <2>1, <2>2, <2>3 DEF TypeInv
<1>26. ASSUME UNCHANGED vars PROVE TypeInv'
  <2>1. WorkerTypes'
    BY <1>26 DEF vars, TypeInv, WorkerTypes, HasOp, workerVars, opVars
  <2>2. LedgerType'
    BY <1>26 DEF vars, TypeInv, LedgerType
  <2>3. RunTypes'
    BY <1>26 DEF vars, TypeInv, RunTypes
  <2> QED
    BY <2>1, <2>2, <2>3 DEF TypeInv
<1> QED
  BY <1>1, <1>2, <1>3, <1>4, <1>5, <1>6, <1>7, <1>8, <1>9, <1>9a,
     <1>10, <1>11, <1>12, <1>13, <1>14, <1>15, <1>16, <1>17, <1>18,
     <1>19, <1>20, <1>21, <1>22, <1>23, <1>24, <1>25, <1>26
     DEF Next, Step

\* Every state is typed, and the cohort keeps to its limit and has no company
\* twice (chooseResearchCohort and commitCohort).
THEOREM TypeCorrect == Spec => []TypeOK
<1> QED
  BY TypeInit, TypeStep, TypeInvImplies, PTL DEF Spec

-----------------------------------------------------------------------------
(* The ledger.  The calls that were made, the rows, and the workers between *)
(* a reservation and its settlement fit together.                          *)

SpentOutcomes == {"error", "unknown", "invalid"}

\* A worker that is about to call, or calls, has a row, which is its own as
\* long as it is reserved.
CallerHasRow ==
    \A w \in Workers : pc[w] \in {"dispatch", "call"} =>
        /\ Row(w).outcome # "none"
        /\ Row(w).outcome = "reserved" => Row(w).epoch = held[w]

\* A call that is about to be made was not made yet, and nobody else is about
\* to make it.
NotCalledYet ==
    \A w \in Workers : pc[w] = "dispatch" =>
        /\ calls[op[w]][try[w]] = 0
        /\ \A v \in Workers : pc[v] = "dispatch" /\ op[v] = op[w] /\ try[v] = try[w]
                                => v = w

\* Attempt 2 is asked for, and made, only when attempt 1 is spent.
AskedAfterSpent ==
    \A w \in Workers : pc[w] \in OpPcs /\ try[w] = 2 =>
        ledger[op[w]][1].outcome \in SpentOutcomes
SecondAfterSpent ==
    \A o \in Ops : ledger[o][2].outcome # "none" =>
        ledger[o][1].outcome \in SpentOutcomes

\* OneCallPerRow, row by row.
CallsPaid ==
    \A o \in Ops, n \in Tries :
        calls[o][n] <= 1 /\ (ledger[o][n].outcome = "none" => calls[o][n] = 0)

LedgerInv ==
    CallsPaid /\ CallerHasRow /\ NotCalledYet /\ AskedAfterSpent
        /\ SecondAfterSpent

LEMMA LedgerInit == Init => LedgerInv
<1> SUFFICES ASSUME Init PROVE LedgerInv
  OBVIOUS
<1>1. ASSUME NEW o \in Ops, NEW n \in Tries
      PROVE  ledger[o][n].outcome = "none" /\ calls[o][n] = 0
  BY DEF Init, NoRow
<1>3. CallsPaid
  BY <1>1 DEF CallsPaid
<1>4. SecondAfterSpent
  BY <1>1 DEF SecondAfterSpent, Tries
<1>5. CallerHasRow /\ NotCalledYet /\ AskedAfterSpent
  BY DEF Init, CallerHasRow, NotCalledYet, AskedAfterSpent, OpPcs
<1> QED
  BY <1>3, <1>4, <1>5 DEF LedgerInv

\* Steps that reserve nothing and call nobody: a reserved row may be settled, a
\* worker may stay before or in its call, and attempt 2 may be asked for when
\* attempt 1 is spent.
Settled == {"error", "unknown", "valid", "invalid"}
RowsSettle ==
    \A o \in Ops, n \in Tries :
        \/ ledger'[o][n] = ledger[o][n]
        \/ ledger[o][n].outcome = "reserved" /\ ledger'[o][n].outcome \in Settled
CallersStay ==
    \A v \in Workers : pc'[v] \in {"dispatch", "call"} =>
        /\ pc'[v] = pc[v] /\ op'[v] = op[v]
        /\ try'[v] = try[v] /\ held'[v] = held[v]
AsksAfterSpent ==
    \A v \in Workers : pc'[v] \in OpPcs /\ try'[v] = 2 =>
        \/ pc[v] \in OpPcs /\ op'[v] = op[v] /\ try[v] = 2
        \/ op'[v] \in Ops /\ ledger'[op'[v]][1].outcome \in SpentOutcomes

LEMMA SettlingKeeps ==
    ASSUME TypeInv, TypeInv', LedgerInv, calls' = calls,
           RowsSettle, CallersStay, AsksAfterSpent
    PROVE  LedgerInv'
<1>0. 1 \in Tries /\ 2 \in Tries
  BY DEF Tries
<1>1. CallsPaid'
  BY DEF LedgerInv, CallsPaid, RowsSettle, Settled
<1>2. ASSUME NEW v \in Workers, pc'[v] \in {"dispatch", "call"}
      PROVE  /\ op'[v] = op[v] /\ op[v] \in Ops
             /\ try'[v] = try[v] /\ try[v] \in Tries
  BY <1>2 DEF CallersStay, TypeInv, WorkerTypes, HasOp, OpPcs
<1>3. CallerHasRow'
  <2> SUFFICES ASSUME NEW w \in Workers, pc'[w] \in {"dispatch", "call"}
               PROVE  /\ Row(w)'.outcome # "none"
                      /\ Row(w)'.outcome = "reserved" => Row(w)'.epoch = held'[w]
    BY DEF CallerHasRow
  <2>1. /\ Row(w).outcome # "none"
        /\ Row(w).outcome = "reserved" => Row(w).epoch = held[w]
    BY DEF CallersStay, LedgerInv, CallerHasRow
  <2>2. \/ Row(w)' = Row(w)
        \/ Row(w)'.outcome \in Settled
    BY <1>2 DEF RowsSettle, Row
  <2> QED
    BY <2>1, <2>2 DEF CallersStay, Settled
<1>4. NotCalledYet'
  BY <1>2 DEF CallersStay, LedgerInv, NotCalledYet
<1>5. ASSUME NEW o \in Ops, ledger[o][1].outcome \in SpentOutcomes
      PROVE  ledger'[o][1].outcome \in SpentOutcomes
  BY <1>0, <1>5 DEF RowsSettle, SpentOutcomes
<1>6. AskedAfterSpent'
  <2> SUFFICES ASSUME NEW w \in Workers, pc'[w] \in OpPcs, try'[w] = 2
               PROVE  ledger'[op'[w]][1].outcome \in SpentOutcomes
    BY DEF AskedAfterSpent
  <2>1. CASE pc[w] \in OpPcs /\ op'[w] = op[w] /\ try[w] = 2
    <3>1. op[w] \in Ops
      BY <2>1 DEF TypeInv, WorkerTypes, HasOp
    <3> QED
      BY <1>5, <2>1, <3>1 DEF LedgerInv, AskedAfterSpent
  <2> QED
    BY <2>1 DEF AsksAfterSpent
<1>7. SecondAfterSpent'
  <2> SUFFICES ASSUME NEW o \in Ops, ledger'[o][2].outcome # "none"
               PROVE  ledger'[o][1].outcome \in SpentOutcomes
    BY DEF SecondAfterSpent
  <2>1. ledger[o][2].outcome # "none"
    BY <1>0 DEF RowsSettle
  <2> QED
    BY <1>5, <2>1 DEF LedgerInv, SecondAfterSpent
<1> QED
  BY <1>1, <1>3, <1>4, <1>6, <1>7 DEF LedgerInv

\* Settle changes the one row.
LEMMA SettleRows ==
    ASSUME TypeInv, NEW w \in Workers, op[w] \in Ops, Row(w).outcome = "reserved",
           NEW out \in Settled, Settle(op[w], try[w], out)
    PROVE  RowsSettle /\ ledger'[op[w]][try[w]].outcome = out
<1>1. try[w] \in Tries
  BY DEF TypeInv, WorkerTypes
<1> QED
  BY <1>1 DEF TypeInv, LedgerType, Settle, Row, RowsSettle, NoRow

\* A worker that leaves its operation adds nothing.
LEMMA ForgetKeeps ==
    ASSUME TypeInv, TypeInv', LedgerInv, NEW w \in Workers,
           NEW p \in Pcs \ OpPcs, Goto(w, p), Forget(w),
           \A v \in Workers \ {w} : held'[v] = held[v],
           calls' = calls, RowsSettle
    PROVE  LedgerInv'
<1>1. CallersStay /\ AsksAfterSpent
  BY DEF TypeInv, WorkerTypes, Goto, Forget, CallersStay, AsksAfterSpent, OpPcs
<1> QED
  BY <1>1, SettlingKeeps

\* Asking for an attempt adds nothing either.
LEMMA AskKeeps ==
    ASSUME TypeInv, TypeInv', LedgerInv, NEW w \in Workers, NEW o \in Ops,
           NEW i, NEW n \in Tries, NEW again, Ask(w, o, i, n, again),
           n = 2 => ledger'[o][1].outcome \in SpentOutcomes,
           held' = held, calls' = calls, RowsSettle
    PROVE  LedgerInv'
<1>1. CallersStay /\ AsksAfterSpent
  BY DEF TypeInv, WorkerTypes, Goto, Ask, CallersStay, AsksAfterSpent, OpPcs
<1> QED
  BY <1>1, SettlingKeeps

LEMMA LedgerStep == TypeInv /\ LedgerInv /\ [Next]_vars => LedgerInv'
<1> SUFFICES ASSUME TypeInv, LedgerInv, [Next]_vars PROVE LedgerInv'
  OBVIOUS
<1>0. TypeInv'
  BY TypeStep
<1> USE <1>0 DEF runVars, companyVars
<1>1. ASSUME NEW w \in Workers, Claim(w) PROVE LedgerInv'
  <2>1. RowsSettle
    BY <1>1 DEF Claim, RowsSettle
  <2>2. CallersStay /\ AsksAfterSpent
    BY <1>1 DEF Claim, TypeInv, WorkerTypes, CallersStay, AsksAfterSpent, OpPcs, Goto, opVars
  <2> QED
    BY <1>1, <2>1, <2>2, SettlingKeeps DEF Claim
<1>2. ASSUME NEW w \in Workers, ReserveNew(w) PROVE LedgerInv'
  <2>0. op[w] \in Ops /\ try[w] \in Tries
    BY <1>2 DEF ReserveNew, TypeInv, WorkerTypes, HasOp, OpPcs
  <2>1. /\ ledger' = [ledger EXCEPT ![op[w]][try[w]] =
                    [outcome |-> "reserved", worker |-> w, epoch |-> held[w]]]
        /\ Row(w).outcome = "none"
        /\ pc' = [pc EXCEPT ![w] = "dispatch"]
        /\ UNCHANGED <<calls, held, op, try>>
    BY <1>2 DEF ReserveNew, Free, Goto, opVars
  <2>2. \A o \in Ops, n \in Tries :
          IF o = op[w] /\ n = try[w]
          THEN /\ ledger[o][n].outcome = "none"
               /\ ledger'[o][n].outcome = "reserved"
               /\ ledger'[o][n].epoch = held[w]
          ELSE ledger'[o][n] = ledger[o][n]
    BY <2>0, <2>1 DEF TypeInv, LedgerType, Row
  <2>3. calls[op[w]][try[w]] = 0
    BY <2>0, <2>1 DEF LedgerInv, CallsPaid, Row
  <2>4. CallsPaid'
    BY <2>1, <2>2 DEF LedgerInv, CallsPaid
  <2>5. ASSUME NEW v \in Workers, pc[v] \in {"dispatch", "call"}
        PROVE  /\ v # w /\ op[v] \in Ops /\ try[v] \in Tries
               /\ ~(op[v] = op[w] /\ try[v] = try[w])
    BY <1>2, <2>1, <2>5 DEF ReserveNew, LedgerInv, CallerHasRow, Row, TypeInv, WorkerTypes, HasOp, OpPcs
  <2>6. CallerHasRow'
    <3> SUFFICES ASSUME NEW v \in Workers, pc'[v] \in {"dispatch", "call"}
                 PROVE  /\ Row(v)'.outcome # "none"
                        /\ Row(v)'.outcome = "reserved" => Row(v)'.epoch = held'[v]
      BY DEF CallerHasRow
    <3>1. CASE v = w
      BY <2>0, <2>1, <2>2, <3>1 DEF Row
    <3>2. CASE v # w
      <4>1. pc[v] \in {"dispatch", "call"}
        BY <2>1, <3>2 DEF TypeInv, WorkerTypes
      <4>2. Row(v)' = Row(v)
        BY <2>1, <2>2, <2>5, <4>1 DEF Row
      <4> QED
        BY <2>1, <4>1, <4>2 DEF LedgerInv, CallerHasRow
    <3> QED
      BY <3>1, <3>2
  <2>7. NotCalledYet'
    <3>1. ASSUME NEW v \in Workers, pc'[v] = "dispatch"
          PROVE  v = w \/ pc[v] = "dispatch"
      BY <2>1, <3>1 DEF TypeInv, WorkerTypes
    <3> QED
      BY <2>1, <2>3, <2>5, <3>1 DEF LedgerInv, NotCalledYet
  <2>8. ASSUME NEW o \in Ops, ledger[o][1].outcome \in SpentOutcomes
        PROVE  ledger'[o][1].outcome \in SpentOutcomes
    BY <2>2, <2>8 DEF SpentOutcomes, Tries
  <2>9. AskedAfterSpent'
    <3> SUFFICES ASSUME NEW v \in Workers, pc'[v] \in OpPcs, try'[v] = 2
                 PROVE  ledger'[op'[v]][1].outcome \in SpentOutcomes
      BY DEF AskedAfterSpent
    <3>1. pc[v] \in OpPcs /\ op'[v] = op[v] /\ try[v] = 2
      BY <1>2, <2>1 DEF ReserveNew, OpPcs, TypeInv, WorkerTypes
    <3>2. op[v] \in Ops
      BY <3>1 DEF TypeInv, WorkerTypes, HasOp
    <3> QED
      BY <2>8, <3>1, <3>2 DEF LedgerInv, AskedAfterSpent
  <2>10. SecondAfterSpent'
    <3> SUFFICES ASSUME NEW o \in Ops, ledger'[o][2].outcome # "none"
                 PROVE  ledger'[o][1].outcome \in SpentOutcomes
      BY DEF SecondAfterSpent
    <3>1. CASE o = op[w] /\ try[w] = 2
      <4>1. ledger[o][1].outcome \in SpentOutcomes
        BY <1>2, <3>1 DEF ReserveNew, LedgerInv, AskedAfterSpent, OpPcs
      <4> QED
        BY <2>8, <4>1
    <3>2. CASE ~(o = op[w] /\ try[w] = 2)
      <4>1. ledger'[o][2] = ledger[o][2]
        BY <2>2, <3>2 DEF Tries
      <4>2. ledger[o][1].outcome \in SpentOutcomes
        BY <4>1 DEF LedgerInv, SecondAfterSpent
      <4> QED
        BY <2>8, <4>2
    <3> QED
      BY <3>1, <3>2
  <2> QED
    BY <2>4, <2>6, <2>7, <2>9, <2>10 DEF LedgerInv
<1>3. ASSUME NEW w \in Workers, RefuseNew(w) PROVE LedgerInv'
  <2>1. RowsSettle
    BY <1>3 DEF RefuseNew, RowsSettle
  <2>2. PICK p \in Pcs \ OpPcs : Goto(w, p)
    BY <1>3 DEF RefuseNew, Exhausted, OpFails, Conflicts, Pcs, OpPcs
  <2> QED
    BY <1>3, <2>1, <2>2, ForgetKeeps DEF RefuseNew, Exhausted
<1>4. ASSUME NEW w \in Workers, UseCached(w) PROVE LedgerInv'
  <2>1. RowsSettle
    BY <1>4 DEF UseCached, RowsSettle
  <2>2. CallersStay /\ AsksAfterSpent
    BY <1>4 DEF UseCached, TypeInv, WorkerTypes, CallersStay, AsksAfterSpent, OpPcs, Goto, opVars
  <2> QED
    BY <1>4, <2>1, <2>2, SettlingKeeps DEF UseCached
<1>5. ASSUME NEW w \in Workers, Spent(w) PROVE LedgerInv'
  <2>0. op[w] \in Ops /\ try[w] \in Tries
    BY <1>5 DEF Spent, TypeInv, WorkerTypes, HasOp, OpPcs
  <2>1. RowsSettle /\ ledger'[op[w]][try[w]].outcome \in SpentOutcomes
    <3>1. CASE Row(w).outcome = "reserved"
      BY <1>5, <2>0, <3>1, SettleRows DEF Spent, SpentOutcomes, Settled
    <3>2. CASE Row(w).outcome # "reserved"
      <4>1. Row(w).outcome \in Outcomes
        BY <2>0 DEF Row, TypeInv, LedgerType
      <4> QED
        BY <1>5, <3>2, <4>1 DEF Spent, RowsSettle, Free, Cached, Answers, Outcomes, SpentOutcomes, Row
    <3> QED
      BY <3>1, <3>2
  <2>2. CASE index[w] = 0 /\ try[w] = 1
    BY <1>5, <2>0, <2>1, <2>2, AskKeeps DEF Spent, Tries
  <2>3. CASE ~(index[w] = 0 /\ try[w] = 1)
    <3>1. Exhausted(w)
      BY <1>5, <2>3 DEF Spent
    <3>2. PICK p \in Pcs \ OpPcs : Goto(w, p)
      BY <3>1 DEF Exhausted, Pcs, OpPcs
    <3> QED
      BY <1>5, <2>1, <3>1, <3>2, ForgetKeeps DEF Spent, Exhausted
  <2> QED
    BY <2>2, <2>3
<1>6. ASSUME NEW w \in Workers, Dispatch(w) PROVE LedgerInv'
  <2>0. op[w] \in Ops /\ try[w] \in Tries
    BY <1>6 DEF Dispatch, TypeInv, WorkerTypes, HasOp, OpPcs
  <2>1. /\ calls' = [calls EXCEPT ![op[w]][try[w]] = @ + 1]
        /\ pc' = [pc EXCEPT ![w] = "call"]
        /\ pc[w] = "dispatch"
        /\ UNCHANGED <<ledger, held, op, try>>
    BY <1>6 DEF Dispatch, Goto, opVars
  <2>2. calls[op[w]][try[w]] = 0 /\ ledger[op[w]][try[w]].outcome # "none"
    BY <2>1 DEF LedgerInv, NotCalledYet, CallerHasRow, Row
  <2>3. \A o \in Ops, n \in Tries :
          calls'[o][n] = IF o = op[w] /\ n = try[w] THEN 1 ELSE calls[o][n]
    BY <2>0, <2>1, <2>2 DEF TypeInv, RunTypes
  <2>4. CallsPaid'
    BY <2>1, <2>2, <2>3 DEF LedgerInv, CallsPaid
  <2>5. ASSUME NEW v \in Workers, pc'[v] = "dispatch"
        PROVE  v # w /\ pc[v] = "dispatch" /\ op[v] \in Ops /\ try[v] \in Tries
    BY <2>1, <2>5 DEF TypeInv, WorkerTypes, HasOp, OpPcs
  <2>6. NotCalledYet'
    BY <2>1, <2>3, <2>5 DEF LedgerInv, NotCalledYet
  <2>7. CallerHasRow'
    BY <2>1 DEF LedgerInv, CallerHasRow, Row, TypeInv, WorkerTypes
  <2>8. AskedAfterSpent' /\ SecondAfterSpent'
    BY <2>1 DEF LedgerInv, AskedAfterSpent, SecondAfterSpent, OpPcs, TypeInv, WorkerTypes
  <2> QED
    BY <2>4, <2>6, <2>7, <2>8 DEF LedgerInv
<1>7. ASSUME NEW w \in Workers, Answer(w) PROVE LedgerInv'
  <2>0. op[w] \in Ops /\ try[w] \in Tries
    BY <1>7 DEF Answer, TypeInv, WorkerTypes, HasOp, OpPcs, Finishes
  <2>1. RowsSettle
    <3>1. PICK a \in Answers : Settle(op[w], try[w], a)
      BY <1>7 DEF Answer
    <3> QED
      BY <1>7, <2>0, <3>1, SettleRows DEF Answer, Finishes, Answers, Settled
  <2>2. CallersStay /\ AsksAfterSpent
    BY <1>7 DEF Answer, Finishes, TypeInv, WorkerTypes, CallersStay, AsksAfterSpent, OpPcs, Goto, opVars
  <2> QED
    BY <1>7, <2>1, <2>2, SettlingKeeps DEF Answer
<1>8. ASSUME NEW w \in Workers, CallFails(w) PROVE LedgerInv'
  <2>0. op[w] \in Ops /\ try[w] \in Tries
    BY <1>8 DEF CallFails, TypeInv, WorkerTypes, HasOp, OpPcs, Finishes
  <2>1. RowsSettle /\ ledger'[op[w]][try[w]].outcome = "error"
    BY <1>8, <2>0, SettleRows DEF CallFails, Finishes, Settled
  <2>2. CASE Ask(w, op[w], 1, 2, repair[w])
    <3>1. ledger'[op[w]][1].outcome \in SpentOutcomes
      <4>1. CASE try[w] = 1
        BY <2>1, <4>1 DEF SpentOutcomes
      <4>2. CASE try[w] = 2
        <5>1. ledger[op[w]][1].outcome \in SpentOutcomes
          BY <1>8, <4>2 DEF CallFails, Finishes, LedgerInv, AskedAfterSpent, OpPcs
        <5> QED
          BY <2>0, <2>1, <5>1 DEF RowsSettle, Tries, SpentOutcomes
      <4> QED
        BY <2>0, <4>1, <4>2 DEF Tries
    <3> QED
      BY <1>8, <2>0, <2>1, <2>2, <3>1, AskKeeps DEF CallFails, Tries
  <2>3. CASE OpFails(w)
    <3>1. PICK p \in Pcs \ OpPcs : Goto(w, p)
      BY <2>3 DEF OpFails, Pcs, OpPcs
    <3> QED
      BY <1>8, <2>1, <2>3, <3>1, ForgetKeeps DEF CallFails, OpFails
  <2> QED
    BY <1>8, <2>2, <2>3 DEF CallFails
<1>9. ASSUME NEW w \in Workers, FinishFails(w) PROVE LedgerInv'
  <2>0. op[w] \in Ops /\ try[w] \in Tries
    BY <1>9 DEF FinishFails, TypeInv, WorkerTypes, HasOp, OpPcs, Finishes
  <2>1. RowsSettle
    <3>1. CASE UNCHANGED ledger
      BY <3>1 DEF RowsSettle
    <3>2. CASE \E a \in Answers : Settle(op[w], try[w], a)
      BY <1>9, <2>0, <3>2, SettleRows DEF FinishFails, Finishes, Answers, Settled
    <3> QED
      BY <1>9, <3>1, <3>2 DEF FinishFails
  <2>2. PICK p \in Pcs \ OpPcs : Goto(w, p)
    BY <1>9 DEF FinishFails, Exhausted, OpFails, Conflicts, Pcs, OpPcs
  <2> QED
    BY <1>9, <2>1, <2>2, ForgetKeeps DEF FinishFails, OpFails, Conflicts
<1>9a. ASSUME NEW w \in Workers, DispatchFails(w) PROVE LedgerInv'
  <2>1. RowsSettle
    BY <1>9a DEF DispatchFails, RowsSettle
  <2>2. PICK p \in Pcs \ OpPcs : Goto(w, p)
    BY <1>9a DEF DispatchFails, OpFails, Pcs, OpPcs
  <2> QED
    BY <1>9a, <2>1, <2>2, ForgetKeeps DEF DispatchFails, OpFails
<1>10. ASSUME NEW w \in Workers, AskScout(w) PROVE LedgerInv'
  <2>1. RowsSettle
    BY <1>10 DEF AskScout, RowsSettle
  <2>2. PICK o \in ScoutOps \ asked[w] : Ask(w, o, 0, 1, FALSE)
    BY <1>10 DEF AskScout
  <2>3. o \in Ops /\ held' = held /\ calls' = calls
    BY <1>10 DEF AskScout, Ops
  <2>4. CallersStay /\ AsksAfterSpent
    BY <1>10, <2>2, <2>3 DEF AskScout, Ask, TypeInv, WorkerTypes, CallersStay, AsksAfterSpent, OpPcs, Goto
  <2> QED
    BY <2>1, <2>3, <2>4, SettlingKeeps
<1>11. ASSUME NEW w \in Workers, AcceptScout(w) PROVE LedgerInv'
  <2>1. RowsSettle
    BY <1>11 DEF AcceptScout, RowsSettle
  <2> QED
    BY <1>11, <2>1, ForgetKeeps DEF AcceptScout, Pcs, OpPcs
<1>12. ASSUME NEW w \in Workers, CommitCohort(w) PROVE LedgerInv'
  <2>1. RowsSettle
    BY <1>12 DEF CommitCohort, RowsSettle
  <2>2. CallersStay /\ AsksAfterSpent
    BY <1>12 DEF CommitCohort, TypeInv, WorkerTypes, CallersStay, AsksAfterSpent, OpPcs, Goto, opVars
  <2> QED
    BY <1>12, <2>1, <2>2, SettlingKeeps DEF CommitCohort
<1>13. ASSUME NEW w \in Workers, AskRole(w) PROVE LedgerInv'
  <2>1. RowsSettle
    BY <1>13 DEF AskRole, RowsSettle
  <2>2. PICK i \in Upcoming, role \in Roles : Ask(w, <<cohort[i], role>>, 0, 1, FALSE)
    BY <1>13 DEF AskRole
  <2>3. <<cohort[i], role>> \in Ops
    BY DEF Upcoming, TypeInv, RunTypes, Ops, RoleOps
  <2>4. held' = held /\ calls' = calls
    BY <1>13 DEF AskRole
  <2>5. CallersStay /\ AsksAfterSpent
    BY <1>13, <2>2, <2>3, <2>4 DEF AskRole, Ask, TypeInv, WorkerTypes, CallersStay, AsksAfterSpent, OpPcs, Goto
  <2> QED
    BY <2>1, <2>4, <2>5, SettlingKeeps
<1>14. ASSUME NEW w \in Workers, AcceptRole(w) PROVE LedgerInv'
  <2>1. RowsSettle
    BY <1>14 DEF AcceptRole, RowsSettle
  <2> QED
    BY <1>14, <2>1, ForgetKeeps DEF AcceptRole, Pcs, OpPcs
<1>15. ASSUME NEW w \in Workers, Repair(w) PROVE LedgerInv'
  <2>0. op[w] \in Ops /\ try[w] \in Tries
    BY <1>15 DEF Repair, TypeInv, WorkerTypes, HasOp, OpPcs
  <2>1. RowsSettle
    BY <1>15 DEF Repair, RowsSettle
  <2>2. CASE Ask(w, op[w], 1, 2, TRUE)
    <3>1. ledger[op[w]][1].outcome \in SpentOutcomes
      <4>1. CASE try[w] = 1
        BY <1>15, <4>1 DEF Repair, Row, SpentOutcomes
      <4>2. CASE try[w] = 2
        BY <1>15, <4>2 DEF Repair, LedgerInv, AskedAfterSpent, OpPcs
      <4> QED
        BY <2>0, <4>1, <4>2 DEF Tries
    <3> QED
      BY <1>15, <2>0, <2>1, <2>2, <3>1, AskKeeps DEF Repair, Tries
  <2>3. CASE Goto(w, "fail") /\ Forget(w)
    BY <1>15, <2>1, <2>3, ForgetKeeps DEF Repair, Pcs, OpPcs
  <2> QED
    BY <1>15, <2>2, <2>3 DEF Repair
<1>16. ASSUME NEW w \in Workers, Assess(w) PROVE LedgerInv'
  <2>1. RowsSettle
    BY <1>16 DEF Assess, RowsSettle
  <2>2. CallersStay /\ AsksAfterSpent
    BY <1>16 DEF Assess, TypeInv, WorkerTypes, CallersStay, AsksAfterSpent, OpPcs, Goto, opVars, workerVars
  <2> QED
    BY <1>16, <2>1, <2>2, SettlingKeeps DEF Assess
<1>17. ASSUME NEW w \in Workers, ResearchFails(w) PROVE LedgerInv'
  <2>1. RowsSettle
    BY <1>17 DEF ResearchFails, RowsSettle
  <2> QED
    BY <1>17, <2>1, ForgetKeeps DEF ResearchFails, Pcs, OpPcs
<1>18. ASSUME NEW w \in Workers, FailCompany(w) PROVE LedgerInv'
  <2>1. RowsSettle
    BY <1>18 DEF FailCompany, RowsSettle
  <2>2. CallersStay /\ AsksAfterSpent
    BY <1>18 DEF FailCompany, TypeInv, WorkerTypes, CallersStay, AsksAfterSpent, OpPcs, Goto, opVars
  <2> QED
    BY <1>18, <2>1, <2>2, SettlingKeeps DEF FailCompany
<1>19. ASSUME NEW w \in Workers, Conclude(w) PROVE LedgerInv'
  <2>1. RowsSettle
    BY <1>19 DEF Conclude, RowsSettle
  <2>2. CallersStay /\ AsksAfterSpent
    BY <1>19 DEF Conclude, TypeInv, WorkerTypes, CallersStay, AsksAfterSpent, OpPcs, Goto, opVars
  <2> QED
    BY <1>19, <2>1, <2>2, SettlingKeeps DEF Conclude
<1>20. ASSUME NEW w \in Workers, End(w) PROVE LedgerInv'
  <2>1. RowsSettle
    BY <1>20 DEF End, RowsSettle
  <2>2. \A v \in Workers \ {w} : held'[v] = held[v]
    BY <1>20 DEF End, Leave, TypeInv, WorkerTypes
  <2> QED
    BY <1>20, <2>1, <2>2, ForgetKeeps DEF End, Leave, Pcs, OpPcs
<1>21. ASSUME NEW w \in Workers, LeaseLost(w) PROVE LedgerInv'
  <2>1. RowsSettle
    BY <1>21 DEF LeaseLost, RowsSettle
  <2>2. \A v \in Workers \ {w} : held'[v] = held[v]
    BY <1>21 DEF LeaseLost, Leave, TypeInv, WorkerTypes
  <2> QED
    BY <1>21, <2>1, <2>2, ForgetKeeps DEF LeaseLost, Leave, Pcs, OpPcs
<1>22. ASSUME NEW w \in Workers, StopEarly(w) PROVE LedgerInv'
  <2>1. RowsSettle
    BY <1>22 DEF StopEarly, RowsSettle
  <2> QED
    BY <1>22, <2>1, ForgetKeeps DEF StopEarly, Pcs, OpPcs
<1>23. ASSUME NEW w \in Workers, Crash(w) PROVE LedgerInv'
  <2>1. RowsSettle
    BY <1>23 DEF Crash, RowsSettle
  <2>2. \A v \in Workers \ {w} : held'[v] = held[v]
    BY <1>23 DEF Crash, Leave, TypeInv, WorkerTypes
  <2> QED
    BY <1>23, <2>1, <2>2, ForgetKeeps DEF Crash, Leave, Pcs, OpPcs
<1>24. ASSUME RequestCancel PROVE LedgerInv'
  <2>1. RowsSettle
    BY <1>24 DEF RequestCancel, RowsSettle
  <2>2. CallersStay /\ AsksAfterSpent
    BY <1>24 DEF RequestCancel, TypeInv, WorkerTypes, CallersStay, AsksAfterSpent, OpPcs, Goto, opVars, workerVars
  <2> QED
    BY <1>24, <2>1, <2>2, SettlingKeeps DEF RequestCancel, workerVars
<1>25. ASSUME ExpireLease PROVE LedgerInv'
  <2>1. RowsSettle
    BY <1>25 DEF ExpireLease, RowsSettle
  <2>2. CallersStay /\ AsksAfterSpent
    BY <1>25 DEF ExpireLease, TypeInv, WorkerTypes, CallersStay, AsksAfterSpent, OpPcs, Goto, opVars, workerVars
  <2> QED
    BY <1>25, <2>1, <2>2, SettlingKeeps DEF ExpireLease, workerVars
<1>26. ASSUME UNCHANGED vars PROVE LedgerInv'
  <2>1. RowsSettle
    BY <1>26 DEF vars, RowsSettle
  <2>2. CallersStay /\ AsksAfterSpent
    BY <1>26 DEF vars, TypeInv, WorkerTypes, CallersStay, AsksAfterSpent, OpPcs, Goto, opVars, workerVars
  <2> QED
    BY <1>26, <2>1, <2>2, SettlingKeeps DEF vars, workerVars
<1> QED
  BY <1>1, <1>2, <1>3, <1>4, <1>5, <1>6, <1>7, <1>8, <1>9, <1>9a,
     <1>10, <1>11, <1>12, <1>13, <1>14, <1>15, <1>16, <1>17, <1>18,
     <1>19, <1>20, <1>21, <1>22, <1>23, <1>24, <1>25, <1>26
     DEF Next, Step

\* A reservation pays for at most one call, and no call is made without one
\* (reserveAttempt, providerAttempt), whoever crashes or is replaced.
THEOREM PaidOnce == Spec => []OneCallPerRow
<1>1. TypeInv /\ LedgerInv => OneCallPerRow
  <2> SUFFICES ASSUME TypeInv, LedgerInv, NEW o \in Ops, NEW n \in Tries
               PROVE  calls[o][n] <= (IF <<o, n>> \in Rows THEN 1 ELSE 0)
    BY DEF OneCallPerRow
  <2>1. <<o, n>> \in Rows <=> ledger[o][n].outcome # "none"
    BY DEF Rows
  <2>2. calls[o][n] <= 1 /\ (ledger[o][n].outcome = "none" => calls[o][n] = 0)
    BY DEF LedgerInv, CallsPaid
  <2> QED
    BY <2>1, <2>2
<1> QED
  BY <1>1, TypeInit, TypeStep, LedgerInit, LedgerStep, PTL DEF Spec

\* A validated answer to the first attempt is never paid for again: attempt 2
\* is only made when attempt 1 is spent.
THEOREM ValidIsEnough == Spec => []ValidEndsOp
<1>1. LedgerInv => ValidEndsOp
  BY DEF LedgerInv, SecondAfterSpent, SpentOutcomes, ValidEndsOp
<1> QED
  BY <1>1, TypeInit, TypeStep, LedgerInit, LedgerStep, PTL DEF Spec

-----------------------------------------------------------------------------
(* Who changes a row, and when.                                            *)

\* Rows that are settled become unknown, or get their outcome under the lease
\* that reserved them.
SettleInTime ==
    \A o \in Ops, n \in Tries :
        \/ ledger'[o][n] = ledger[o][n]
        \/ /\ ledger[o][n].outcome = "reserved"
           /\ \/ ledger'[o][n].outcome = "unknown"
              \/ /\ ledger'[o][n].outcome \in Settled
                 /\ ledger[o][n].epoch = epoch /\ lease = "live"

LEMMA FinishInTime ==
    ASSUME TypeInv, LedgerInv, NEW w \in Workers, Finishes(w),
           NEW out \in Settled, Settle(op[w], try[w], out)
    PROVE  SettleInTime
<1>1. op[w] \in Ops /\ try[w] \in Tries
  BY DEF Finishes, TypeInv, WorkerTypes, HasOp, OpPcs
<1>2. Row(w).outcome = "reserved" /\ Row(w).epoch = epoch /\ lease = "live"
  BY DEF Finishes, Holds, LedgerInv, CallerHasRow
<1> QED
  BY <1>1, <1>2 DEF TypeInv, LedgerType, Settle, Row, SettleInTime, NoRow

\* Every step settles rows in time and charges nothing, or it reserves.
LEMMA StepSettles ==
    TypeInv /\ LedgerInv /\ [Next]_vars =>
        \/ SettleInTime /\ used' = used
        \/ \E w \in Workers : ReserveNew(w)
<1> SUFFICES ASSUME TypeInv, LedgerInv, [Next]_vars,
                    ~\E w \in Workers : ReserveNew(w)
             PROVE  SettleInTime /\ used' = used
  OBVIOUS
<1>1. ASSUME NEW w \in Workers, Claim(w) PROVE SettleInTime /\ used' = used
  BY <1>1 DEF Claim, SettleInTime
<1>2. ASSUME NEW w \in Workers, ReserveNew(w) PROVE SettleInTime /\ used' = used
  BY <1>2
<1>3. ASSUME NEW w \in Workers, RefuseNew(w) PROVE SettleInTime /\ used' = used
  BY <1>3 DEF RefuseNew, SettleInTime
<1>4. ASSUME NEW w \in Workers, UseCached(w) PROVE SettleInTime /\ used' = used
  BY <1>4 DEF UseCached, SettleInTime
<1>5. ASSUME NEW w \in Workers, Spent(w) PROVE SettleInTime /\ used' = used
  <2>1. CASE Row(w).outcome = "reserved"
    <3>1. op[w] \in Ops /\ try[w] \in Tries
      BY <1>5 DEF Spent, TypeInv, WorkerTypes, HasOp, OpPcs
    <3>2. Settle(op[w], try[w], "unknown")
      BY <1>5, <2>1 DEF Spent
    <3>3. SettleInTime
      BY <2>1, <3>1, <3>2 DEF TypeInv, LedgerType, Settle, Row, SettleInTime, NoRow
    <3> QED
      BY <1>5, <3>3 DEF Spent
  <2>2. CASE Row(w).outcome # "reserved"
    BY <1>5, <2>2 DEF Spent, SettleInTime
  <2> QED
    BY <2>1, <2>2
<1>6. ASSUME NEW w \in Workers, Dispatch(w) PROVE SettleInTime /\ used' = used
  BY <1>6 DEF Dispatch, SettleInTime
<1>7. ASSUME NEW w \in Workers, Answer(w) PROVE SettleInTime /\ used' = used
  <2>1. PICK a \in Answers : Settle(op[w], try[w], a)
    BY <1>7 DEF Answer
  <2> QED
    BY <1>7, <2>1, FinishInTime DEF Answer, Answers, Settled
<1>8. ASSUME NEW w \in Workers, CallFails(w) PROVE SettleInTime /\ used' = used
  BY <1>8, FinishInTime DEF CallFails, Settled
<1>9. ASSUME NEW w \in Workers, FinishFails(w) PROVE SettleInTime /\ used' = used
  <2>1. CASE UNCHANGED ledger
    BY <1>9, <2>1 DEF FinishFails, SettleInTime
  <2>2. CASE \E a \in Answers : Settle(op[w], try[w], a)
    <3>1. PICK a \in Answers : Settle(op[w], try[w], a)
      BY <2>2
    <3> QED
      BY <1>9, <3>1, FinishInTime DEF FinishFails, Answers, Settled
  <2> QED
    BY <1>9, <2>1, <2>2 DEF FinishFails
<1>9a. ASSUME NEW w \in Workers, DispatchFails(w) PROVE SettleInTime /\ used' = used
  BY <1>9a DEF DispatchFails, SettleInTime
<1>10. ASSUME NEW w \in Workers, AskScout(w) PROVE SettleInTime /\ used' = used
  BY <1>10 DEF AskScout, SettleInTime
<1>11. ASSUME NEW w \in Workers, AcceptScout(w) PROVE SettleInTime /\ used' = used
  BY <1>11 DEF AcceptScout, SettleInTime
<1>12. ASSUME NEW w \in Workers, CommitCohort(w) PROVE SettleInTime /\ used' = used
  BY <1>12 DEF CommitCohort, SettleInTime
<1>13. ASSUME NEW w \in Workers, AskRole(w) PROVE SettleInTime /\ used' = used
  BY <1>13 DEF AskRole, SettleInTime
<1>14. ASSUME NEW w \in Workers, AcceptRole(w) PROVE SettleInTime /\ used' = used
  BY <1>14 DEF AcceptRole, SettleInTime
<1>15. ASSUME NEW w \in Workers, Repair(w) PROVE SettleInTime /\ used' = used
  BY <1>15 DEF Repair, SettleInTime
<1>16. ASSUME NEW w \in Workers, Assess(w) PROVE SettleInTime /\ used' = used
  BY <1>16 DEF Assess, SettleInTime
<1>17. ASSUME NEW w \in Workers, ResearchFails(w) PROVE SettleInTime /\ used' = used
  BY <1>17 DEF ResearchFails, SettleInTime
<1>18. ASSUME NEW w \in Workers, FailCompany(w) PROVE SettleInTime /\ used' = used
  BY <1>18 DEF FailCompany, SettleInTime
<1>19. ASSUME NEW w \in Workers, Conclude(w) PROVE SettleInTime /\ used' = used
  BY <1>19 DEF Conclude, SettleInTime
<1>20. ASSUME NEW w \in Workers, End(w) PROVE SettleInTime /\ used' = used
  BY <1>20 DEF End, SettleInTime
<1>21. ASSUME NEW w \in Workers, LeaseLost(w) PROVE SettleInTime /\ used' = used
  BY <1>21 DEF LeaseLost, SettleInTime
<1>22. ASSUME NEW w \in Workers, StopEarly(w) PROVE SettleInTime /\ used' = used
  BY <1>22 DEF StopEarly, SettleInTime
<1>23. ASSUME NEW w \in Workers, Crash(w) PROVE SettleInTime /\ used' = used
  BY <1>23 DEF Crash, SettleInTime
<1>24. ASSUME RequestCancel PROVE SettleInTime /\ used' = used
  BY <1>24 DEF RequestCancel, SettleInTime
<1>25. ASSUME ExpireLease PROVE SettleInTime /\ used' = used
  BY <1>25 DEF ExpireLease, SettleInTime
<1>26. ASSUME UNCHANGED vars PROVE SettleInTime /\ used' = used
  BY <1>26 DEF vars, SettleInTime
<1> QED
  BY <1>1, <1>2, <1>3, <1>4, <1>5, <1>6, <1>7, <1>8, <1>9, <1>9a,
     <1>10, <1>11, <1>12, <1>13, <1>14, <1>15, <1>16, <1>17, <1>18,
     <1>19, <1>20, <1>21, <1>22, <1>23, <1>24, <1>25, <1>26
     DEF Next, Step

\* A row is settled once, and with an outcome only under the lease that made the
\* reservation (finishAttempt): late answers are dropped.
THEOREM LateAnswersDropped == Spec => SettledOnce
<1>1. TypeInv /\ LedgerInv /\ [Next]_vars =>
        [\A o \in Ops, n \in Tries :
           ledger'[o][n] # ledger[o][n] =>
            \/ ledger[o][n].outcome = "none"
            \/ /\ ledger[o][n].outcome = "reserved"
               /\ \/ ledger'[o][n].outcome = "unknown"
                  \/ ledger[o][n].epoch = epoch /\ lease = "live"]_vars
  <2> SUFFICES ASSUME TypeInv, LedgerInv, [Next]_vars,
                      NEW o \in Ops, NEW n \in Tries,
                      ledger'[o][n] # ledger[o][n]
               PROVE  \/ ledger[o][n].outcome = "none"
                      \/ /\ ledger[o][n].outcome = "reserved"
                         /\ \/ ledger'[o][n].outcome = "unknown"
                            \/ ledger[o][n].epoch = epoch /\ lease = "live"
    OBVIOUS
  <2>1. CASE SettleInTime
    BY <2>1 DEF SettleInTime
  <2>2. ASSUME NEW w \in Workers, ReserveNew(w)
        PROVE  ledger[o][n].outcome = "none"
    <3>1. op[w] \in Ops /\ try[w] \in Tries
      BY <2>2 DEF ReserveNew, TypeInv, WorkerTypes, HasOp, OpPcs
    <3>2. Row(w).outcome = "none"
      BY <2>2 DEF ReserveNew, Free
    <3>3. o = op[w] /\ n = try[w]
      BY <2>2, <3>1 DEF ReserveNew, TypeInv, LedgerType
    <3> QED
      BY <3>2, <3>3 DEF Row
  <2> QED
    BY <2>1, <2>2, StepSettles
<1> QED
  BY <1>1, TypeInit, TypeStep, LedgerInit, LedgerStep, PTL DEF Spec, SettledOnce

-----------------------------------------------------------------------------
(* The usage counter is the number of rows.                                *)

UsageInv == UsageCounted /\ IsFiniteSet(Rows)

LEMMA UsageInit == Init => UsageInv
<1> SUFFICES ASSUME Init PROVE UsageInv
  OBVIOUS
<1>1. Rows = {}
  BY DEF Init, Rows, NoRow
<1>2. used = 0 /\ Limit \in Nat
  BY LimitAssumption DEF Init
<1> QED
  BY <1>1, <1>2, FS_EmptySet DEF UsageInv, UsageCounted

\* Settling keeps the set of rows.
LEMMA SettledRows ==
    ASSUME SettleInTime
    PROVE  Rows' = Rows
<1>1. ASSUME NEW r \in Ops \X Tries
      PROVE  ledger'[r[1]][r[2]].outcome # "none" <=> ledger[r[1]][r[2]].outcome # "none"
  BY DEF SettleInTime, Settled
<1> QED
  BY <1>1 DEF Rows

\* A reservation adds one.
LEMMA ReservedRows ==
    ASSUME TypeInv, NEW w \in Workers, ReserveNew(w)
    PROVE  /\ Rows' = Rows \cup {<<op[w], try[w]>>}
           /\ <<op[w], try[w]>> \notin Rows
           /\ op[w] \in Ops /\ try[w] \in Tries
<1>1. op[w] \in Ops /\ try[w] \in Tries
  BY DEF ReserveNew, TypeInv, WorkerTypes, HasOp, OpPcs
<1>2. ledger[op[w]][try[w]].outcome = "none"
  BY DEF ReserveNew, Free, Row
<1>3. ASSUME NEW o \in Ops, NEW n \in Tries
      PROVE  ledger'[o][n].outcome # "none" <=>
                \/ o = op[w] /\ n = try[w]
                \/ ledger[o][n].outcome # "none"
  BY <1>1 DEF ReserveNew, TypeInv, LedgerType
<1>4. ASSUME NEW r \in Ops \X Tries
      PROVE  r \in Rows' <=> r \in Rows \cup {<<op[w], try[w]>>}
  <2>1. PICK o \in Ops, n \in Tries : r = <<o, n>>
    OBVIOUS
  <2> QED
    BY <1>3, <2>1 DEF Rows
<1>5. Rows \subseteq Ops \X Tries /\ Rows' \subseteq Ops \X Tries
  BY DEF Rows
<1>6. <<op[w], try[w]>> \in Ops \X Tries
  BY <1>1
<1>7. <<op[w], try[w]>> \notin Rows
  BY <1>2 DEF Rows
<1> QED
  BY <1>1, <1>4, <1>5, <1>6, <1>7

LEMMA UsageStep == TypeInv /\ LedgerInv /\ UsageInv /\ [Next]_vars => UsageInv'
<1> SUFFICES ASSUME TypeInv, LedgerInv, UsageInv, [Next]_vars PROVE UsageInv'
  OBVIOUS
<1>1. CASE SettleInTime /\ used' = used
  BY <1>1, SettledRows DEF UsageInv, UsageCounted
<1>2. ASSUME NEW w \in Workers, ReserveNew(w) PROVE UsageInv'
  <2>1. used' = used + 1 /\ used < Limit /\ used \in Nat /\ Limit \in Nat
    BY <1>2, LimitAssumption DEF ReserveNew, Affordable, TypeInv, RunTypes
  <2>2. /\ IsFiniteSet(Rows')
        /\ Cardinality(Rows') = Cardinality(Rows) + 1
    <3>1. /\ Rows' = Rows \cup {<<op[w], try[w]>>}
          /\ <<op[w], try[w]>> \notin Rows
      BY <1>2, ReservedRows
    <3>2. IsFiniteSet(Rows)
      BY DEF UsageInv
    <3> HIDE DEF Rows
    <3> QED
      BY <3>1, <3>2, FS_AddElement
  <2> QED
    BY <2>1, <2>2 DEF UsageInv, UsageCounted
<1> QED
  BY <1>1, <1>2, StepSettles

\* The usage of the run is the number of its reservations, and never more than
\* the limit (reserveRunBudget).
THEOREM UsageIsLedger == Spec => []UsageCounted
<1>1. UsageInv => UsageCounted
  BY DEF UsageInv
<1> QED
  BY <1>1, TypeInit, TypeStep, LedgerInit, LedgerStep, UsageInit, UsageStep, PTL
     DEF Spec

==============================================================================
