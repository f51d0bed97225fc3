------------------- MODULE DiscoveryAttemptsHolder_proofs -------------------
(***************************************************************************)
(* Proofs about the holder of the lease in DiscoveryAttempts: it never     *)
(* meets a reservation of its own, and the first calls of the selected     *)
(* companies are always granted.                                           *)
(***************************************************************************)
EXTENDS DiscoveryAttempts_proofs

-----------------------------------------------------------------------------
(* The holder of the lease.  A worker is current when no later claim was   *)
(* made; only a current worker changes the run.                            *)

Current(w) == pc[w] # "idle" /\ held[w] = epoch

\* The company the loop has come to.
Facing(c) == \E i \in Upcoming : cohort[i] = c

\* There is at most one current worker.
EpochInv ==
    /\ \A w \in Workers : held[w] <= epoch /\ (held[w] = 0 <=> pc[w] = "idle")
    /\ lease = "live" => epoch > 0
    /\ \A v, w \in Workers : Current(v) /\ Current(w) => v = w

\* Where a current worker may be: Scout before the cohort is committed, the
\* company loop after it, and a role is asked about the company at hand.
PlaceInv ==
    \A w \in Workers : Current(w) =>
        /\ pc[w] = "scout" => ~committed
        /\ pc[w] \in {"next", "fail"} => committed
        /\ pc[w] \in OpPcs /\ op[w] \in ScoutOps => ~committed /\ op[w] \notin asked[w]
        /\ pc[w] \in OpPcs /\ op[w] \in RoleOps => committed /\ Facing(op[w][1])

\* Before the cohort there are no companies and no rows of theirs.
BeforeCohort ==
    ~committed =>
        /\ cohort = <<>> /\ assessed = {} /\ failed = {}
        /\ \A o \in RoleOps, n \in Tries : ledger[o][n].outcome = "none"

PlacesInv == EpochInv /\ PlaceInv /\ BeforeCohort

\* An operation the worker will not ask for again under its lease.
Abandoned(w, o) ==
    \/ pc[w] = "end"
    \/ o \in ScoutOps /\ (committed \/ o \in asked[w])
    \/ o \in RoleOps /\ o[1] \in failed
    \/ o \in RoleOps /\ pc[w] = "fail" /\ Facing(o[1])

\* Who holds a reservation of its present lease is in its call, or will not ask
\* for it again.
ReservedInv ==
    \A o \in Ops, n \in Tries, w \in Workers :
        /\ ledger[o][n].outcome = "reserved" => ledger[o][n].epoch \in 1..epoch
        /\ /\ ledger[o][n].outcome = "reserved"
           /\ ledger[o][n].worker = w /\ ledger[o][n].epoch = held[w]
           /\ Current(w)
           => \/ pc[w] \in {"dispatch", "call"} /\ op[w] = o /\ try[w] = n
              \/ Abandoned(w, o)

\* What is owed to the selected companies fits into the budget.
FloorInv == committed => used + Cardinality(Unheard) <= Limit

LEMMA FacingOne ==
    ASSUME TypeInv, NEW c, NEW d, Facing(c), Facing(d)
    PROVE  c = d /\ c \in Elems(cohort) /\ c \notin failed /\ c \in Companies
<1>1. PICK i \in Upcoming : cohort[i] = c
  BY DEF Facing
<1>2. PICK j \in Upcoming : cohort[j] = d
  BY DEF Facing
<1>3. /\ i \in DOMAIN cohort /\ j \in DOMAIN cohort
      /\ Pending(i) /\ \A k \in 1..(i - 1) : ~Pending(k)
      /\ Pending(j) /\ \A k \in 1..(j - 1) : ~Pending(k)
  BY <1>1, <1>2 DEF Upcoming
<1>4. DOMAIN cohort \subseteq Nat \ {0} /\ cohort \in Seq(Companies)
  BY DEF TypeInv, RunTypes
<1>5. i = j
  <2>1. ~(i < j) /\ ~(j < i)
    BY <1>3, <1>4
  <2> QED
    BY <1>3, <1>4, <2>1
<1> QED
  BY <1>1, <1>2, <1>3, <1>4, <1>5 DEF Pending, Elems

LEMMA FacingSame ==
    ASSUME UNCHANGED <<cohort, assessed, failed>>, NEW c
    PROVE  Facing(c)' <=> Facing(c)
BY DEF Facing, Upcoming, Pending

\* Who passes the fence is current.
LEMMA HolderCurrent ==
    ASSUME EpochInv, NEW w \in Workers, Holds(w)
    PROVE  Current(w)
BY DEF EpochInv, Holds, Current

LEMMA PlacesInit == Init => PlacesInv /\ ReservedInv /\ FloorInv
<1> SUFFICES ASSUME Init PROVE PlacesInv /\ ReservedInv /\ FloorInv
  OBVIOUS
<1>1. EpochInv /\ PlaceInv
  BY DEF Init, EpochInv, PlaceInv, Current
<1>2. BeforeCohort
  BY DEF Init, BeforeCohort, NoRow, Ops
<1>3. ReservedInv /\ FloorInv
  BY DEF Init, ReservedInv, NoRow, FloorInv
<1> QED
  BY <1>1, <1>2, <1>3 DEF PlacesInv

\* The company rows are changed by three actions only.
Selection == <<committed, cohort, assessed, failed>>
LEMMA SelectionStep ==
    [Next]_vars =>
        \/ UNCHANGED Selection
        \/ \E w \in Workers : CommitCohort(w) \/ Assess(w) \/ FailCompany(w)
<1> SUFFICES ASSUME [Next]_vars,
                    ~\E w \in Workers : CommitCohort(w) \/ Assess(w) \/ FailCompany(w)
             PROVE  UNCHANGED Selection
  OBVIOUS
<1>1. ASSUME NEW w \in Workers, Claim(w) PROVE UNCHANGED Selection
  BY <1>1 DEF Claim, companyVars, Selection
<1>2. ASSUME NEW w \in Workers, ReserveNew(w) PROVE UNCHANGED Selection
  BY <1>2 DEF ReserveNew, companyVars, Selection
<1>3. ASSUME NEW w \in Workers, RefuseNew(w) PROVE UNCHANGED Selection
  BY <1>3 DEF RefuseNew, companyVars, Selection
<1>4. ASSUME NEW w \in Workers, UseCached(w) PROVE UNCHANGED Selection
  BY <1>4 DEF UseCached, companyVars, Selection
<1>5. ASSUME NEW w \in Workers, Spent(w) PROVE UNCHANGED Selection
  BY <1>5 DEF Spent, companyVars, Selection
<1>6. ASSUME NEW w \in Workers, Dispatch(w) PROVE UNCHANGED Selection
  BY <1>6 DEF Dispatch, companyVars, Selection
<1>7. ASSUME NEW w \in Workers, Answer(w) PROVE UNCHANGED Selection
  BY <1>7 DEF Answer, companyVars, Selection
<1>8. ASSUME NEW w \in Workers, CallFails(w) PROVE UNCHANGED Selection
  BY <1>8 DEF CallFails, companyVars, Selection
<1>9. ASSUME NEW w \in Workers, FinishFails(w) PROVE UNCHANGED Selection
  BY <1>9 DEF FinishFails, companyVars, Selection
<1>9a. ASSUME NEW w \in Workers, DispatchFails(w) PROVE UNCHANGED Selection
  BY <1>9a DEF DispatchFails, companyVars, Selection
<1>10. ASSUME NEW w \in Workers, AskScout(w) PROVE UNCHANGED Selection
  BY <1>10 DEF AskScout, companyVars, Selection
<1>11. ASSUME NEW w \in Workers, AcceptScout(w) PROVE UNCHANGED Selection
  BY <1>11 DEF AcceptScout, companyVars, Selection
<1>12. ASSUME NEW w \in Workers, CommitCohort(w) PROVE UNCHANGED Selection
  BY <1>12
<1>13. ASSUME NEW w \in Workers, AskRole(w) PROVE UNCHANGED Selection
  BY <1>13 DEF AskRole, companyVars, Selection
<1>14. ASSUME NEW w \in Workers, AcceptRole(w) PROVE UNCHANGED Selection
  BY <1>14 DEF AcceptRole, Selection
<1>15. ASSUME NEW w \in Workers, Repair(w) PROVE UNCHANGED Selection
  BY <1>15 DEF Repair, companyVars, Selection
<1>16. ASSUME NEW w \in Workers, Assess(w) PROVE UNCHANGED Selection
  BY <1>16
<1>17. ASSUME NEW w \in Workers, ResearchFails(w) PROVE UNCHANGED Selection
  BY <1>17 DEF ResearchFails, companyVars, Selection
<1>18. ASSUME NEW w \in Workers, FailCompany(w) PROVE UNCHANGED Selection
  BY <1>18
<1>19. ASSUME NEW w \in Workers, Conclude(w) PROVE UNCHANGED Selection
  BY <1>19 DEF Conclude, companyVars, Selection
<1>20. ASSUME NEW w \in Workers, End(w) PROVE UNCHANGED Selection
  BY <1>20 DEF End, companyVars, Selection
<1>21. ASSUME NEW w \in Workers, LeaseLost(w) PROVE UNCHANGED Selection
  BY <1>21 DEF LeaseLost, companyVars, Selection
<1>22. ASSUME NEW w \in Workers, StopEarly(w) PROVE UNCHANGED Selection
  BY <1>22 DEF StopEarly, companyVars, Selection
<1>23. ASSUME NEW w \in Workers, Crash(w) PROVE UNCHANGED Selection
  BY <1>23 DEF Crash, companyVars, Selection
<1>24. ASSUME RequestCancel PROVE UNCHANGED Selection
  BY <1>24 DEF RequestCancel, companyVars, Selection
<1>25. ASSUME ExpireLease PROVE UNCHANGED Selection
  BY <1>25 DEF ExpireLease, companyVars, Selection
<1>26. ASSUME UNCHANGED vars PROVE UNCHANGED Selection
  BY <1>26 DEF vars, companyVars, Selection
<1> QED
  BY <1>1, <1>2, <1>3, <1>4, <1>5, <1>6, <1>7, <1>8, <1>9, <1>9a,
     <1>10, <1>11, <1>12, <1>13, <1>14, <1>15, <1>16, <1>17, <1>18,
     <1>19, <1>20, <1>21, <1>22, <1>23, <1>24, <1>25, <1>26
     DEF Next, Step

LEMMA BeforeStep ==
    TypeInv /\ LedgerInv /\ PlacesInv /\ [Next]_vars => BeforeCohort'
<1> SUFFICES ASSUME TypeInv, LedgerInv, PlacesInv, [Next]_vars, ~committed'
             PROVE  /\ cohort' = <<>> /\ assessed' = {} /\ failed' = {}
                    /\ \A o \in RoleOps, n \in Tries : ledger'[o][n].outcome = "none"
  BY DEF BeforeCohort
<1>1. ASSUME NEW w \in Workers PROVE ~CommitCohort(w)
  BY DEF CommitCohort
<1>2. ASSUME NEW w \in Workers, Assess(w) \/ FailCompany(w) PROVE FALSE
  <2>1. Current(w) /\ pc[w] \in {"next", "fail"} /\ committed' = committed
    BY <1>2, HolderCurrent DEF Assess, FailCompany, Fenced, PlacesInv
  <2> QED
    BY <2>1 DEF PlacesInv, PlaceInv
<1>3. UNCHANGED Selection
  BY <1>1, <1>2, SelectionStep
<1>4. /\ cohort = <<>> /\ assessed = {} /\ failed = {}
      /\ \A o \in RoleOps, n \in Tries : ledger[o][n].outcome = "none"
  BY <1>3 DEF Selection, PlacesInv, BeforeCohort
<1>5. ASSUME NEW o \in RoleOps, NEW n \in Tries
      PROVE  ledger'[o][n].outcome = "none"
  <2>1. CASE SettleInTime
    BY <1>4, <2>1 DEF SettleInTime, Ops
  <2>2. ASSUME NEW w \in Workers, ReserveNew(w)
        PROVE  ledger'[o][n].outcome = "none"
    <3>1. Current(w) /\ pc[w] = "ask"
      BY <2>2, HolderCurrent DEF ReserveNew, Fenced, PlacesInv
    <3>2. op[w] \notin RoleOps
      BY <1>3, <3>1 DEF PlacesInv, PlaceInv, OpPcs, Selection
    <3>3. ledger'[o][n] = ledger[o][n]
      BY <2>2, <3>2 DEF ReserveNew, TypeInv, LedgerType, Ops
    <3> QED
      BY <1>4, <3>3
  <2> QED
    BY <2>1, <2>2, StepSettles
<1> QED
  BY <1>3, <1>4, <1>5 DEF Selection

\* A step of worker w, which stays in its execution or leaves it.
OthersStay(w) ==
    \A v \in Workers \ {w} :
        /\ pc'[v] = pc[v] /\ held'[v] = held[v] /\ op'[v] = op[v]
        /\ try'[v] = try[v] /\ asked'[v] = asked[v]
StaysOrLeaves(w) ==
    \/ held'[w] = held[w] /\ pc[w] # "idle" /\ pc'[w] # "idle"
    \/ held'[w] = 0 /\ pc'[w] = "idle"
MayBe(w) ==
    /\ pc[w] = "scout" => ~committed
    /\ pc[w] \in {"next", "fail"} => committed
    /\ pc[w] \in OpPcs /\ op[w] \in ScoutOps => ~committed /\ op[w] \notin asked[w]
    /\ pc[w] \in OpPcs /\ op[w] \in RoleOps => committed /\ Facing(op[w][1])

LEMMA PlacesKeep ==
    ASSUME TypeInv, TypeInv', PlacesInv, BeforeCohort', NEW w \in Workers,
           epoch' = epoch, lease' = "live" => lease = "live",
           OthersStay(w), StaysOrLeaves(w),
           UNCHANGED Selection \/ Current(w),
           Current(w)' /\ Current(w) => MayBe(w)'
    PROVE  PlacesInv'
<1>1. ASSUME NEW v \in Workers, Current(v)' PROVE Current(v)
  <2>1. epoch \in Nat /\ held[v] \in Nat
    BY DEF TypeInv, WorkerTypes, RunTypes
  <2> QED
    BY <1>1, <2>1 DEF OthersStay, StaysOrLeaves, Current
<1>2. EpochInv'
  <2>1. ASSUME NEW v \in Workers
        PROVE  held'[v] <= epoch' /\ (held'[v] = 0 <=> pc'[v] = "idle")
    BY DEF PlacesInv, EpochInv, OthersStay, StaysOrLeaves, TypeInv, RunTypes
  <2>2. lease' = "live" => epoch' > 0
    BY DEF PlacesInv, EpochInv
  <2>3. ASSUME NEW u \in Workers, NEW v \in Workers, Current(u)', Current(v)'
        PROVE  u = v
    BY <1>1, <2>3 DEF PlacesInv, EpochInv
  <2> QED
    BY <2>1, <2>2, <2>3 DEF EpochInv
<1>3. ASSUME NEW v \in Workers, Current(v)', v # w PROVE MayBe(v)'
  <2>1. Current(v)
    BY <1>1, <1>3
  <2>2. UNCHANGED Selection
    BY <1>3, <2>1 DEF PlacesInv, EpochInv
  <2>3. MayBe(v)
    BY <2>1 DEF PlacesInv, PlaceInv, MayBe
  <2> QED
    BY <1>3, <2>2, <2>3, FacingSame DEF OthersStay, MayBe, Selection
<1>4. ASSUME NEW v \in Workers, Current(v)' PROVE MayBe(v)'
  BY <1>1, <1>3, <1>4
<1>5. PlaceInv'
  BY <1>4 DEF PlaceInv, MayBe
<1> QED
  BY <1>2, <1>5 DEF PlacesInv

\* The operation in hand is of one kind.
LEMMA OpKinds ==
    ASSUME TypeInv, NEW w \in Workers, pc[w] \in OpPcs
    PROVE  /\ op[w] \in ScoutOps \/ op[w] \in RoleOps
           /\ ~(op[w] \in ScoutOps /\ op[w] \in RoleOps)
BY ScoutAssumption DEF TypeInv, WorkerTypes, HasOp, Ops

LEMMA PlacesStep ==
    TypeInv /\ LedgerInv /\ PlacesInv /\ [Next]_vars => PlacesInv'
<1> SUFFICES ASSUME TypeInv, LedgerInv, PlacesInv, [Next]_vars PROVE PlacesInv'
  OBVIOUS
<1>0. TypeInv' /\ BeforeCohort'
  BY TypeStep, BeforeStep
<1> USE <1>0 DEF runVars, companyVars
<1>1. ASSUME NEW w \in Workers, Claim(w) PROVE PlacesInv'
  <2>1. OthersStay(w) /\ epoch' = epoch + 1 /\ held'[w] = epoch'
    BY <1>1 DEF Claim, TypeInv, WorkerTypes, OthersStay, Goto, opVars
  <2>2. pc'[w] = (IF committed THEN "next" ELSE "scout") /\ UNCHANGED Selection
    BY <1>1 DEF Claim, TypeInv, WorkerTypes, Goto, Selection, companyVars
  <2>3. epoch \in Nat
    BY DEF TypeInv, RunTypes
  <2>4. ASSUME NEW v \in Workers, v # w
        PROVE  /\ ~Current(v)' /\ held'[v] <= epoch'
               /\ held'[v] = 0 <=> pc'[v] = "idle"
    <3>1. held[v] \in Nat /\ held[v] <= epoch /\ (held[v] = 0 <=> pc[v] = "idle")
      BY DEF PlacesInv, EpochInv, TypeInv, WorkerTypes
    <3> QED
      BY <2>1, <2>3, <2>4, <3>1 DEF OthersStay, Current
  <2>5. EpochInv'
    BY <2>1, <2>2, <2>3, <2>4 DEF EpochInv
  <2>6. MayBe(w)'
    BY <2>2 DEF MayBe, Selection, OpPcs
  <2>7. PlaceInv'
    BY <2>4, <2>6 DEF PlaceInv, MayBe
  <2> QED
    BY <2>5, <2>7 DEF PlacesInv
<1>2. ASSUME NEW w \in Workers, ReserveNew(w) PROVE PlacesInv'
  <2>1. OthersStay(w)
    BY <1>2 DEF ReserveNew, TypeInv, WorkerTypes, OthersStay, opVars, Goto
  <2>2. StaysOrLeaves(w)
    BY <1>2 DEF ReserveNew, TypeInv, WorkerTypes, StaysOrLeaves, Pcs, Goto
  <2>3. UNCHANGED Selection
    BY <1>2 DEF ReserveNew, Selection
  <2>4. ASSUME Current(w) PROVE MayBe(w)'
    <3>1. MayBe(w)
      BY <2>4 DEF PlacesInv, PlaceInv, MayBe
    <3>2. pc[w] \in OpPcs /\ pc'[w] \in OpPcs /\ op'[w] = op[w] /\ asked'[w] = asked[w]
      BY <1>2 DEF ReserveNew, OpPcs, TypeInv, WorkerTypes, opVars, Goto
    <3> QED
      BY <2>3, <3>1, <3>2, FacingSame DEF MayBe, Selection, OpPcs
  <2> QED
    BY <1>2, <2>1, <2>2, <2>3, <2>4, PlacesKeep DEF ReserveNew
<1>3. ASSUME NEW w \in Workers, RefuseNew(w) PROVE PlacesInv'
  <2>1. OthersStay(w)
    BY <1>3 DEF RefuseNew, TypeInv, WorkerTypes, OthersStay, opVars, Goto, Forget, Exhausted
  <2>2. StaysOrLeaves(w)
    BY <1>3 DEF RefuseNew, TypeInv, WorkerTypes, StaysOrLeaves, Pcs, Goto, Forget, Exhausted
  <2>3. UNCHANGED Selection
    BY <1>3 DEF RefuseNew, Selection
  <2>4. ASSUME Current(w) PROVE MayBe(w)'
    <3>1. MayBe(w) /\ pc[w] \in OpPcs
      BY <1>3, <2>4 DEF RefuseNew, PlacesInv, PlaceInv, MayBe, OpPcs
    <3>2. pc'[w] \in {"scout", "fail", "end"}
      BY <1>3 DEF RefuseNew, TypeInv, WorkerTypes, Exhausted, OpFails, Conflicts, Goto
    <3>3. pc'[w] = "scout" => op[w] \in ScoutOps
      BY <1>3 DEF RefuseNew, TypeInv, WorkerTypes, Exhausted, OpFails, Conflicts, Goto
    <3>4. pc'[w] = "fail" => op[w] \notin ScoutOps
      BY <1>3 DEF RefuseNew, TypeInv, WorkerTypes, Exhausted, OpFails, Conflicts, Goto
    <3> QED
      BY <2>3, <3>1, <3>2, <3>3, <3>4, OpKinds DEF MayBe, Selection, OpPcs
  <2> QED
    BY <1>3, <2>1, <2>2, <2>3, <2>4, PlacesKeep DEF RefuseNew
<1>4. ASSUME NEW w \in Workers, UseCached(w) PROVE PlacesInv'
  <2>1. OthersStay(w)
    BY <1>4 DEF UseCached, TypeInv, WorkerTypes, OthersStay, opVars, Goto
  <2>2. StaysOrLeaves(w)
    BY <1>4 DEF UseCached, TypeInv, WorkerTypes, StaysOrLeaves, Pcs, Goto
  <2>3. UNCHANGED Selection
    BY <1>4 DEF UseCached, Selection
  <2>4. ASSUME Current(w) PROVE MayBe(w)'
    <3>1. MayBe(w)
      BY <2>4 DEF PlacesInv, PlaceInv, MayBe
    <3>2. pc[w] \in OpPcs /\ pc'[w] \in OpPcs /\ op'[w] = op[w] /\ asked'[w] = asked[w]
      BY <1>4 DEF UseCached, OpPcs, TypeInv, WorkerTypes, opVars, Goto
    <3> QED
      BY <2>3, <3>1, <3>2, FacingSame DEF MayBe, Selection, OpPcs
  <2> QED
    BY <1>4, <2>1, <2>2, <2>3, <2>4, PlacesKeep DEF UseCached
<1>5. ASSUME NEW w \in Workers, Spent(w) PROVE PlacesInv'
  <2>1. OthersStay(w)
    BY <1>5 DEF Spent, TypeInv, WorkerTypes, OthersStay, opVars, Goto, Forget, Ask, Exhausted, OpFails
  <2>2. StaysOrLeaves(w)
    BY <1>5 DEF Spent, TypeInv, WorkerTypes, StaysOrLeaves, Pcs, Goto, Forget, Ask, Exhausted, OpFails
  <2>3. UNCHANGED Selection
    BY <1>5 DEF Spent, Selection
  <2>4. ASSUME Current(w) PROVE MayBe(w)'
    <3>1. MayBe(w) /\ pc[w] \in OpPcs
      BY <1>5, <2>4 DEF Spent, PlacesInv, PlaceInv, MayBe, OpPcs
    <3>2. CASE Ask(w, op[w], 0, 2, repair[w]) /\ UNCHANGED asked
      <4>1. pc'[w] = "ask" /\ op'[w] = op[w] /\ asked'[w] = asked[w]
        BY <3>2 DEF Ask, Goto, TypeInv, WorkerTypes
      <4> QED
        BY <2>3, <3>1, <4>1, FacingSame DEF MayBe, Selection, OpPcs
    <3>3. CASE Exhausted(w)
      <4>1. /\ pc'[w] \in {"scout", "fail", "end"}
            /\ pc'[w] = "scout" => op[w] \in ScoutOps
            /\ pc'[w] = "fail" => op[w] \notin ScoutOps
        BY <1>5, <3>3 DEF Spent, TypeInv, WorkerTypes, Exhausted, Goto
      <4> QED
        BY <2>3, <3>1, <4>1, OpKinds DEF MayBe, Selection, OpPcs
    <3> QED
      BY <1>5, <3>2, <3>3 DEF Spent
  <2> QED
    BY <1>5, <2>1, <2>2, <2>3, <2>4, PlacesKeep DEF Spent
<1>6. ASSUME NEW w \in Workers, Dispatch(w) PROVE PlacesInv'
  <2>1. OthersStay(w)
    BY <1>6 DEF Dispatch, TypeInv, WorkerTypes, OthersStay, opVars, Goto
  <2>2. StaysOrLeaves(w)
    BY <1>6 DEF Dispatch, TypeInv, WorkerTypes, StaysOrLeaves, Pcs, Goto
  <2>3. UNCHANGED Selection
    BY <1>6 DEF Dispatch, Selection
  <2>4. ASSUME Current(w) PROVE MayBe(w)'
    <3>1. MayBe(w)
      BY <2>4 DEF PlacesInv, PlaceInv, MayBe
    <3>2. pc[w] \in OpPcs /\ pc'[w] \in OpPcs /\ op'[w] = op[w] /\ asked'[w] = asked[w]
      BY <1>6 DEF Dispatch, OpPcs, TypeInv, WorkerTypes, opVars, Goto
    <3> QED
      BY <2>3, <3>1, <3>2, FacingSame DEF MayBe, Selection, OpPcs
  <2> QED
    BY <1>6, <2>1, <2>2, <2>3, <2>4, PlacesKeep DEF Dispatch
<1>7. ASSUME NEW w \in Workers, Answer(w) PROVE PlacesInv'
  <2>1. OthersStay(w)
    BY <1>7 DEF Answer, TypeInv, WorkerTypes, OthersStay, opVars, Goto
  <2>2. StaysOrLeaves(w)
    BY <1>7 DEF Answer, TypeInv, WorkerTypes, StaysOrLeaves, Pcs, Goto, Finishes
  <2>3. UNCHANGED Selection
    BY <1>7 DEF Answer, Selection
  <2>4. ASSUME Current(w) PROVE MayBe(w)'
    <3>1. MayBe(w)
      BY <2>4 DEF PlacesInv, PlaceInv, MayBe
    <3>2. pc[w] \in OpPcs /\ pc'[w] \in OpPcs /\ op'[w] = op[w] /\ asked'[w] = asked[w]
      BY <1>7 DEF Answer, OpPcs, TypeInv, WorkerTypes, opVars, Goto, Finishes
    <3> QED
      BY <2>3, <3>1, <3>2, FacingSame DEF MayBe, Selection, OpPcs
  <2> QED
    BY <1>7, <2>1, <2>2, <2>3, <2>4, PlacesKeep DEF Answer
<1>8. ASSUME NEW w \in Workers, CallFails(w) PROVE PlacesInv'
  <2>1. OthersStay(w)
    BY <1>8 DEF CallFails, TypeInv, WorkerTypes, OthersStay, opVars, Goto, Forget, Ask, Exhausted, OpFails, Finishes
  <2>2. StaysOrLeaves(w)
    BY <1>8 DEF CallFails, TypeInv, WorkerTypes, StaysOrLeaves, Pcs, Goto, Forget, Ask, Exhausted, OpFails, Finishes
  <2>3. UNCHANGED Selection
    BY <1>8 DEF CallFails, Selection
  <2>4. ASSUME Current(w) PROVE MayBe(w)'
    <3>1. MayBe(w) /\ pc[w] \in OpPcs
      BY <1>8, <2>4 DEF CallFails, PlacesInv, PlaceInv, MayBe, OpPcs, Finishes
    <3>2. CASE Ask(w, op[w], 1, 2, repair[w]) /\ UNCHANGED asked
      <4>1. pc'[w] = "ask" /\ op'[w] = op[w] /\ asked'[w] = asked[w]
        BY <3>2 DEF Ask, Goto, TypeInv, WorkerTypes
      <4> QED
        BY <2>3, <3>1, <4>1, FacingSame DEF MayBe, Selection, OpPcs
    <3>3. CASE OpFails(w)
      <4>1. /\ pc'[w] \in {"scout", "fail", "end"}
            /\ pc'[w] = "scout" => op[w] \in ScoutOps
            /\ pc'[w] = "fail" => op[w] \notin ScoutOps
        BY <1>8, <3>3 DEF CallFails, TypeInv, WorkerTypes, OpFails, Goto
      <4> QED
        BY <2>3, <3>1, <4>1, OpKinds DEF MayBe, Selection, OpPcs
    <3> QED
      BY <1>8, <3>2, <3>3 DEF CallFails
  <2> QED
    BY <1>8, <2>1, <2>2, <2>3, <2>4, PlacesKeep DEF CallFails
<1>9. ASSUME NEW w \in Workers, FinishFails(w) PROVE PlacesInv'
  <2>1. OthersStay(w)
    BY <1>9 DEF FinishFails, TypeInv, WorkerTypes, OthersStay, opVars, Goto, Forget, OpFails, Conflicts, Finishes
  <2>2. StaysOrLeaves(w)
    BY <1>9 DEF FinishFails, TypeInv, WorkerTypes, StaysOrLeaves, Pcs, Goto, Forget, OpFails, Conflicts, Finishes
  <2>3. UNCHANGED Selection
    BY <1>9 DEF FinishFails, Selection
  <2>4. ASSUME Current(w) PROVE MayBe(w)'
    <3>1. MayBe(w) /\ pc[w] \in OpPcs
      BY <1>9, <2>4 DEF FinishFails, PlacesInv, PlaceInv, MayBe, OpPcs, Finishes
    <3>2. pc'[w] \in {"scout", "fail", "end"}
      BY <1>9 DEF FinishFails, TypeInv, WorkerTypes, Exhausted, OpFails, Conflicts, Goto
    <3>3. pc'[w] = "scout" => op[w] \in ScoutOps
      BY <1>9 DEF FinishFails, TypeInv, WorkerTypes, Exhausted, OpFails, Conflicts, Goto
    <3>4. pc'[w] = "fail" => op[w] \notin ScoutOps
      BY <1>9 DEF FinishFails, TypeInv, WorkerTypes, Exhausted, OpFails, Conflicts, Goto
    <3> QED
      BY <2>3, <3>1, <3>2, <3>3, <3>4, OpKinds DEF MayBe, Selection, OpPcs
  <2> QED
    BY <1>9, <2>1, <2>2, <2>3, <2>4, PlacesKeep DEF FinishFails
<1>9a. ASSUME NEW w \in Workers, DispatchFails(w) PROVE PlacesInv'
  <2>1. OthersStay(w)
    BY <1>9a DEF DispatchFails, TypeInv, WorkerTypes, OthersStay, opVars, Goto, Forget, OpFails
  <2>2. StaysOrLeaves(w)
    BY <1>9a DEF DispatchFails, TypeInv, WorkerTypes, StaysOrLeaves, Pcs, Goto, Forget, OpFails
  <2>3. UNCHANGED Selection
    BY <1>9a DEF DispatchFails, Selection
  <2>4. ASSUME Current(w) PROVE MayBe(w)'
    <3>1. MayBe(w) /\ pc[w] \in OpPcs
      BY <1>9a, <2>4 DEF DispatchFails, PlacesInv, PlaceInv, MayBe, OpPcs
    <3>2. pc'[w] \in {"scout", "fail", "end"}
      BY <1>9a DEF DispatchFails, TypeInv, WorkerTypes, OpFails, Goto
    <3>3. pc'[w] = "scout" => op[w] \in ScoutOps
      BY <1>9a DEF DispatchFails, TypeInv, WorkerTypes, OpFails, Goto
    <3>4. pc'[w] = "fail" => op[w] \notin ScoutOps
      BY <1>9a DEF DispatchFails, TypeInv, WorkerTypes, OpFails, Goto
    <3> QED
      BY <2>3, <3>1, <3>2, <3>3, <3>4, OpKinds DEF MayBe, Selection, OpPcs
  <2> QED
    BY <1>9a, <2>1, <2>2, <2>3, <2>4, PlacesKeep DEF DispatchFails
<1>10. ASSUME NEW w \in Workers, AskScout(w) PROVE PlacesInv'
  <2>1. OthersStay(w)
    BY <1>10 DEF AskScout, TypeInv, WorkerTypes, OthersStay, opVars, Goto, Ask
  <2>2. StaysOrLeaves(w)
    BY <1>10 DEF AskScout, TypeInv, WorkerTypes, StaysOrLeaves, Pcs, Goto, Ask
  <2>3. UNCHANGED Selection
    BY <1>10 DEF AskScout, Selection
  <2>4. ASSUME Current(w) PROVE MayBe(w)'
    <3>1. PICK o \in ScoutOps \ asked[w] : Ask(w, o, 0, 1, FALSE)
      BY <1>10 DEF AskScout
    <3>2. /\ pc'[w] = "ask" /\ op'[w] = o /\ asked' = asked
          /\ ~committed /\ o \notin RoleOps
      BY <1>10, <2>4, <3>1, ScoutAssumption DEF AskScout, Ask, Goto, TypeInv, WorkerTypes,
         PlacesInv, PlaceInv
    <3> QED
      BY <2>3, <3>1, <3>2 DEF MayBe, Selection
  <2> QED
    BY <1>10, <2>1, <2>2, <2>3, <2>4, PlacesKeep DEF AskScout
<1>11. ASSUME NEW w \in Workers, AcceptScout(w) PROVE PlacesInv'
  <2>1. OthersStay(w)
    BY <1>11 DEF AcceptScout, TypeInv, WorkerTypes, OthersStay, opVars, Goto, Forget
  <2>2. StaysOrLeaves(w)
    BY <1>11 DEF AcceptScout, TypeInv, WorkerTypes, StaysOrLeaves, Pcs, Goto, Forget
  <2>3. UNCHANGED Selection
    BY <1>11 DEF AcceptScout, Selection
  <2>4. ASSUME Current(w) PROVE MayBe(w)'
    BY <1>11, <2>3, <2>4, OpKinds DEF AcceptScout, PlacesInv, PlaceInv, MayBe, Selection, OpPcs,
       TypeInv, WorkerTypes, Goto, Forget
  <2> QED
    BY <1>11, <2>1, <2>2, <2>3, <2>4, PlacesKeep DEF AcceptScout
<1>12. ASSUME NEW w \in Workers, CommitCohort(w) PROVE PlacesInv'
  <2>1. OthersStay(w)
    BY <1>12 DEF CommitCohort, TypeInv, WorkerTypes, OthersStay, opVars, Goto
  <2>2. StaysOrLeaves(w)
    BY <1>12 DEF CommitCohort, TypeInv, WorkerTypes, StaysOrLeaves, Pcs, Goto
  <2>3. Current(w)
    BY <1>12, HolderCurrent DEF CommitCohort, Fenced, PlacesInv
  <2>4. ASSUME Current(w) PROVE MayBe(w)'
    BY <1>12 DEF CommitCohort, MayBe, OpPcs, TypeInv, WorkerTypes, Goto
  <2> QED
    BY <1>12, <2>1, <2>2, <2>3, <2>4, PlacesKeep DEF CommitCohort
<1>13. ASSUME NEW w \in Workers, AskRole(w) PROVE PlacesInv'
  <2>1. OthersStay(w)
    BY <1>13 DEF AskRole, TypeInv, WorkerTypes, OthersStay, opVars, Goto, Ask
  <2>2. StaysOrLeaves(w)
    BY <1>13 DEF AskRole, TypeInv, WorkerTypes, StaysOrLeaves, Pcs, Goto, Ask
  <2>3. UNCHANGED Selection
    BY <1>13 DEF AskRole, Selection
  <2>4. ASSUME Current(w) PROVE MayBe(w)'
    <3>1. PICK i \in Upcoming, role \in Roles : Ask(w, <<cohort[i], role>>, 0, 1, FALSE)
      BY <1>13 DEF AskRole
    <3>2. <<cohort[i], role>> \in RoleOps
      BY DEF Upcoming, TypeInv, RunTypes, RoleOps
    <3>3. /\ pc'[w] = "ask" /\ op'[w] = <<cohort[i], role>>
          /\ committed /\ <<cohort[i], role>> \notin ScoutOps
      BY <1>13, <2>4, <3>1, <3>2, ScoutAssumption DEF AskRole, Ask, Goto, TypeInv,
         WorkerTypes, PlacesInv, PlaceInv
    <3>4. Facing(cohort[i])'
      BY <2>3, FacingSame DEF Facing, Selection
    <3> QED
      BY <2>3, <3>3, <3>4 DEF MayBe, Selection
  <2> QED
    BY <1>13, <2>1, <2>2, <2>3, <2>4, PlacesKeep DEF AskRole
<1>14. ASSUME NEW w \in Workers, AcceptRole(w) PROVE PlacesInv'
  <2>1. OthersStay(w)
    BY <1>14 DEF AcceptRole, TypeInv, WorkerTypes, OthersStay, opVars, Goto, Forget
  <2>2. StaysOrLeaves(w)
    BY <1>14 DEF AcceptRole, TypeInv, WorkerTypes, StaysOrLeaves, Pcs, Goto, Forget
  <2>3. UNCHANGED Selection
    BY <1>14 DEF AcceptRole, Selection
  <2>4. ASSUME Current(w) PROVE MayBe(w)'
    BY <1>14, <2>3, <2>4, OpKinds DEF AcceptRole, PlacesInv, PlaceInv, MayBe, Selection, OpPcs,
       TypeInv, WorkerTypes, Goto, Forget
  <2> QED
    BY <1>14, <2>1, <2>2, <2>3, <2>4, PlacesKeep DEF AcceptRole
<1>15. ASSUME NEW w \in Workers, Repair(w) PROVE PlacesInv'
  <2>1. OthersStay(w)
    BY <1>15 DEF Repair, TypeInv, WorkerTypes, OthersStay, opVars, Goto, Forget, Ask, Exhausted, OpFails
  <2>2. StaysOrLeaves(w)
    BY <1>15 DEF Repair, TypeInv, WorkerTypes, StaysOrLeaves, Pcs, Goto, Forget, Ask, Exhausted, OpFails
  <2>3. UNCHANGED Selection
    BY <1>15 DEF Repair, Selection
  <2>4. ASSUME Current(w) PROVE MayBe(w)'
    <3>1. MayBe(w) /\ pc[w] \in OpPcs
      BY <1>15, <2>4 DEF Repair, PlacesInv, PlaceInv, MayBe, OpPcs
    <3>2. CASE Ask(w, op[w], 1, 2, TRUE) /\ UNCHANGED asked
      <4>1. pc'[w] = "ask" /\ op'[w] = op[w] /\ asked'[w] = asked[w]
        BY <3>2 DEF Ask, Goto, TypeInv, WorkerTypes
      <4> QED
        BY <2>3, <3>1, <4>1, FacingSame DEF MayBe, Selection, OpPcs
    <3>3. CASE Goto(w, "fail") /\ Forget(w)
      <4>1. /\ pc'[w] \in {"scout", "fail", "end"}
            /\ pc'[w] = "scout" => op[w] \in ScoutOps
            /\ pc'[w] = "fail" => op[w] \notin ScoutOps
        BY <1>15, <3>3, OpKinds DEF Repair, TypeInv, WorkerTypes, Goto, OpPcs
      <4> QED
        BY <2>3, <3>1, <4>1, OpKinds DEF MayBe, Selection, OpPcs
    <3> QED
      BY <1>15, <3>2, <3>3 DEF Repair
  <2> QED
    BY <1>15, <2>1, <2>2, <2>3, <2>4, PlacesKeep DEF Repair
<1>16. ASSUME NEW w \in Workers, Assess(w) PROVE PlacesInv'
  <2>1. OthersStay(w)
    BY <1>16 DEF Assess, TypeInv, WorkerTypes, OthersStay, opVars, workerVars
  <2>2. StaysOrLeaves(w)
    BY <1>16 DEF Assess, TypeInv, WorkerTypes, StaysOrLeaves, Pcs, workerVars
  <2>3. Current(w)
    BY <1>16, HolderCurrent DEF Assess, Fenced, PlacesInv
  <2>4. ASSUME Current(w) PROVE MayBe(w)'
    BY <1>16, <2>4 DEF Assess, PlacesInv, PlaceInv, MayBe, OpPcs, TypeInv, WorkerTypes,
       workerVars, opVars
  <2> QED
    BY <1>16, <2>1, <2>2, <2>3, <2>4, PlacesKeep DEF Assess
<1>17. ASSUME NEW w \in Workers, ResearchFails(w) PROVE PlacesInv'
  <2>1. OthersStay(w)
    BY <1>17 DEF ResearchFails, TypeInv, WorkerTypes, OthersStay, opVars, Goto, Forget
  <2>2. StaysOrLeaves(w)
    BY <1>17 DEF ResearchFails, TypeInv, WorkerTypes, StaysOrLeaves, Pcs, Goto, Forget
  <2>3. UNCHANGED Selection
    BY <1>17 DEF ResearchFails, Selection
  <2>4. ASSUME Current(w) PROVE MayBe(w)'
    BY <1>17, <2>3, <2>4 DEF ResearchFails, PlacesInv, PlaceInv, MayBe, Selection, OpPcs,
       TypeInv, WorkerTypes, Goto
  <2> QED
    BY <1>17, <2>1, <2>2, <2>3, <2>4, PlacesKeep DEF ResearchFails
<1>18. ASSUME NEW w \in Workers, FailCompany(w) PROVE PlacesInv'
  <2>1. OthersStay(w)
    BY <1>18 DEF FailCompany, TypeInv, WorkerTypes, OthersStay, opVars, Goto
  <2>2. StaysOrLeaves(w)
    BY <1>18 DEF FailCompany, TypeInv, WorkerTypes, StaysOrLeaves, Pcs, Goto
  <2>3. Current(w)
    BY <1>18, HolderCurrent DEF FailCompany, Fenced, PlacesInv
  <2>4. ASSUME Current(w) PROVE MayBe(w)'
    BY <1>18, <2>4 DEF FailCompany, PlacesInv, PlaceInv, MayBe, OpPcs, TypeInv, WorkerTypes, Goto
  <2> QED
    BY <1>18, <2>1, <2>2, <2>3, <2>4, PlacesKeep DEF FailCompany
<1>19. ASSUME NEW w \in Workers, Conclude(w) PROVE PlacesInv'
  <2>1. OthersStay(w)
    BY <1>19 DEF Conclude, TypeInv, WorkerTypes, OthersStay, opVars, Goto
  <2>2. StaysOrLeaves(w)
    BY <1>19 DEF Conclude, TypeInv, WorkerTypes, StaysOrLeaves, Pcs, Goto
  <2>3. UNCHANGED Selection
    BY <1>19 DEF Conclude, Selection
  <2>4. ASSUME Current(w) PROVE MayBe(w)'
    BY <1>19, <2>3, <2>4, OpKinds DEF Conclude, PlacesInv, PlaceInv, MayBe, Selection, OpPcs,
       TypeInv, WorkerTypes, Goto
  <2> QED
    BY <1>19, <2>1, <2>2, <2>3, <2>4, PlacesKeep DEF Conclude
<1>20. ASSUME NEW w \in Workers, End(w) PROVE PlacesInv'
  <2>1. OthersStay(w)
    BY <1>20 DEF End, TypeInv, WorkerTypes, OthersStay, opVars, Goto, Forget, Leave
  <2>2. StaysOrLeaves(w)
    BY <1>20 DEF End, TypeInv, WorkerTypes, StaysOrLeaves, Pcs, Goto, Forget, Leave
  <2>3. UNCHANGED Selection
    BY <1>20 DEF End, Selection
  <2>4. ASSUME Current(w) PROVE MayBe(w)'
    BY <1>20, <2>3, <2>4, OpKinds DEF End, PlacesInv, PlaceInv, MayBe, Selection, OpPcs,
       TypeInv, WorkerTypes, Goto, Forget, Leave
  <2> QED
    BY <1>20, <2>1, <2>2, <2>3, <2>4, PlacesKeep DEF End
<1>21. ASSUME NEW w \in Workers, LeaseLost(w) PROVE PlacesInv'
  <2>1. OthersStay(w)
    BY <1>21 DEF LeaseLost, TypeInv, WorkerTypes, OthersStay, opVars, Goto, Forget, Leave
  <2>2. StaysOrLeaves(w)
    BY <1>21 DEF LeaseLost, TypeInv, WorkerTypes, StaysOrLeaves, Pcs, Goto, Forget, Leave
  <2>3. UNCHANGED Selection
    BY <1>21 DEF LeaseLost, Selection
  <2>4. ASSUME Current(w) PROVE MayBe(w)'
    BY <1>21, <2>3, <2>4, OpKinds DEF LeaseLost, PlacesInv, PlaceInv, MayBe, Selection, OpPcs,
       TypeInv, WorkerTypes, Goto, Forget, Leave
  <2> QED
    BY <1>21, <2>1, <2>2, <2>3, <2>4, PlacesKeep DEF LeaseLost
<1>22. ASSUME NEW w \in Workers, StopEarly(w) PROVE PlacesInv'
  <2>1. OthersStay(w)
    BY <1>22 DEF StopEarly, TypeInv, WorkerTypes, OthersStay, opVars, Goto, Forget
  <2>2. StaysOrLeaves(w)
    BY <1>22 DEF StopEarly, TypeInv, WorkerTypes, StaysOrLeaves, Pcs, Goto, Forget
  <2>3. UNCHANGED Selection
    BY <1>22 DEF StopEarly, Selection
  <2>4. ASSUME Current(w) PROVE MayBe(w)'
    BY <1>22, <2>3, <2>4, OpKinds DEF StopEarly, PlacesInv, PlaceInv, MayBe, Selection, OpPcs,
       TypeInv, WorkerTypes, Goto, Forget
  <2> QED
    BY <1>22, <2>1, <2>2, <2>3, <2>4, PlacesKeep DEF StopEarly
<1>23. ASSUME NEW w \in Workers, Crash(w) PROVE PlacesInv'
  <2>1. OthersStay(w)
    BY <1>23 DEF Crash, TypeInv, WorkerTypes, OthersStay, opVars, Goto, Forget, Leave
  <2>2. StaysOrLeaves(w)
    BY <1>23 DEF Crash, TypeInv, WorkerTypes, StaysOrLeaves, Pcs, Goto, Forget, Leave
  <2>3. UNCHANGED Selection
    BY <1>23 DEF Crash, Selection
  <2>4. ASSUME Current(w) PROVE MayBe(w)'
    BY <1>23, <2>3, <2>4, OpKinds DEF Crash, PlacesInv, PlaceInv, MayBe, Selection, OpPcs,
       TypeInv, WorkerTypes, Goto, Forget, Leave
  <2> QED
    BY <1>23, <2>1, <2>2, <2>3, <2>4, PlacesKeep DEF Crash
<1>24. ASSUME RequestCancel PROVE PlacesInv'
  <2>1. UNCHANGED <<epoch, pc, held, op, asked, committed, cohort, assessed, failed>>
    BY <1>24 DEF RequestCancel, workerVars, opVars
  <2>2. lease' = "live" => lease = "live"
    BY <1>24 DEF RequestCancel
  <2>3. ASSUME NEW v \in Workers, Current(v)' PROVE MayBe(v)'
    <3>1. Current(v) /\ MayBe(v)
      BY <2>1, <2>3 DEF Current, PlacesInv, PlaceInv, MayBe
    <3> QED
      BY <2>1, <3>1, FacingSame DEF MayBe
  <2>4. EpochInv' /\ PlaceInv'
    BY <2>1, <2>2, <2>3 DEF PlacesInv, EpochInv, Current, PlaceInv, MayBe
  <2> QED
    BY <2>4 DEF PlacesInv
<1>25. ASSUME ExpireLease PROVE PlacesInv'
  <2>1. UNCHANGED <<epoch, pc, held, op, asked, committed, cohort, assessed, failed>>
    BY <1>25 DEF ExpireLease, workerVars, opVars
  <2>2. lease' = "live" => lease = "live"
    BY <1>25 DEF ExpireLease
  <2>3. ASSUME NEW v \in Workers, Current(v)' PROVE MayBe(v)'
    <3>1. Current(v) /\ MayBe(v)
      BY <2>1, <2>3 DEF Current, PlacesInv, PlaceInv, MayBe
    <3> QED
      BY <2>1, <3>1, FacingSame DEF MayBe
  <2>4. EpochInv' /\ PlaceInv'
    BY <2>1, <2>2, <2>3 DEF PlacesInv, EpochInv, Current, PlaceInv, MayBe
  <2> QED
    BY <2>4 DEF PlacesInv
<1>26. ASSUME UNCHANGED vars PROVE PlacesInv'
  <2>1. UNCHANGED <<epoch, pc, held, op, asked, committed, cohort, assessed, failed>>
    BY <1>26 DEF vars, workerVars, opVars
  <2>2. lease' = "live" => lease = "live"
    BY <1>26 DEF vars
  <2>3. ASSUME NEW v \in Workers, Current(v)' PROVE MayBe(v)'
    <3>1. Current(v) /\ MayBe(v)
      BY <2>1, <2>3 DEF Current, PlacesInv, PlaceInv, MayBe
    <3> QED
      BY <2>1, <3>1, FacingSame DEF MayBe
  <2>4. EpochInv' /\ PlaceInv'
    BY <2>1, <2>2, <2>3 DEF PlacesInv, EpochInv, Current, PlaceInv, MayBe
  <2> QED
    BY <2>4 DEF PlacesInv
<1> QED
  BY <1>1, <1>2, <1>3, <1>4, <1>5, <1>6, <1>7, <1>8, <1>9, <1>9a,
     <1>10, <1>11, <1>12, <1>13, <1>14, <1>15, <1>16, <1>17, <1>18,
     <1>19, <1>20, <1>21, <1>22, <1>23, <1>24, <1>25, <1>26
     DEF Next, Step

-----------------------------------------------------------------------------
(* The reservations of the present lease.                                  *)

\* What worker w, current before and after the step, must keep up.
StillReserved(w) ==
    \A o \in Ops, n \in Tries :
        /\ ledger'[o][n] = ledger[o][n] /\ ledger[o][n].outcome = "reserved"
        /\ \/ pc[w] \in {"dispatch", "call"} /\ op[w] = o /\ try[w] = n
           \/ Abandoned(w, o)
        => \/ pc'[w] \in {"dispatch", "call"} /\ op'[w] = o /\ try'[w] = n
           \/ Abandoned(w, o)'

\* The same for a worker that is not part of the step.
LEMMA OthersReserved ==
    ASSUME TypeInv, PlacesInv, NEW w \in Workers, OthersStay(w),
           UNCHANGED Selection \/ Current(w),
           NEW v \in Workers, v # w, Current(v)
    PROVE  StillReserved(v)
<1>1. UNCHANGED Selection
  BY DEF PlacesInv, EpochInv
<1>2. ASSUME NEW o \in Ops, Abandoned(v, o) PROVE Abandoned(v, o)'
  BY <1>1, <1>2, FacingSame DEF Abandoned, OthersStay, Selection
<1> QED
  BY <1>2 DEF StillReserved, OthersStay

LEMMA ReservedKeep ==
    ASSUME TypeInv, TypeInv', PlacesInv, ReservedInv, NEW w \in Workers,
           epoch' = epoch, OthersStay(w), StaysOrLeaves(w),
           UNCHANGED Selection \/ Current(w), SettleInTime,
           Current(w) /\ Current(w)' => StillReserved(w)
    PROVE  ReservedInv'
<1> SUFFICES ASSUME NEW o \in Ops, NEW n \in Tries, NEW v \in Workers,
                    ledger'[o][n].outcome = "reserved"
             PROVE  /\ ledger'[o][n].epoch \in 1..epoch'
                    /\ /\ ledger'[o][n].worker = v /\ ledger'[o][n].epoch = held'[v]
                       /\ Current(v)'
                       => \/ pc'[v] \in {"dispatch", "call"} /\ op'[v] = o /\ try'[v] = n
                          \/ Abandoned(v, o)'
  BY DEF ReservedInv
<1>1. ledger'[o][n] = ledger[o][n]
  BY DEF SettleInTime, Settled
<1>2. ledger[o][n].epoch \in 1..epoch
  BY <1>1 DEF ReservedInv
<1>3. ASSUME ledger[o][n].worker = v, ledger[o][n].epoch = held'[v], Current(v)'
      PROVE  \/ pc'[v] \in {"dispatch", "call"} /\ op'[v] = o /\ try'[v] = n
             \/ Abandoned(v, o)'
  <2>1. epoch \in Nat
    BY DEF TypeInv, RunTypes
  <2>2. held'[v] = held[v] /\ Current(v)
    BY <1>2, <1>3, <2>1 DEF OthersStay, StaysOrLeaves, Current
  <2>3. \/ pc[v] \in {"dispatch", "call"} /\ op[v] = o /\ try[v] = n
        \/ Abandoned(v, o)
    BY <1>1, <1>3, <2>2 DEF ReservedInv
  <2>4. StillReserved(v)
    BY <1>3, <2>2, OthersReserved
  <2> QED
    BY <1>1, <2>3, <2>4 DEF StillReserved
<1> QED
  BY <1>1, <1>2, <1>3

\* An operation that is over is abandoned, or its row is settled.
LEMMA LeavesSettled ==
    ASSUME TypeInv, NEW w \in Workers, Current(w), UNCHANGED Selection,
           pc[w] \notin {"fail", "end"},
           asked[w] \subseteq asked'[w],
           \/ pc[w] \notin {"dispatch", "call"}
           \/ pc'[w] \in {"dispatch", "call"} /\ op'[w] = op[w] /\ try'[w] = try[w]
           \/ ledger'[op[w]][try[w]].outcome # "reserved"
    PROVE  StillReserved(w)
BY FacingSame DEF StillReserved, Abandoned, Selection

\* A new reservation is in its call.
LEMMA ReservedByNew ==
    ASSUME TypeInv, LedgerInv, PlacesInv, ReservedInv, NEW w \in Workers, ReserveNew(w)
    PROVE  ReservedInv'
<1> USE DEF runVars, companyVars
<1>1. op[w] \in Ops /\ try[w] \in Tries /\ Current(w)
  BY HolderCurrent DEF ReserveNew, Fenced, PlacesInv, TypeInv, WorkerTypes, HasOp, OpPcs
<1>2. /\ pc[w] = "ask" /\ pc' = [pc EXCEPT ![w] = "dispatch"]
      /\ UNCHANGED <<epoch, held, op, try, asked>> /\ UNCHANGED Selection
  BY DEF ReserveNew, Goto, opVars, Selection
<1>3. \A o \in Ops, n \in Tries :
        IF o = op[w] /\ n = try[w]
        THEN ledger'[o][n].worker = w /\ ledger'[o][n].epoch = held[w]
        ELSE ledger'[o][n] = ledger[o][n]
  BY <1>1 DEF ReserveNew, TypeInv, LedgerType
<1>4. held[w] \in 1..epoch
  BY <1>1, <1>2 DEF Current, PlacesInv, EpochInv, TypeInv, RunTypes
<1> SUFFICES ASSUME NEW o \in Ops, NEW n \in Tries, NEW v \in Workers,
                    ledger'[o][n].outcome = "reserved"
             PROVE  /\ ledger'[o][n].epoch \in 1..epoch'
                    /\ /\ ledger'[o][n].worker = v /\ ledger'[o][n].epoch = held'[v]
                       /\ Current(v)'
                       => \/ pc'[v] \in {"dispatch", "call"} /\ op'[v] = o /\ try'[v] = n
                          \/ Abandoned(v, o)'
  BY DEF ReservedInv
<1>5. CASE o = op[w] /\ n = try[w]
  BY <1>1, <1>2, <1>3, <1>4, <1>5 DEF TypeInv, WorkerTypes
<1>6. CASE ~(o = op[w] /\ n = try[w])
  <2>1. ledger'[o][n] = ledger[o][n]
    BY <1>3, <1>6
  <2>2. ASSUME ledger[o][n].worker = v, ledger[o][n].epoch = held[v], Current(v)'
        PROVE  Abandoned(v, o)'
    <3>1. v = w
      <4>1. Current(v)
        BY <1>1, <1>2, <2>2 DEF Current, TypeInv, WorkerTypes
      <4> QED
        BY <1>1, <4>1 DEF PlacesInv, EpochInv
    <3>2. Abandoned(w, o)
      BY <1>1, <1>2, <2>1, <2>2, <3>1 DEF ReservedInv
    <3> QED
      BY <1>2, <3>1, <3>2 DEF Abandoned, Selection
  <2> QED
    BY <1>2, <2>1, <2>2 DEF ReservedInv
<1> QED
  BY <1>5, <1>6

LEMMA ReservedStep ==
    TypeInv /\ LedgerInv /\ PlacesInv /\ ReservedInv /\ [Next]_vars => ReservedInv'
<1> SUFFICES ASSUME TypeInv, LedgerInv, PlacesInv, ReservedInv, [Next]_vars,
                    ~\E w \in Workers : ReserveNew(w)
             PROVE  ReservedInv'
  BY ReservedByNew
<1>0. TypeInv' /\ SettleInTime
  BY TypeStep, StepSettles
<1> USE DEF runVars, companyVars
<1>1. ASSUME NEW w \in Workers, Claim(w) PROVE ReservedInv'
  <2>1. /\ OthersStay(w) /\ epoch' = epoch + 1 /\ held'[w] = epoch'
        /\ ledger' = ledger /\ epoch \in Nat
    BY <1>1 DEF Claim, TypeInv, WorkerTypes, RunTypes, OthersStay, Goto, opVars
  <2>2. ASSUME NEW o \in Ops, NEW n \in Tries, ledger[o][n].outcome = "reserved"
        PROVE  ledger[o][n].epoch \in 1..epoch
    BY <2>2 DEF ReservedInv
  <2>3. ASSUME NEW v \in Workers, Current(v)' PROVE v = w
    BY <2>1, <2>3 DEF PlacesInv, EpochInv, OthersStay, Current, TypeInv, WorkerTypes
  <2> QED
    BY <2>1, <2>2, <2>3 DEF ReservedInv
<1>2. ASSUME NEW w \in Workers, ReserveNew(w) PROVE ReservedInv'
  BY <1>2
<1>3. ASSUME NEW w \in Workers, RefuseNew(w) PROVE ReservedInv'
  <2>1. OthersStay(w)
    BY <1>3 DEF RefuseNew, TypeInv, WorkerTypes, OthersStay, opVars, Goto, Forget, Exhausted
  <2>2. StaysOrLeaves(w)
    BY <1>3 DEF RefuseNew, TypeInv, WorkerTypes, StaysOrLeaves, Pcs, Goto, Forget, Exhausted
  <2>3. UNCHANGED Selection
    BY <1>3 DEF RefuseNew, Selection
  <2>4. ASSUME Current(w), Current(w)' PROVE StillReserved(w)
    <3>1. asked[w] \subseteq asked'[w]
      BY <1>3 DEF RefuseNew, TypeInv, WorkerTypes, Goto, Forget, Exhausted
    <3>2. \/ pc[w] \notin {"dispatch", "call"}
          \/ pc'[w] \in {"dispatch", "call"} /\ op'[w] = op[w] /\ try'[w] = try[w]
          \/ ledger'[op[w]][try[w]].outcome # "reserved"
      BY <1>3 DEF RefuseNew, TypeInv, WorkerTypes, Goto, Forget, Exhausted
    <3>3. pc[w] \notin {"fail", "end"}
      BY <1>3 DEF RefuseNew
    <3> QED
      BY <2>3, <2>4, <3>1, <3>2, <3>3, LeavesSettled
  <2> QED
    BY <1>3, <2>1, <2>2, <2>3, <2>4, <1>0, ReservedKeep DEF RefuseNew
<1>4. ASSUME NEW w \in Workers, UseCached(w) PROVE ReservedInv'
  <2>1. OthersStay(w)
    BY <1>4 DEF UseCached, TypeInv, WorkerTypes, OthersStay, opVars, Goto, opVars
  <2>2. StaysOrLeaves(w)
    BY <1>4 DEF UseCached, TypeInv, WorkerTypes, StaysOrLeaves, Pcs, Goto, opVars
  <2>3. UNCHANGED Selection
    BY <1>4 DEF UseCached, Selection
  <2>4. ASSUME Current(w), Current(w)' PROVE StillReserved(w)
    <3>1. asked[w] \subseteq asked'[w]
      BY <1>4 DEF UseCached, TypeInv, WorkerTypes, Goto, opVars
    <3>2. \/ pc[w] \notin {"dispatch", "call"}
          \/ pc'[w] \in {"dispatch", "call"} /\ op'[w] = op[w] /\ try'[w] = try[w]
          \/ ledger'[op[w]][try[w]].outcome # "reserved"
      BY <1>4 DEF UseCached, TypeInv, WorkerTypes, Goto, opVars
    <3>3. pc[w] \notin {"fail", "end"}
      BY <1>4 DEF UseCached
    <3> QED
      BY <2>3, <2>4, <3>1, <3>2, <3>3, LeavesSettled
  <2> QED
    BY <1>4, <2>1, <2>2, <2>3, <2>4, <1>0, ReservedKeep DEF UseCached
<1>5. ASSUME NEW w \in Workers, Spent(w) PROVE ReservedInv'
  <2>1. OthersStay(w)
    BY <1>5 DEF Spent, TypeInv, WorkerTypes, OthersStay, opVars, Goto, Forget, Ask, Exhausted
  <2>2. StaysOrLeaves(w)
    BY <1>5 DEF Spent, TypeInv, WorkerTypes, StaysOrLeaves, Pcs, Goto, Forget, Ask, Exhausted
  <2>3. UNCHANGED Selection
    BY <1>5 DEF Spent, Selection
  <2>4. ASSUME Current(w), Current(w)' PROVE StillReserved(w)
    <3>1. asked[w] \subseteq asked'[w]
      BY <1>5 DEF Spent, TypeInv, WorkerTypes, Goto, Forget, Ask, Exhausted
    <3>2. \/ pc[w] \notin {"dispatch", "call"}
          \/ pc'[w] \in {"dispatch", "call"} /\ op'[w] = op[w] /\ try'[w] = try[w]
          \/ ledger'[op[w]][try[w]].outcome # "reserved"
      BY <1>5 DEF Spent, TypeInv, WorkerTypes, Goto, Forget, Ask, Exhausted
    <3>3. pc[w] \notin {"fail", "end"}
      BY <1>5 DEF Spent
    <3> QED
      BY <2>3, <2>4, <3>1, <3>2, <3>3, LeavesSettled
  <2> QED
    BY <1>5, <2>1, <2>2, <2>3, <2>4, <1>0, ReservedKeep DEF Spent
<1>6. ASSUME NEW w \in Workers, Dispatch(w) PROVE ReservedInv'
  <2>1. OthersStay(w)
    BY <1>6 DEF Dispatch, TypeInv, WorkerTypes, OthersStay, opVars, Goto, opVars
  <2>2. StaysOrLeaves(w)
    BY <1>6 DEF Dispatch, TypeInv, WorkerTypes, StaysOrLeaves, Pcs, Goto, opVars
  <2>3. UNCHANGED Selection
    BY <1>6 DEF Dispatch, Selection
  <2>4. ASSUME Current(w), Current(w)' PROVE StillReserved(w)
    <3>1. asked[w] \subseteq asked'[w]
      BY <1>6 DEF Dispatch, TypeInv, WorkerTypes, Goto, opVars
    <3>2. \/ pc[w] \notin {"dispatch", "call"}
          \/ pc'[w] \in {"dispatch", "call"} /\ op'[w] = op[w] /\ try'[w] = try[w]
          \/ ledger'[op[w]][try[w]].outcome # "reserved"
      BY <1>6 DEF Dispatch, TypeInv, WorkerTypes, Goto, opVars
    <3>3. pc[w] \notin {"fail", "end"}
      BY <1>6 DEF Dispatch
    <3> QED
      BY <2>3, <2>4, <3>1, <3>2, <3>3, LeavesSettled
  <2> QED
    BY <1>6, <2>1, <2>2, <2>3, <2>4, <1>0, ReservedKeep DEF Dispatch
<1>7. ASSUME NEW w \in Workers, Answer(w) PROVE ReservedInv'
  <2>1. OthersStay(w)
    BY <1>7 DEF Answer, TypeInv, WorkerTypes, OthersStay, opVars, Goto, Finishes
  <2>2. StaysOrLeaves(w)
    BY <1>7 DEF Answer, TypeInv, WorkerTypes, StaysOrLeaves, Pcs, Goto, Finishes
  <2>3. UNCHANGED Selection
    BY <1>7 DEF Answer, Selection
  <2>4. ASSUME Current(w), Current(w)' PROVE StillReserved(w)
    <3>1. asked[w] \subseteq asked'[w]
      BY <1>7 DEF Answer, TypeInv, WorkerTypes, Goto, Finishes
    <3>2. \/ pc[w] \notin {"dispatch", "call"}
          \/ pc'[w] \in {"dispatch", "call"} /\ op'[w] = op[w] /\ try'[w] = try[w]
          \/ ledger'[op[w]][try[w]].outcome # "reserved"
      <4>1. op[w] \in Ops /\ try[w] \in Tries
        BY <1>7 DEF Answer, Finishes, TypeInv, WorkerTypes, HasOp, OpPcs
      <4>2. PICK out \in Settled : Settle(op[w], try[w], out)
        BY <1>7 DEF Answer, Answers, Settled
      <4> QED
        BY <4>1, <4>2 DEF Settle, NoRow, Settled, TypeInv, LedgerType
    <3>3. pc[w] \notin {"fail", "end"}
      BY <1>7 DEF Answer, Finishes
    <3> QED
      BY <2>3, <2>4, <3>1, <3>2, <3>3, LeavesSettled
  <2> QED
    BY <1>7, <2>1, <2>2, <2>3, <2>4, <1>0, ReservedKeep DEF Answer
<1>8. ASSUME NEW w \in Workers, CallFails(w) PROVE ReservedInv'
  <2>1. OthersStay(w)
    BY <1>8 DEF CallFails, TypeInv, WorkerTypes, OthersStay, opVars, Goto, Forget, Ask, OpFails, Finishes
  <2>2. StaysOrLeaves(w)
    BY <1>8 DEF CallFails, TypeInv, WorkerTypes, StaysOrLeaves, Pcs, Goto, Forget, Ask, OpFails, Finishes
  <2>3. UNCHANGED Selection
    BY <1>8 DEF CallFails, Selection
  <2>4. ASSUME Current(w), Current(w)' PROVE StillReserved(w)
    <3>1. asked[w] \subseteq asked'[w]
      BY <1>8 DEF CallFails, TypeInv, WorkerTypes, Goto, Forget, Ask, OpFails, Finishes
    <3>2. \/ pc[w] \notin {"dispatch", "call"}
          \/ pc'[w] \in {"dispatch", "call"} /\ op'[w] = op[w] /\ try'[w] = try[w]
          \/ ledger'[op[w]][try[w]].outcome # "reserved"
      <4>1. op[w] \in Ops /\ try[w] \in Tries
        BY <1>8 DEF CallFails, Finishes, TypeInv, WorkerTypes, HasOp, OpPcs
      <4>2. PICK out \in Settled : Settle(op[w], try[w], out)
        BY <1>8 DEF CallFails, Answers, Settled
      <4> QED
        BY <4>1, <4>2 DEF Settle, NoRow, Settled, TypeInv, LedgerType
    <3>3. pc[w] \notin {"fail", "end"}
      BY <1>8 DEF CallFails, Finishes
    <3> QED
      BY <2>3, <2>4, <3>1, <3>2, <3>3, LeavesSettled
  <2> QED
    BY <1>8, <2>1, <2>2, <2>3, <2>4, <1>0, ReservedKeep DEF CallFails
<1>9. ASSUME NEW w \in Workers, FinishFails(w) PROVE ReservedInv'
  <2>1. OthersStay(w)
    BY <1>9 DEF FinishFails, TypeInv, WorkerTypes, OthersStay, opVars, Goto, Forget, OpFails, Conflicts, Finishes
  <2>2. StaysOrLeaves(w)
    BY <1>9 DEF FinishFails, TypeInv, WorkerTypes, StaysOrLeaves, Pcs, Goto, Forget, OpFails, Conflicts, Finishes
  <2>3. UNCHANGED Selection
    BY <1>9 DEF FinishFails, Selection
  <2>4. ASSUME Current(w), Current(w)' PROVE StillReserved(w)
    <3> SUFFICES ASSUME NEW o \in Ops, NEW n \in Tries,
                        \/ op[w] = o /\ try[w] = n
                        \/ Abandoned(w, o)
                 PROVE  Abandoned(w, o)'
      BY DEF StillReserved
    <3>1. pc[w] = "call" /\ op[w] \in Ops
      BY <1>9 DEF FinishFails, Finishes, TypeInv, WorkerTypes, HasOp, OpPcs
    <3>2. asked[w] \subseteq asked'[w]
      BY <1>9 DEF FinishFails, TypeInv, WorkerTypes, OpFails, Conflicts
    <3>3. CASE Abandoned(w, o)
      BY <2>3, <3>1, <3>2, <3>3 DEF Abandoned, Selection
    <3>4. CASE op[w] = o /\ o \in ScoutOps
      <4>1. pc'[w] = "end" \/ o \in asked'[w]
        BY <1>9, <3>4 DEF FinishFails, TypeInv, WorkerTypes, OpFails, Conflicts, Goto
      <4> QED
        BY <3>4, <4>1 DEF Abandoned
    <3>5. CASE op[w] = o /\ o \in RoleOps
      <4>1. o \notin ScoutOps
        BY <3>5, ScoutAssumption
      <4>2. pc'[w] = "fail"
        BY <1>9, <3>5, <4>1 DEF FinishFails, TypeInv, WorkerTypes, OpFails, Conflicts, Goto
      <4>3. Facing(o[1])'
        BY <2>3, <2>4, <3>1, <3>5, FacingSame DEF PlacesInv, PlaceInv, OpPcs, Selection
      <4> QED
        BY <3>5, <4>2, <4>3 DEF Abandoned
    <3> QED
      BY <3>1, <3>3, <3>4, <3>5 DEF Ops
  <2> QED
    BY <1>9, <2>1, <2>2, <2>3, <2>4, <1>0, ReservedKeep DEF FinishFails
<1>9a. ASSUME NEW w \in Workers, DispatchFails(w) PROVE ReservedInv'
  <2>1. OthersStay(w)
    BY <1>9a DEF DispatchFails, TypeInv, WorkerTypes, OthersStay, opVars, Goto, Forget, OpFails
  <2>2. StaysOrLeaves(w)
    BY <1>9a DEF DispatchFails, TypeInv, WorkerTypes, StaysOrLeaves, Pcs, Goto, Forget, OpFails
  <2>3. UNCHANGED Selection
    BY <1>9a DEF DispatchFails, Selection
  <2>4. ASSUME Current(w), Current(w)' PROVE StillReserved(w)
    <3> SUFFICES ASSUME NEW o \in Ops, NEW n \in Tries,
                        \/ op[w] = o /\ try[w] = n
                        \/ Abandoned(w, o)
                 PROVE  Abandoned(w, o)'
      BY DEF StillReserved
    <3>1. pc[w] = "dispatch" /\ op[w] \in Ops
      BY <1>9a DEF DispatchFails, TypeInv, WorkerTypes, HasOp, OpPcs
    <3>2. asked[w] \subseteq asked'[w]
      BY <1>9a DEF DispatchFails, TypeInv, WorkerTypes, OpFails
    <3>3. CASE Abandoned(w, o)
      BY <2>3, <3>1, <3>2, <3>3 DEF Abandoned, Selection
    <3>4. CASE op[w] = o /\ o \in ScoutOps
      <4>1. o \in asked'[w]
        BY <1>9a, <3>4 DEF DispatchFails, TypeInv, WorkerTypes, OpFails, Goto
      <4> QED
        BY <3>4, <4>1 DEF Abandoned
    <3>5. CASE op[w] = o /\ o \in RoleOps
      <4>1. o \notin ScoutOps
        BY <3>5, ScoutAssumption
      <4>2. pc'[w] = "fail"
        BY <1>9a, <3>5, <4>1 DEF DispatchFails, TypeInv, WorkerTypes, OpFails, Goto
      <4>3. Facing(o[1])'
        BY <2>3, <2>4, <3>1, <3>5, FacingSame DEF PlacesInv, PlaceInv, OpPcs, Selection
      <4> QED
        BY <3>5, <4>2, <4>3 DEF Abandoned
    <3> QED
      BY <3>1, <3>3, <3>4, <3>5 DEF Ops
  <2> QED
    BY <1>9a, <2>1, <2>2, <2>3, <2>4, <1>0, ReservedKeep DEF DispatchFails
<1>10. ASSUME NEW w \in Workers, AskScout(w) PROVE ReservedInv'
  <2>1. OthersStay(w)
    BY <1>10 DEF AskScout, TypeInv, WorkerTypes, OthersStay, opVars, Goto, Ask
  <2>2. StaysOrLeaves(w)
    BY <1>10 DEF AskScout, TypeInv, WorkerTypes, StaysOrLeaves, Pcs, Goto, Ask
  <2>3. UNCHANGED Selection
    BY <1>10 DEF AskScout, Selection
  <2>4. ASSUME Current(w), Current(w)' PROVE StillReserved(w)
    <3>1. asked[w] \subseteq asked'[w]
      BY <1>10 DEF AskScout, TypeInv, WorkerTypes, Goto, Ask
    <3>2. \/ pc[w] \notin {"dispatch", "call"}
          \/ pc'[w] \in {"dispatch", "call"} /\ op'[w] = op[w] /\ try'[w] = try[w]
          \/ ledger'[op[w]][try[w]].outcome # "reserved"
      BY <1>10 DEF AskScout, TypeInv, WorkerTypes, Goto, Ask
    <3>3. pc[w] \notin {"fail", "end"}
      BY <1>10 DEF AskScout
    <3> QED
      BY <2>3, <2>4, <3>1, <3>2, <3>3, LeavesSettled
  <2> QED
    BY <1>10, <2>1, <2>2, <2>3, <2>4, <1>0, ReservedKeep DEF AskScout
<1>11. ASSUME NEW w \in Workers, AcceptScout(w) PROVE ReservedInv'
  <2>1. OthersStay(w)
    BY <1>11 DEF AcceptScout, TypeInv, WorkerTypes, OthersStay, opVars, Goto, Forget
  <2>2. StaysOrLeaves(w)
    BY <1>11 DEF AcceptScout, TypeInv, WorkerTypes, StaysOrLeaves, Pcs, Goto, Forget
  <2>3. UNCHANGED Selection
    BY <1>11 DEF AcceptScout, Selection
  <2>4. ASSUME Current(w), Current(w)' PROVE StillReserved(w)
    <3>1. asked[w] \subseteq asked'[w]
      BY <1>11 DEF AcceptScout, TypeInv, WorkerTypes, Goto, Forget
    <3>2. \/ pc[w] \notin {"dispatch", "call"}
          \/ pc'[w] \in {"dispatch", "call"} /\ op'[w] = op[w] /\ try'[w] = try[w]
          \/ ledger'[op[w]][try[w]].outcome # "reserved"
      BY <1>11 DEF AcceptScout, TypeInv, WorkerTypes, Goto, Forget
    <3>3. pc[w] \notin {"fail", "end"}
      BY <1>11 DEF AcceptScout
    <3> QED
      BY <2>3, <2>4, <3>1, <3>2, <3>3, LeavesSettled
  <2> QED
    BY <1>11, <2>1, <2>2, <2>3, <2>4, <1>0, ReservedKeep DEF AcceptScout
<1>12. ASSUME NEW w \in Workers, CommitCohort(w) PROVE ReservedInv'
  <2>1. OthersStay(w)
    BY <1>12 DEF CommitCohort, TypeInv, WorkerTypes, OthersStay, opVars, Goto
  <2>2. StaysOrLeaves(w)
    BY <1>12 DEF CommitCohort, TypeInv, WorkerTypes, StaysOrLeaves, Pcs, Goto
  <2>3. Current(w)
    BY <1>12, HolderCurrent DEF CommitCohort, Fenced, PlacesInv
  <2>4. ASSUME Current(w), Current(w)' PROVE StillReserved(w)
    <3>1. pc[w] = "scout" /\ ~committed /\ committed' = TRUE /\ failed' = failed
      BY <1>12, <2>4 DEF CommitCohort, PlacesInv, PlaceInv
    <3> QED
      BY <3>1 DEF StillReserved, Abandoned
  <2> QED
    BY <1>12, <2>1, <2>2, <2>3, <2>4, <1>0, ReservedKeep DEF CommitCohort
<1>13. ASSUME NEW w \in Workers, AskRole(w) PROVE ReservedInv'
  <2>1. OthersStay(w)
    BY <1>13 DEF AskRole, TypeInv, WorkerTypes, OthersStay, opVars, Goto, Ask
  <2>2. StaysOrLeaves(w)
    BY <1>13 DEF AskRole, TypeInv, WorkerTypes, StaysOrLeaves, Pcs, Goto, Ask
  <2>3. UNCHANGED Selection
    BY <1>13 DEF AskRole, Selection
  <2>4. ASSUME Current(w), Current(w)' PROVE StillReserved(w)
    <3>1. asked[w] \subseteq asked'[w]
      BY <1>13 DEF AskRole, TypeInv, WorkerTypes, Goto, Ask
    <3>2. \/ pc[w] \notin {"dispatch", "call"}
          \/ pc'[w] \in {"dispatch", "call"} /\ op'[w] = op[w] /\ try'[w] = try[w]
          \/ ledger'[op[w]][try[w]].outcome # "reserved"
      BY <1>13 DEF AskRole, TypeInv, WorkerTypes, Goto, Ask
    <3>3. pc[w] \notin {"fail", "end"}
      BY <1>13 DEF AskRole
    <3> QED
      BY <2>3, <2>4, <3>1, <3>2, <3>3, LeavesSettled
  <2> QED
    BY <1>13, <2>1, <2>2, <2>3, <2>4, <1>0, ReservedKeep DEF AskRole
<1>14. ASSUME NEW w \in Workers, AcceptRole(w) PROVE ReservedInv'
  <2>1. OthersStay(w)
    BY <1>14 DEF AcceptRole, TypeInv, WorkerTypes, OthersStay, opVars, Goto, Forget
  <2>2. StaysOrLeaves(w)
    BY <1>14 DEF AcceptRole, TypeInv, WorkerTypes, StaysOrLeaves, Pcs, Goto, Forget
  <2>3. UNCHANGED Selection
    BY <1>14 DEF AcceptRole, Selection
  <2>4. ASSUME Current(w), Current(w)' PROVE StillReserved(w)
    <3>1. asked[w] \subseteq asked'[w]
      BY <1>14 DEF AcceptRole, TypeInv, WorkerTypes, Goto, Forget
    <3>2. \/ pc[w] \notin {"dispatch", "call"}
          \/ pc'[w] \in {"dispatch", "call"} /\ op'[w] = op[w] /\ try'[w] = try[w]
          \/ ledger'[op[w]][try[w]].outcome # "reserved"
      BY <1>14 DEF AcceptRole, TypeInv, WorkerTypes, Goto, Forget
    <3>3. pc[w] \notin {"fail", "end"}
      BY <1>14 DEF AcceptRole
    <3> QED
      BY <2>3, <2>4, <3>1, <3>2, <3>3, LeavesSettled
  <2> QED
    BY <1>14, <2>1, <2>2, <2>3, <2>4, <1>0, ReservedKeep DEF AcceptRole
<1>15. ASSUME NEW w \in Workers, Repair(w) PROVE ReservedInv'
  <2>1. OthersStay(w)
    BY <1>15 DEF Repair, TypeInv, WorkerTypes, OthersStay, opVars, Goto, Forget, Ask
  <2>2. StaysOrLeaves(w)
    BY <1>15 DEF Repair, TypeInv, WorkerTypes, StaysOrLeaves, Pcs, Goto, Forget, Ask
  <2>3. UNCHANGED Selection
    BY <1>15 DEF Repair, Selection
  <2>4. ASSUME Current(w), Current(w)' PROVE StillReserved(w)
    <3>1. asked[w] \subseteq asked'[w]
      BY <1>15 DEF Repair, TypeInv, WorkerTypes, Goto, Forget, Ask
    <3>2. \/ pc[w] \notin {"dispatch", "call"}
          \/ pc'[w] \in {"dispatch", "call"} /\ op'[w] = op[w] /\ try'[w] = try[w]
          \/ ledger'[op[w]][try[w]].outcome # "reserved"
      BY <1>15 DEF Repair, TypeInv, WorkerTypes, Goto, Forget, Ask
    <3>3. pc[w] \notin {"fail", "end"}
      BY <1>15 DEF Repair
    <3> QED
      BY <2>3, <2>4, <3>1, <3>2, <3>3, LeavesSettled
  <2> QED
    BY <1>15, <2>1, <2>2, <2>3, <2>4, <1>0, ReservedKeep DEF Repair
<1>16. ASSUME NEW w \in Workers, Assess(w) PROVE ReservedInv'
  <2>1. OthersStay(w)
    BY <1>16 DEF Assess, TypeInv, WorkerTypes, OthersStay, opVars, workerVars
  <2>2. StaysOrLeaves(w)
    BY <1>16 DEF Assess, TypeInv, WorkerTypes, StaysOrLeaves, Pcs, workerVars
  <2>3. Current(w)
    BY <1>16, HolderCurrent DEF Assess, Fenced, PlacesInv
  <2>4. ASSUME Current(w), Current(w)' PROVE StillReserved(w)
    <3>1. /\ pc[w] = "next" /\ committed' = committed /\ failed' = failed
          /\ asked' = asked
      BY <1>16 DEF Assess, workerVars
    <3> QED
      BY <3>1 DEF StillReserved, Abandoned
  <2> QED
    BY <1>16, <2>1, <2>2, <2>3, <2>4, <1>0, ReservedKeep DEF Assess
<1>17. ASSUME NEW w \in Workers, ResearchFails(w) PROVE ReservedInv'
  <2>1. OthersStay(w)
    BY <1>17 DEF ResearchFails, TypeInv, WorkerTypes, OthersStay, opVars, Goto, Forget
  <2>2. StaysOrLeaves(w)
    BY <1>17 DEF ResearchFails, TypeInv, WorkerTypes, StaysOrLeaves, Pcs, Goto, Forget
  <2>3. UNCHANGED Selection
    BY <1>17 DEF ResearchFails, Selection
  <2>4. ASSUME Current(w), Current(w)' PROVE StillReserved(w)
    <3>1. asked[w] \subseteq asked'[w]
      BY <1>17 DEF ResearchFails, TypeInv, WorkerTypes, Goto, Forget
    <3>2. \/ pc[w] \notin {"dispatch", "call"}
          \/ pc'[w] \in {"dispatch", "call"} /\ op'[w] = op[w] /\ try'[w] = try[w]
          \/ ledger'[op[w]][try[w]].outcome # "reserved"
      BY <1>17 DEF ResearchFails, TypeInv, WorkerTypes, Goto, Forget
    <3>3. pc[w] \notin {"fail", "end"}
      BY <1>17 DEF ResearchFails
    <3> QED
      BY <2>3, <2>4, <3>1, <3>2, <3>3, LeavesSettled
  <2> QED
    BY <1>17, <2>1, <2>2, <2>3, <2>4, <1>0, ReservedKeep DEF ResearchFails
<1>18. ASSUME NEW w \in Workers, FailCompany(w) PROVE ReservedInv'
  <2>1. OthersStay(w)
    BY <1>18 DEF FailCompany, TypeInv, WorkerTypes, OthersStay, opVars, Goto
  <2>2. StaysOrLeaves(w)
    BY <1>18 DEF FailCompany, TypeInv, WorkerTypes, StaysOrLeaves, Pcs, Goto
  <2>3. Current(w)
    BY <1>18, HolderCurrent DEF FailCompany, Fenced, PlacesInv
  <2>4. ASSUME Current(w), Current(w)' PROVE StillReserved(w)
    <3>1. PICK i \in Upcoming : failed' = failed \cup {cohort[i]}
      BY <1>18 DEF FailCompany
    <3>2. pc[w] = "fail" /\ committed' = committed /\ asked' = asked
      BY <1>18 DEF FailCompany
    <3>3. ASSUME NEW c, Facing(c) PROVE c = cohort[i]
      <4>1. Facing(cohort[i])
        BY DEF Facing
      <4> QED
        BY <3>3, <4>1, FacingOne
    <3> QED
      BY <3>1, <3>2, <3>3 DEF StillReserved, Abandoned
  <2> QED
    BY <1>18, <2>1, <2>2, <2>3, <2>4, <1>0, ReservedKeep DEF FailCompany
<1>19. ASSUME NEW w \in Workers, Conclude(w) PROVE ReservedInv'
  <2>1. OthersStay(w)
    BY <1>19 DEF Conclude, TypeInv, WorkerTypes, OthersStay, opVars, Goto
  <2>2. StaysOrLeaves(w)
    BY <1>19 DEF Conclude, TypeInv, WorkerTypes, StaysOrLeaves, Pcs, Goto
  <2>3. UNCHANGED Selection
    BY <1>19 DEF Conclude, Selection
  <2>4. ASSUME Current(w), Current(w)' PROVE StillReserved(w)
    <3>1. asked[w] \subseteq asked'[w]
      BY <1>19 DEF Conclude, TypeInv, WorkerTypes, Goto
    <3>2. \/ pc[w] \notin {"dispatch", "call"}
          \/ pc'[w] \in {"dispatch", "call"} /\ op'[w] = op[w] /\ try'[w] = try[w]
          \/ ledger'[op[w]][try[w]].outcome # "reserved"
      BY <1>19 DEF Conclude, TypeInv, WorkerTypes, Goto
    <3>3. pc[w] \notin {"fail", "end"}
      BY <1>19 DEF Conclude
    <3> QED
      BY <2>3, <2>4, <3>1, <3>2, <3>3, LeavesSettled
  <2> QED
    BY <1>19, <2>1, <2>2, <2>3, <2>4, <1>0, ReservedKeep DEF Conclude
<1>20. ASSUME NEW w \in Workers, End(w) PROVE ReservedInv'
  <2>1. OthersStay(w)
    BY <1>20 DEF End, TypeInv, WorkerTypes, OthersStay, opVars, Goto, Forget, Leave
  <2>2. StaysOrLeaves(w)
    BY <1>20 DEF End, TypeInv, WorkerTypes, StaysOrLeaves, Pcs, Goto, Forget, Leave
  <2>3. UNCHANGED Selection
    BY <1>20 DEF End, Selection
  <2>4. ASSUME Current(w), Current(w)' PROVE StillReserved(w)
    <3>1. pc'[w] = "idle"
      BY <1>20 DEF End, Leave, Goto, TypeInv, WorkerTypes
    <3> QED
      BY <2>4, <3>1 DEF Current
  <2> QED
    BY <1>20, <2>1, <2>2, <2>3, <2>4, <1>0, ReservedKeep DEF End
<1>21. ASSUME NEW w \in Workers, LeaseLost(w) PROVE ReservedInv'
  <2>1. OthersStay(w)
    BY <1>21 DEF LeaseLost, TypeInv, WorkerTypes, OthersStay, opVars, Goto, Forget, Leave
  <2>2. StaysOrLeaves(w)
    BY <1>21 DEF LeaseLost, TypeInv, WorkerTypes, StaysOrLeaves, Pcs, Goto, Forget, Leave
  <2>3. UNCHANGED Selection
    BY <1>21 DEF LeaseLost, Selection
  <2>4. ASSUME Current(w), Current(w)' PROVE StillReserved(w)
    <3>1. pc'[w] = "idle"
      BY <1>21 DEF LeaseLost, Leave, Goto, TypeInv, WorkerTypes
    <3> QED
      BY <2>4, <3>1 DEF Current
  <2> QED
    BY <1>21, <2>1, <2>2, <2>3, <2>4, <1>0, ReservedKeep DEF LeaseLost
<1>22. ASSUME NEW w \in Workers, StopEarly(w) PROVE ReservedInv'
  <2>1. OthersStay(w)
    BY <1>22 DEF StopEarly, TypeInv, WorkerTypes, OthersStay, opVars, Goto, Forget
  <2>2. StaysOrLeaves(w)
    BY <1>22 DEF StopEarly, TypeInv, WorkerTypes, StaysOrLeaves, Pcs, Goto, Forget
  <2>3. UNCHANGED Selection
    BY <1>22 DEF StopEarly, Selection
  <2>4. ASSUME Current(w), Current(w)' PROVE StillReserved(w)
    <3>1. pc'[w] = "end"
      BY <1>22 DEF StopEarly, Goto, TypeInv, WorkerTypes
    <3> QED
      BY <3>1 DEF StillReserved, Abandoned
  <2> QED
    BY <1>22, <2>1, <2>2, <2>3, <2>4, <1>0, ReservedKeep DEF StopEarly
<1>23. ASSUME NEW w \in Workers, Crash(w) PROVE ReservedInv'
  <2>1. OthersStay(w)
    BY <1>23 DEF Crash, TypeInv, WorkerTypes, OthersStay, opVars, Goto, Forget, Leave
  <2>2. StaysOrLeaves(w)
    BY <1>23 DEF Crash, TypeInv, WorkerTypes, StaysOrLeaves, Pcs, Goto, Forget, Leave
  <2>3. UNCHANGED Selection
    BY <1>23 DEF Crash, Selection
  <2>4. ASSUME Current(w), Current(w)' PROVE StillReserved(w)
    <3>1. pc'[w] = "idle"
      BY <1>23 DEF Crash, Leave, Goto, TypeInv, WorkerTypes
    <3> QED
      BY <2>4, <3>1 DEF Current
  <2> QED
    BY <1>23, <2>1, <2>2, <2>3, <2>4, <1>0, ReservedKeep DEF Crash
<1>24. ASSUME RequestCancel PROVE ReservedInv'
  <2>1. /\ UNCHANGED <<epoch, pc, held, op, try, asked, ledger>>
        /\ UNCHANGED Selection
    BY <1>24 DEF RequestCancel, workerVars, opVars, Selection
  <2>2. ASSUME NEW v \in Workers, NEW o \in Ops, Abandoned(v, o)
        PROVE  Abandoned(v, o)'
    BY <2>1, <2>2, FacingSame DEF Abandoned, Selection
  <2> QED
    BY <2>1, <2>2 DEF ReservedInv, Current
<1>25. ASSUME ExpireLease PROVE ReservedInv'
  <2>1. /\ UNCHANGED <<epoch, pc, held, op, try, asked, ledger>>
        /\ UNCHANGED Selection
    BY <1>25 DEF ExpireLease, workerVars, opVars, Selection
  <2>2. ASSUME NEW v \in Workers, NEW o \in Ops, Abandoned(v, o)
        PROVE  Abandoned(v, o)'
    BY <2>1, <2>2, FacingSame DEF Abandoned, Selection
  <2> QED
    BY <2>1, <2>2 DEF ReservedInv, Current
<1>26. ASSUME UNCHANGED vars PROVE ReservedInv'
  <2>1. /\ UNCHANGED <<epoch, pc, held, op, try, asked, ledger>>
        /\ UNCHANGED Selection
    BY <1>26 DEF vars, workerVars, opVars, Selection
  <2>2. ASSUME NEW v \in Workers, NEW o \in Ops, Abandoned(v, o)
        PROVE  Abandoned(v, o)'
    BY <2>1, <2>2, FacingSame DEF Abandoned, Selection
  <2> QED
    BY <2>1, <2>2 DEF ReservedInv, Current
<1> QED
  BY <1>1, <1>2, <1>3, <1>4, <1>5, <1>6, <1>7, <1>8, <1>9, <1>9a,
     <1>10, <1>11, <1>12, <1>13, <1>14, <1>15, <1>16, <1>17, <1>18,
     <1>19, <1>20, <1>21, <1>22, <1>23, <1>24, <1>25, <1>26
     DEF Next, Step

\* The holder of the lease never meets a reservation of its own (operation_in_
\* progress, reserveAttempt): no run blocks on itself.
THEOREM NeverBlocked == Spec => []NeverInProgress
<1>1. TypeInv /\ PlacesInv /\ ReservedInv => NeverInProgress
  <2> SUFFICES ASSUME TypeInv, PlacesInv, ReservedInv, NEW w \in Workers,
                      pc[w] = "ask", Fenced(w), Row(w).outcome = "reserved", ~Stale(w)
               PROVE  FALSE
    BY DEF NeverInProgress
  <2>1. Current(w) /\ op[w] \in Ops /\ try[w] \in Tries
    BY HolderCurrent DEF Fenced, PlacesInv, TypeInv, WorkerTypes, HasOp, OpPcs
  <2>2. Abandoned(w, op[w])
    BY <2>1 DEF ReservedInv, Row, Stale
  <2>3. CASE op[w] \in ScoutOps
    BY <2>1, <2>2, <2>3, ScoutAssumption DEF Abandoned, PlacesInv, PlaceInv, OpPcs
  <2>4. CASE op[w] \in RoleOps
    <3>1. Facing(op[w][1])
      BY <2>1, <2>4 DEF PlacesInv, PlaceInv, OpPcs
    <3>2. op[w][1] \notin failed
      BY <3>1, FacingOne
    <3> QED
      BY <2>2, <2>4, <3>2, ScoutAssumption DEF Abandoned
  <2> QED
    BY <2>1, <2>3, <2>4 DEF Ops
<1>2. Init => PlacesInv /\ ReservedInv
  BY PlacesInit
<1> QED
  BY <1>1, <1>2, TypeInit, TypeStep, LedgerInit, LedgerStep, PlacesStep,
     ReservedStep, PTL DEF Spec

-----------------------------------------------------------------------------
(* The floor: what is reserved for the selected companies.                 *)

\* A sequence has no more elements than places.
LEMMA ElemsBound ==
    ASSUME NEW S, NEW s \in Seq(S)
    PROVE  IsFiniteSet(Elems(s)) /\ Cardinality(Elems(s)) <= Len(s)
<1>1. s \in Surjection(1..Len(s), Elems(s))
  BY DEF Surjection, Elems
<1>2. Len(s) \in Nat
  OBVIOUS
<1>3. IsFiniteSet(1..Len(s)) /\ Cardinality(1..Len(s)) = Len(s)
  BY <1>2, FS_Interval
<1> QED
  BY <1>1, <1>3, FS_Surjection

LEMMA TwoElements ==
    /\ IsFiniteSet(Roles) /\ Cardinality(Roles) = 2
    /\ IsFiniteSet(Tries) /\ Cardinality(Tries) = 2
<1>1. IsFiniteSet({"analyst"}) /\ Cardinality({"analyst"}) = 1
  BY FS_Singleton
<1>2. Roles = {"analyst"} \cup {"skeptic"} /\ "skeptic" \notin {"analyst"}
  BY DEF Roles
<1>3. IsFiniteSet({1}) /\ Cardinality({1}) = 1
  BY FS_Singleton
<1>4. Tries = {1} \cup {2} /\ 2 \notin {1}
  BY DEF Tries
<1>5. IsFiniteSet(Roles) /\ Cardinality(Roles) = 2
  BY <1>1, <1>2, FS_AddElement
<1>6. IsFiniteSet(Tries) /\ Cardinality(Tries) = 2
  BY <1>3, <1>4, FS_AddElement
<1> QED
  BY <1>5, <1>6

\* A cohort is owed at most two calls for each of its companies.
LEMMA OwedBound ==
    ASSUME NEW s \in Seq(Companies), Len(s) <= MaxCohort,
           NEW U \in SUBSET (Elems(s) \X Roles)
    PROVE  /\ IsFiniteSet(U)
           /\ Cardinality(U) \in Nat
           /\ Cardinality(U) <= 2 * MaxCohort
<1>1. IsFiniteSet(Elems(s)) /\ Cardinality(Elems(s)) <= MaxCohort
  <2>1. IsFiniteSet(Elems(s)) /\ Cardinality(Elems(s)) <= Len(s)
    BY ElemsBound
  <2>2. Cardinality(Elems(s)) \in Nat
    BY <2>1, FS_CardinalityType
  <2> QED
    BY <2>1, <2>2, MaxCohortAssumption
<1>2. /\ IsFiniteSet(Elems(s) \X Roles)
      /\ Cardinality(Elems(s) \X Roles) = Cardinality(Elems(s)) * 2
  BY <1>1, TwoElements, FS_Product
<1>3. IsFiniteSet(U) /\ Cardinality(U) <= Cardinality(Elems(s) \X Roles)
  BY <1>2, FS_Subset
<1>4. Cardinality(U) \in Nat /\ Cardinality(Elems(s)) \in Nat
  BY <1>1, <1>3, FS_CardinalityType
<1> QED
  BY <1>1, <1>2, <1>3, <1>4, MaxCohortAssumption

LEMMA UnheardOwed ==
    ASSUME TypeInv
    PROVE  /\ IsFiniteSet(Unheard)
           /\ Cardinality(Unheard) \in Nat
           /\ Cardinality(Unheard) <= 2 * MaxCohort
<1>1. Unheard \in SUBSET (Elems(cohort) \X Roles)
  BY DEF Unheard, RoleOps
<1> QED
  BY <1>1, OwedBound DEF TypeInv, RunTypes

\* Before the cohort only Scout has spent anything.
LEMMA ScoutSpends ==
    ASSUME TypeInv, UsageInv, BeforeCohort, ~committed
    PROVE  used <= 2 * Cardinality(ScoutOps) /\ Cardinality(ScoutOps) \in Nat
<1>1. Rows \in SUBSET (ScoutOps \X Tries)
  <2> SUFFICES ASSUME NEW o \in Ops, NEW n \in Tries, <<o, n>> \in Rows
               PROVE  o \in ScoutOps
    BY DEF Rows
  <2>1. ledger[o][n].outcome # "none"
    BY DEF Rows
  <2> QED
    BY <2>1 DEF BeforeCohort, Ops
<1>2. IsFiniteSet(ScoutOps) /\ Cardinality(ScoutOps) \in Nat
  BY ScoutAssumption, FS_CardinalityType
<1>3. /\ IsFiniteSet(ScoutOps \X Tries)
      /\ Cardinality(ScoutOps \X Tries) = Cardinality(ScoutOps) * 2
  BY <1>2, TwoElements, FS_Product
<1>4. Cardinality(Rows) <= Cardinality(ScoutOps \X Tries)
  BY <1>1, <1>3, FS_Subset
<1>5. used = Cardinality(Rows)
  BY DEF UsageInv, UsageCounted
<1> QED
  BY <1>2, <1>3, <1>4, <1>5 DEF TypeInv, RunTypes

\* A reservation takes the call that is owed, or leaves room for all of them.
LEMMA ReserveFloor ==
    ASSUME TypeInv, TypeInv', NEW w \in Workers, ReserveNew(w)
    PROVE  FloorInv'
<1> DEFINE X == IF try[w] = 1 THEN Unheard \ {op[w]} ELSE Unheard
<1>1. used' = used + 1 /\ used + 1 + Cardinality(X) <= Limit
  BY DEF ReserveNew, Affordable
<1>2. op[w] \in Ops /\ try[w] \in Tries
  BY DEF ReserveNew, TypeInv, WorkerTypes, HasOp, OpPcs
<1>3. \A o \in Ops, n \in Tries :
        IF o = op[w] /\ n = try[w]
        THEN ledger'[o][n].outcome = "reserved"
        ELSE ledger'[o][n] = ledger[o][n]
  BY <1>2 DEF ReserveNew, TypeInv, LedgerType
<1>4. cohort' = cohort /\ failed' = failed
  BY DEF ReserveNew, companyVars
<1>5. Unheard' \in SUBSET X
  <2> SUFFICES ASSUME NEW r \in Unheard' PROVE r \in X
    OBVIOUS
  <2>1. r \in RoleOps /\ r \in Ops /\ 1 \in Tries
    BY DEF Unheard, Ops, Tries
  <2>2. r[1] \in Elems(cohort) \ failed /\ ledger'[r][1].outcome = "none"
    BY <1>4 DEF Unheard
  <2>3. ledger[r][1].outcome = "none" /\ ~(r = op[w] /\ try[w] = 1)
    BY <1>3, <2>1, <2>2
  <2> QED
    BY <2>1, <2>2, <2>3 DEF Unheard
<1>6. IsFiniteSet(Unheard)
  BY UnheardOwed
<1>7. IsFiniteSet(X)
  BY <1>6, FS_Subset
<1> HIDE DEF X
<1>8. /\ Cardinality(Unheard') <= Cardinality(X)
      /\ IsFiniteSet(Unheard')
  BY <1>5, <1>7, FS_Subset
<1>9. Cardinality(X) \in Nat /\ Cardinality(Unheard') \in Nat
  BY <1>7, <1>8, FS_CardinalityType
<1> QED
  BY <1>1, <1>8, <1>9, LimitAssumption DEF FloorInv, TypeInv, RunTypes

\* While the companies stay selected, fewer calls are owed, never more.
LEMMA FewerOwed ==
    ASSUME TypeInv, FloorInv, SettleInTime, used' = used, committed' = committed,
           cohort' = cohort, failed \subseteq failed'
    PROVE  FloorInv'
<1>1. Unheard' \in SUBSET Unheard
  <2> SUFFICES ASSUME NEW r \in Unheard' PROVE r \in Unheard
    OBVIOUS
  <2>1. r \in RoleOps /\ r \in Ops /\ 1 \in Tries
    BY DEF Unheard, Ops, Tries
  <2>2. r[1] \in Elems(cohort) \ failed /\ ledger'[r][1].outcome = "none"
    BY DEF Unheard
  <2>3. ledger[r][1].outcome = "none"
    BY <2>1, <2>2 DEF SettleInTime, Settled
  <2> QED
    BY <2>1, <2>2, <2>3 DEF Unheard
<1>2. IsFiniteSet(Unheard) /\ Cardinality(Unheard) \in Nat
  BY UnheardOwed
<1>3. IsFiniteSet(Unheard') /\ Cardinality(Unheard') <= Cardinality(Unheard)
  BY <1>1, <1>2, FS_Subset
<1>4. Cardinality(Unheard') \in Nat
  BY <1>3, FS_CardinalityType
<1> QED
  BY <1>2, <1>3, <1>4, LimitAssumption DEF FloorInv, TypeInv, RunTypes

LEMMA FloorStep ==
    TypeInv /\ LedgerInv /\ UsageInv /\ PlacesInv /\ FloorInv /\ [Next]_vars
        => FloorInv'
<1> SUFFICES ASSUME TypeInv, LedgerInv, UsageInv, PlacesInv, FloorInv, [Next]_vars
             PROVE  FloorInv'
  OBVIOUS
<1>1. TypeInv'
  BY TypeStep
<1>2. CASE \E w \in Workers : ReserveNew(w)
  BY <1>1, <1>2, ReserveFloor
<1>3. CASE SettleInTime /\ used' = used
  <2>1. CASE UNCHANGED Selection
    BY <1>3, <2>1, FewerOwed DEF Selection
  <2>2. ASSUME NEW w \in Workers, CommitCohort(w) PROVE FloorInv'
    <3>1. Current(w) /\ pc[w] = "scout"
      BY <2>2, HolderCurrent DEF CommitCohort, Fenced, PlacesInv
    <3>2. used <= 2 * Cardinality(ScoutOps) /\ Cardinality(ScoutOps) \in Nat
      BY <3>1, ScoutSpends DEF PlacesInv, PlaceInv
    <3>3. Unheard' \in SUBSET (Elems(cohort') \X Roles)
      BY DEF Unheard, RoleOps
    <3>4. cohort' \in Seq(Companies) /\ Len(cohort') <= MaxCohort
      BY <1>1 DEF TypeInv, RunTypes
    <3>5. Cardinality(Unheard') \in Nat /\ Cardinality(Unheard') <= 2 * MaxCohort
      BY <3>3, <3>4, OwedBound
    <3> QED
      BY <1>3, <3>2, <3>5, LimitAssumption, MaxCohortAssumption
         DEF FloorInv, TypeInv, RunTypes
  <2>3. ASSUME NEW w \in Workers, Assess(w) \/ FailCompany(w) PROVE FloorInv'
    BY <1>3, <2>3, FewerOwed DEF Assess, FailCompany
  <2> QED
    BY <2>1, <2>2, <2>3, SelectionStep
<1> QED
  BY <1>2, <1>3, StepSettles

\* A selected company's first Analyst and Skeptic calls are never refused, how-
\* ever many calls failed, were repaired or were lost before them (enforceModel-
\* ReservationFloor, under the limit of policy.ts).
THEOREM FirstCallsGranted == Spec => []InitialNeverRefused
<1>1. TypeInv /\ PlacesInv /\ FloorInv => InitialNeverRefused
  <2> SUFFICES ASSUME TypeInv, PlacesInv, FloorInv, NEW w \in Workers,
                      pc[w] = "ask", Fenced(w), op[w] \in RoleOps, try[w] = 1,
                      Row(w).outcome = "none"
               PROVE  Affordable(op[w], 1)
    BY DEF InitialNeverRefused
  <2>1. committed /\ Facing(op[w][1])
    BY HolderCurrent DEF Fenced, PlacesInv, PlaceInv, OpPcs
  <2>2. op[w] \in Unheard
    <3>1. op[w][1] \in Elems(cohort) \ failed
      BY <2>1, FacingOne
    <3> QED
      BY <3>1 DEF Unheard, Row
  <2>3. IsFiniteSet(Unheard) /\ Cardinality(Unheard) \in Nat
    BY UnheardOwed
  <2>4. Cardinality(Unheard \ {op[w]}) = Cardinality(Unheard) - 1
    BY <2>2, <2>3, FS_RemoveElement
  <2>5. Cardinality(Unheard) > 0
    BY <2>2, <2>3, FS_EmptySet
  <2>6. used + Cardinality(Unheard) <= Limit /\ used \in Nat
    BY <2>1 DEF FloorInv, TypeInv, RunTypes
  <2> QED
    BY <2>3, <2>4, <2>5, <2>6, LimitAssumption DEF Affordable
<1>2. Init => PlacesInv /\ FloorInv
  BY PlacesInit
<1> QED
  BY <1>1, <1>2, TypeInit, TypeStep, LedgerInit, LedgerStep, UsageInit, UsageStep,
     PlacesStep, FloorStep, PTL DEF Spec

-----------------------------------------------------------------------------
(* The ledger implements its contract.                                     *)

\* The call of a worker that waits for its answer was made.
CalledInv == \A w \in Workers : pc[w] = "call" => calls[op[w]][try[w]] = 1

Stays(w) == pc'[w] = "call" => pc[w] = "call" /\ op'[w] = op[w] /\ try'[w] = try[w]

\* What a step does to the ledger: nothing, or it makes a call, or settles.
Quiet == UNCHANGED <<used, ledger, calls>> /\ \A v \in Workers : Stays(v)

Settles(w, out) ==
    /\ pc[w] \in {"ask", "call"} /\ Row(w).outcome = "reserved"
    /\ out # "unknown" => pc[w] = "call"
    /\ Settle(op[w], try[w], out)
    /\ UNCHANGED <<used, calls, companyVars>>
    /\ \A v \in Workers : Stays(v)

LEMMA StepSpends ==
    ASSUME TypeInv, [Next]_vars
    PROVE  \/ Quiet
           \/ \E w \in Workers : ReserveNew(w) \/ Dispatch(w)
           \/ \E w \in Workers, out \in {"unknown", "error"} \cup Answers : Settles(w, out)
<1> DEFINE Goal == \/ Quiet
                   \/ \E w \in Workers : ReserveNew(w) \/ Dispatch(w)
                   \/ \E w \in Workers, out \in {"unknown", "error"} \cup Answers : Settles(w, out)
<1> USE DEF Stays, Goto, Forget, Ask, Leave, TypeInv, WorkerTypes
<1>1. ASSUME NEW w \in Workers, Claim(w) PROVE Goal
  <2>1. Quiet
    BY <1>1 DEF Claim, Quiet, companyVars, workerVars, opVars
  <2> QED
    BY <2>1
<1>2. ASSUME NEW w \in Workers, RefuseNew(w) PROVE Goal
  <2>1. Quiet
    BY <1>2 DEF RefuseNew, Quiet, companyVars, workerVars, opVars, Exhausted
  <2> QED
    BY <2>1
<1>3. ASSUME NEW w \in Workers, UseCached(w) PROVE Goal
  <2>1. Quiet
    BY <1>3 DEF UseCached, Quiet, companyVars, workerVars, opVars
  <2> QED
    BY <2>1
<1>4. ASSUME NEW w \in Workers, AskScout(w) PROVE Goal
  <2>1. Quiet
    BY <1>4 DEF AskScout, Quiet, companyVars, workerVars, opVars
  <2> QED
    BY <2>1
<1>5. ASSUME NEW w \in Workers, AcceptScout(w) PROVE Goal
  <2>1. Quiet
    BY <1>5 DEF AcceptScout, Quiet, companyVars, workerVars, opVars
  <2> QED
    BY <2>1
<1>6. ASSUME NEW w \in Workers, CommitCohort(w) PROVE Goal
  <2>1. Quiet
    BY <1>6 DEF CommitCohort, Quiet, companyVars, workerVars, opVars
  <2> QED
    BY <2>1
<1>7. ASSUME NEW w \in Workers, AskRole(w) PROVE Goal
  <2>1. Quiet
    BY <1>7 DEF AskRole, Quiet, companyVars, workerVars, opVars
  <2> QED
    BY <2>1
<1>8. ASSUME NEW w \in Workers, AcceptRole(w) PROVE Goal
  <2>1. Quiet
    BY <1>8 DEF AcceptRole, Quiet, companyVars, workerVars, opVars
  <2> QED
    BY <2>1
<1>9. ASSUME NEW w \in Workers, Repair(w) PROVE Goal
  <2>1. Quiet
    BY <1>9 DEF Repair, Quiet, companyVars, workerVars, opVars
  <2> QED
    BY <2>1
<1>10. ASSUME NEW w \in Workers, Assess(w) PROVE Goal
  <2>1. Quiet
    BY <1>10 DEF Assess, Quiet, companyVars, workerVars, opVars
  <2> QED
    BY <2>1
<1>11. ASSUME NEW w \in Workers, ResearchFails(w) PROVE Goal
  <2>1. Quiet
    BY <1>11 DEF ResearchFails, Quiet, companyVars, workerVars, opVars
  <2> QED
    BY <2>1
<1>12. ASSUME NEW w \in Workers, FailCompany(w) PROVE Goal
  <2>1. Quiet
    BY <1>12 DEF FailCompany, Quiet, companyVars, workerVars, opVars
  <2> QED
    BY <2>1
<1>13. ASSUME NEW w \in Workers, Conclude(w) PROVE Goal
  <2>1. Quiet
    BY <1>13 DEF Conclude, Quiet, companyVars, workerVars, opVars
  <2> QED
    BY <2>1
<1>14. ASSUME NEW w \in Workers, End(w) PROVE Goal
  <2>1. Quiet
    BY <1>14 DEF End, Quiet, companyVars, workerVars, opVars
  <2> QED
    BY <2>1
<1>15. ASSUME NEW w \in Workers, LeaseLost(w) PROVE Goal
  <2>1. Quiet
    BY <1>15 DEF LeaseLost, Quiet, companyVars, workerVars, opVars
  <2> QED
    BY <2>1
<1>16. ASSUME NEW w \in Workers, StopEarly(w) PROVE Goal
  <2>1. Quiet
    BY <1>16 DEF StopEarly, Quiet, companyVars, workerVars, opVars
  <2> QED
    BY <2>1
<1>17. ASSUME NEW w \in Workers, Crash(w) PROVE Goal
  <2>1. Quiet
    BY <1>17 DEF Crash, Quiet, companyVars, workerVars, opVars
  <2> QED
    BY <2>1
<1>18. ASSUME NEW w \in Workers, Spent(w) PROVE Goal
  <2>1. UNCHANGED <<used, calls, companyVars>> /\ pc[w] = "ask" /\ \A v \in Workers : Stays(v)
    BY <1>18 DEF Spent, Exhausted
  <2>2. CASE Row(w).outcome = "reserved"
    <3>1. Settles(w, "unknown")
      BY <1>18, <2>1, <2>2 DEF Spent, Settles
    <3> QED
      BY <3>1
  <2>3. CASE Row(w).outcome # "reserved"
    BY <1>18, <2>1, <2>3 DEF Spent, Quiet
  <2> QED
    BY <2>2, <2>3
<1>19. ASSUME NEW w \in Workers, Answer(w) PROVE Goal
  <2>1. PICK a \in Answers : Settle(op[w], try[w], a)
    BY <1>19 DEF Answer
  <2>2. Settles(w, a)
    BY <1>19, <2>1 DEF Answer, Finishes, Settles, opVars
  <2> QED
    BY <2>2
<1>20. ASSUME NEW w \in Workers, CallFails(w) PROVE Goal
  <2>1. Settles(w, "error")
    BY <1>20 DEF CallFails, Finishes, Settles, OpFails
  <2> QED
    BY <2>1
<1>21. ASSUME NEW w \in Workers, FinishFails(w) PROVE Goal
  <2>1. UNCHANGED <<used, calls, companyVars>> /\ \A v \in Workers : Stays(v)
    BY <1>21 DEF FinishFails, OpFails, Conflicts
  <2>2. CASE UNCHANGED ledger
    BY <2>1, <2>2 DEF Quiet
  <2>3. CASE \E a \in Answers : Settle(op[w], try[w], a)
    <3>1. PICK a \in Answers : Settle(op[w], try[w], a)
      BY <2>3
    <3>2. Settles(w, a)
      BY <1>21, <2>1, <3>1 DEF FinishFails, Finishes, Settles
    <3> QED
      BY <3>2
  <2> QED
    BY <1>21, <2>2, <2>3 DEF FinishFails
<1>9a. ASSUME NEW w \in Workers, DispatchFails(w) PROVE Goal
  <2>1. Quiet
    BY <1>9a DEF DispatchFails, OpFails, Quiet
  <2> QED
    BY <2>1
<1>22. ASSUME RequestCancel \/ ExpireLease \/ UNCHANGED vars PROVE Goal
  <2>1. Quiet
    BY <1>22 DEF RequestCancel, ExpireLease, vars, Quiet, workerVars, opVars
  <2> QED
    BY <2>1
<1> HIDE DEF Goal
<1> QED
  <2>1. ASSUME NEW w \in Workers, ReserveNew(w) \/ Dispatch(w) PROVE Goal
    BY <2>1 DEF Goal
  <2>2. Goal
    BY <1>1, <1>2, <1>3, <1>4, <1>5, <1>6, <1>7, <1>8, <1>9, <1>9a, <1>10, <1>11, <1>12, <1>13, <1>14, <1>15, <1>16, <1>17, <1>18, <1>19, <1>20, <1>21, <1>22, <2>1 DEF Next, Step
  <2> QED
    BY <2>2 DEF Goal

LEMMA CalledStep == TypeInv /\ LedgerInv /\ CalledInv /\ [Next]_vars => CalledInv'
<1> SUFFICES ASSUME TypeInv, LedgerInv, CalledInv, [Next]_vars,
                    NEW v \in Workers, pc'[v] = "call"
             PROVE  calls'[op'[v]][try'[v]] = 1
  BY DEF CalledInv
<1>1. CASE Stays(v) /\ calls' = calls
  BY <1>1 DEF Stays, CalledInv
<1>2. ASSUME NEW w \in Workers, ReserveNew(w) PROVE Stays(v) /\ calls' = calls
  BY <1>2 DEF ReserveNew, Stays, Goto, opVars, TypeInv, WorkerTypes
<1>3. ASSUME NEW w \in Workers, Dispatch(w) PROVE calls'[op'[v]][try'[v]] = 1
  <2>1. op[w] \in Ops /\ try[w] \in Tries /\ calls[op[w]][try[w]] = 0 /\ op' = op /\ try' = try
    BY <1>3 DEF Dispatch, opVars, TypeInv, WorkerTypes, HasOp, OpPcs, LedgerInv, NotCalledYet
  <2>2. calls' = [calls EXCEPT ![op[w]][try[w]] = calls[op[w]][try[w]] + 1]
    BY <1>3 DEF Dispatch
  <2>3. calls \in [Ops -> [Tries -> Nat]]
    BY DEF TypeInv, RunTypes
  <2>4. CASE op[v] = op[w] /\ try[v] = try[w]
    BY <2>1, <2>2, <2>3, <2>4
  <2>5. CASE ~(op[v] = op[w] /\ try[v] = try[w])
    <3>1. v # w
      BY <2>5
    <3>2. pc[v] = "call"
      BY <1>3, <3>1 DEF Dispatch, Goto, TypeInv, WorkerTypes
    <3>3. calls[op[v]][try[v]] = 1 /\ op[v] \in Ops /\ try[v] \in Tries
      BY <3>2 DEF CalledInv, TypeInv, WorkerTypes, HasOp, OpPcs
    <3>4. calls'[op[v]][try[v]] = calls[op[v]][try[v]]
      BY <2>1, <2>2, <2>3, <2>5, <3>3
    <3> QED
      BY <2>1, <3>3, <3>4
  <2> QED
    BY <2>4, <2>5
<1>4. CASE Quiet
  BY <1>1, <1>4 DEF Quiet
<1>5. CASE \E w \in Workers, out \in {"unknown", "error"} \cup Answers : Settles(w, out)
  BY <1>1, <1>5 DEF Settles
<1> QED
  BY <1>1, <1>2, <1>3, <1>4, <1>5, StepSpends

\* The contract counts as the ledger does.
LEMMA SameSize == \A S : Contract!Cardinality(S) = Cardinality(S)
BY Zenon DEF Contract!Cardinality, Cardinality

\* The entry of a row that is written, and the other entries.
LEMMA EntryWritten ==
    ASSUME TypeInv, NEW o \in Ops, NEW n \in Tries, NEW row,
           ledger' = [ledger EXCEPT ![o][n] = row]
    PROVE  Entries' = [Entries EXCEPT ![o][n] = row.outcome]
<1>1. ledger \in [Ops -> [Tries -> [outcome : Outcomes, worker : Workers \cup {NoWorker}, epoch : Nat]]]
  BY DEF TypeInv, LedgerType
<1>2. ASSUME NEW p \in Ops, NEW m \in Tries
      PROVE  ledger'[p][m].outcome = IF p = o /\ m = n THEN row.outcome ELSE ledger[p][m].outcome
  BY <1>1
<1>3. Entries' = [p \in Ops |-> [m \in Tries |-> ledger'[p][m].outcome]]
  BY DEF Entries
<1>4. \A p \in Ops : p # o => Entries'[p] = Entries[p]
  BY <1>2, <1>3 DEF Entries
<1>5. Entries'[o] = [Entries[o] EXCEPT ![n] = row.outcome]
  BY <1>2, <1>3 DEF Entries
<1>6. Entries' = [Entries EXCEPT ![o] = Entries'[o]]
  <2> DEFINE e == Entries
             f == Entries'
  <2>1. e = [p \in Ops |-> e[p]] /\ f = [p \in Ops |-> f[p]]
    BY <1>3 DEF Entries
  <2>2. \A p \in Ops : p # o => f[p] = e[p]
    BY <1>4
  <2> HIDE DEF e, f
  <2>3. f = [e EXCEPT ![o] = f[o]]
    BY <2>1, <2>2
  <2> QED
    BY <2>3 DEF e, f
<1> QED
  BY <1>5, <1>6

\* What is owed changes only with the selection and the first charges.
LEMMA OwedKept ==
    ASSUME UNCHANGED <<cohort, failed>>,
           \A o \in RoleOps : ledger'[o][1].outcome = "none" <=> ledger[o][1].outcome = "none"
    PROVE  Unheard' = Unheard
BY DEF Unheard

\* A reservation is a charge, and the floor is what keeps it within the budget.
LEMMA ReserveCharges ==
    ASSUME TypeInv, LedgerInv, NEW w \in Workers, ReserveNew(w)
    PROVE  Contract!Charge(op[w], try[w])
<1> DEFINE o == op[w]
           n == try[w]
           row == [outcome |-> "reserved", worker |-> w, epoch |-> held[w]]
<1>1. o \in Ops /\ n \in Tries /\ pc[w] = "ask"
  BY DEF ReserveNew, TypeInv, WorkerTypes, HasOp, OpPcs
<1>2. ledger' = [ledger EXCEPT ![o][n] = row] /\ UNCHANGED <<calls, cohort, failed>>
  BY DEF ReserveNew, companyVars
<1>3. Entries' = [Entries EXCEPT ![o][n] = "reserved"]
  BY <1>1, <1>2, EntryWritten
<1>4. ledger[o][n].outcome = "none" /\ Entries[o][n] = "none"
  BY <1>1 DEF ReserveNew, Free, Row, Entries
<1>5. n = 2 => Entries[o][1] \in Contract!Fruitless
  BY <1>1 DEF LedgerInv, AskedAfterSpent, OpPcs, SpentOutcomes, Contract!Fruitless, Entries, Tries
<1>6. \A r \in Ops, m \in Tries :
         ledger'[r][m].outcome = IF r = o /\ m = n THEN "reserved" ELSE ledger[r][m].outcome
  BY <1>1, <1>2 DEF TypeInv, LedgerType
<1>7. Unheard' = Unheard \ {o}
  <2>1. ASSUME NEW r \in RoleOps
        PROVE  ledger'[r][1].outcome = "none" <=> ledger[r][1].outcome = "none" /\ r # o
    <3>1. r \in Ops /\ 1 \in Tries
      BY DEF Ops, Tries
    <3>2. r = o /\ n = 2 => ledger[r][1].outcome # "none"
      BY <1>1 DEF LedgerInv, AskedAfterSpent, OpPcs, SpentOutcomes
    <3> QED
      BY <1>1, <1>4, <1>6, <3>1, <3>2 DEF Tries
  <2> QED
    BY <1>2, <2>1 DEF Unheard
<1>8. used + 1 + Cardinality(Unheard \ {o}) <= Limit /\ used' = used + 1
  <2>1. CASE n = 1
    BY <2>1 DEF ReserveNew, Affordable
  <2>2. CASE n = 2
    <3>1. o \notin Unheard
      BY <1>1, <2>2 DEF LedgerInv, AskedAfterSpent, OpPcs, SpentOutcomes, Unheard
    <3>2. Unheard \ {o} = Unheard
      BY <3>1
    <3> QED
      BY <2>2, <3>2 DEF ReserveNew, Affordable
  <2> QED
    BY <1>1, <2>1, <2>2 DEF Tries
<1> QED
  BY <1>2, <1>3, <1>4, <1>5, <1>7, <1>8, SameSize DEF Contract!Charge

LEMMA DispatchCalls ==
    ASSUME TypeInv, LedgerInv, NEW w \in Workers, Dispatch(w)
    PROVE  Contract!Call(op[w], try[w])
<1>1. op[w] \in Ops /\ try[w] \in Tries
  BY DEF Dispatch, TypeInv, WorkerTypes, HasOp, OpPcs
<1>2. ledger[op[w]][try[w]].outcome # "none" /\ calls[op[w]][try[w]] = 0
  BY DEF Dispatch, LedgerInv, CallerHasRow, NotCalledYet, Row
<1>3. calls' = [calls EXCEPT ![op[w]][try[w]] = 1]
  BY <1>2 DEF Dispatch
<1>4. UNCHANGED <<used, ledger, cohort, failed>>
  BY DEF Dispatch, companyVars
<1>5. Unheard' = Unheard /\ Entries' = Entries
  BY <1>4 DEF Unheard, Entries
<1> QED
  BY <1>1, <1>2, <1>3, <1>4, <1>5 DEF Contract!Call, Entries

LEMMA SettleSettles ==
    ASSUME TypeInv, CalledInv, NEW w \in Workers,
           NEW out \in {"unknown", "error"} \cup Answers, Settles(w, out)
    PROVE  Contract!Settle(op[w], try[w])
<1>1. op[w] \in Ops /\ try[w] \in Tries
  BY DEF Settles, TypeInv, WorkerTypes, HasOp, OpPcs
<1>2. ledger[op[w]][try[w]].outcome = "reserved"
  BY DEF Settles, Row
<1>3. ledger' = [ledger EXCEPT ![op[w]][try[w]] = [NoRow EXCEPT !.outcome = out]]
  BY DEF Settles, Settle
<1>4. Entries' = [Entries EXCEPT ![op[w]][try[w]] = out]
  BY <1>1, <1>3, EntryWritten DEF NoRow
<1>5. ASSUME NEW o \in RoleOps
      PROVE  ledger'[o][1].outcome = "none" <=> ledger[o][1].outcome = "none"
  <2>1. o \in Ops /\ 1 \in Tries /\ out # "none"
    BY DEF Ops, Tries, Answers
  <2>2. [NoRow EXCEPT !.outcome = out].outcome = out
    BY DEF NoRow
  <2> QED
    BY <1>1, <1>2, <1>3, <2>1, <2>2 DEF TypeInv, LedgerType
<1>6. Unheard' = Unheard /\ UNCHANGED <<used, calls>>
  BY <1>5, OwedKept DEF Settles, companyVars
<1>7. out # "unknown" => calls[op[w]][try[w]] = 1
  BY DEF Settles, CalledInv
<1>8. out \in Contract!Fruitless \cup {"valid"}
  BY DEF Contract!Fruitless, Answers
<1> QED
  BY <1>1, <1>2, <1>4, <1>6, <1>7, <1>8 DEF Contract!Settle, Entries

\* A step that leaves the ledger alone selects, releases, or is not seen.
LEMMA QuietSelects ==
    ASSUME TypeInv, TypeInv', UsageInv, PlacesInv, FloorInv', Quiet, [Next]_vars
    PROVE  Contract!Select \/ Contract!Release \/ UNCHANGED Contract!vars
<1>1. UNCHANGED <<used, ledger, calls>> /\ Entries' = Entries
  BY DEF Quiet, Entries
<1>2. CASE UNCHANGED Selection
  <2>1. Unheard' = Unheard
    BY <1>1, <1>2 DEF Unheard, Selection
  <2> QED
    BY <1>1, <2>1 DEF Contract!vars
<1>3. ASSUME NEW w \in Workers, Assess(w) PROVE UNCHANGED Contract!vars
  <2>1. Unheard' = Unheard
    BY <1>1, <1>3 DEF Unheard, Assess
  <2> QED
    BY <1>1, <2>1 DEF Contract!vars
<1>4. ASSUME NEW w \in Workers, FailCompany(w) PROVE Contract!Release
  <2>1. Unheard' \in SUBSET Unheard
    BY <1>1, <1>4 DEF Unheard, FailCompany
  <2> QED
    BY <1>1, <2>1 DEF Contract!Release
<1>5. ASSUME NEW w \in Workers, CommitCohort(w) PROVE Contract!Select
  <2>1. Current(w) /\ pc[w] = "scout"
    BY <1>5, HolderCurrent DEF CommitCohort, Fenced, PlacesInv
  <2>2. cohort = <<>>
    BY <2>1 DEF PlacesInv, PlaceInv, BeforeCohort
  <2>3. Unheard = {}
    BY <2>2 DEF Unheard, Elems
  <2>4. Unheard' \in SUBSET {o \in Ops : Entries[o][1] = "none"}
    BY <1>1 DEF Unheard, Entries, Ops, Tries
  <2>5. used + Cardinality(Unheard') <= Limit
    BY <1>1, <1>5 DEF FloorInv, CommitCohort
  <2> QED
    BY <1>1, <2>3, <2>4, <2>5, SameSize DEF Contract!Select
<1> QED
  BY <1>2, <1>3, <1>4, <1>5, SelectionStep

\* The budget is spent as the contract says, by whichever workers, after
\* whichever crashes, late answers and lost replies: charged before the call,
\* called once per charge, charged again only after a fruitless call, and never
\* at the expense of what the selected companies are owed.
THEOREM Refinement == Spec => KeepsContract
<1>1. Init => Contract!Init
  <2> SUFFICES ASSUME Init PROVE Contract!Init
    OBVIOUS
  <2>1. Entries = [o \in Ops |-> [n \in Contract!Charges |-> "none"]]
    BY DEF Init, Entries, NoRow, Tries, Contract!Charges
  <2>2. calls = [o \in Ops |-> [n \in Contract!Charges |-> 0]] /\ used = 0
    BY DEF Init, Tries, Contract!Charges
  <2>3. Unheard = {}
    BY DEF Init, Unheard, Elems
  <2> QED
    BY <2>1, <2>2, <2>3 DEF Contract!Init
<1>2. Init => PlacesInv /\ FloorInv /\ CalledInv
  BY PlacesInit DEF Init, CalledInv
<1>3. ASSUME TypeInv, TypeInv', LedgerInv, UsageInv, PlacesInv, FloorInv', CalledInv, [Next]_vars
      PROVE  Contract!Next \/ UNCHANGED Contract!vars
  <2>0. Tries = Contract!Charges
    BY DEF Tries, Contract!Charges
  <2>1. CASE Quiet
    BY <1>3, <2>1, QuietSelects DEF Contract!Next
  <2>2. ASSUME NEW w \in Workers, ReserveNew(w) \/ Dispatch(w) \/
               \E out \in {"unknown", "error"} \cup Answers : Settles(w, out)
        PROVE  Contract!Next
    <3>1. op[w] \in Ops /\ try[w] \in Contract!Charges
      BY <1>3, <2>0, <2>2 DEF ReserveNew, Dispatch, Settles, TypeInv, WorkerTypes, HasOp, OpPcs
    <3> QED
      BY <1>3, <2>2, <3>1, ReserveCharges, DispatchCalls, SettleSettles DEF Contract!Next
  <2> QED
    BY <1>3, <2>1, <2>2, StepSpends
<1>4. /\ TypeInv /\ TypeInv' /\ LedgerInv /\ UsageInv /\ PlacesInv /\ FloorInv' /\ CalledInv
      /\ [Next]_vars
      => [Contract!Next]_Contract!vars
  BY <1>3
<1> QED
  BY <1>1, <1>2, <1>4, TypeInit, TypeStep, LedgerInit, LedgerStep, UsageInit, UsageStep,
     PlacesStep, FloorStep, CalledStep, PTL DEF Spec, KeepsContract, Contract!Spec

==============================================================================
