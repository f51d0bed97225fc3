------------------------ MODULE DiscoveryRun_proofs ------------------------
(***************************************************************************)
(* Proofs about DiscoveryRun, for any number of workers, companies and     *)
(* faults: types, cancellation and the finality of a run first, then what  *)
(* survives a change of worker and that the run implements RunContract.    *)
(***************************************************************************)
EXTENDS DiscoveryRun, TLAPS

USE NoWorkerAssumption, MaxCohortAssumption, MaxFaultsAssumption

-----------------------------------------------------------------------------
(* Type correctness.                                                       *)

\* A cohort is a sequence of companies of the pool, within the limit.
LEMMA CohortsType ==
    ASSUME NEW S \in SUBSET Candidates, NEW s \in Cohorts(S)
    PROVE  /\ s \in Seq(Candidates)
           /\ Len(s) \in 0..MaxCohort
           /\ \A i, j \in DOMAIN s : s[i] = s[j] => i = j
           /\ Elems(s) \subseteq S
<1>1. PICK n \in 0..MaxCohort : s \in [1..n -> S]
  BY DEF Cohorts
<1>2. s \in Seq(S) /\ Len(s) = n
  BY <1>1
<1> QED
  BY <1>1, <1>2 DEF Cohorts, Elems

\* What Leave does to the variables of its worker keeps their types.
LEMMA LeaveType ==
    ASSUME TypeOK, NEW w \in Workers, Leave(w)
    PROVE  /\ pc' \in [Workers -> Pcs]
           /\ held' \in [Workers -> Nat]
           /\ local' \in [Workers -> Checkpoints]
           /\ pool' \in [Workers -> SUBSET Candidates]
           /\ pending' \in [Workers -> SUBSET Candidates]
           /\ incomplete' \in [Workers -> BOOLEAN]
           /\ aborted' \in [Workers -> BOOLEAN]
           /\ verdict' \in [Workers -> Terminal]
<1>1. EmptyCheckpoint \in Checkpoints
  BY DEF EmptyCheckpoint, Checkpoints, Stages
<1> QED
  BY <1>1 DEF TypeOK, Leave, Return, Goto, Pcs, Terminal

\* The same for Catch.
LEMMA CatchType ==
    ASSUME TypeOK, NEW w \in Workers, NEW st \in Terminal, Catch(w, st)
    PROVE  /\ pc' \in [Workers -> Pcs]
           /\ held' \in [Workers -> Nat]
           /\ local' \in [Workers -> Checkpoints]
           /\ pool' \in [Workers -> SUBSET Candidates]
           /\ pending' \in [Workers -> SUBSET Candidates]
           /\ incomplete' \in [Workers -> BOOLEAN]
           /\ aborted' \in [Workers -> BOOLEAN]
           /\ verdict' \in [Workers -> Terminal]
<1>1. EmptyCheckpoint \in Checkpoints
  BY DEF EmptyCheckpoint, Checkpoints, Stages
<1>2. CASE aborted[w]
  BY <1>2, LeaveType DEF Catch
<1>3. CASE ~aborted[w]
  <2>1. /\ Goto(w, "catch") /\ Return(w)
        /\ verdict' = [verdict EXCEPT ![w] = st]
        /\ held' = held /\ aborted' = aborted
    BY <1>3 DEF Catch
  <2> QED
    BY <1>1, <2>1 DEF TypeOK, Return, Goto, Pcs
<1> QED
  BY <1>2, <1>3

\* Appending an event of worker w.
LEMMA EventType ==
    ASSUME TypeOK, NEW w \in Workers, NEW S \in SUBSET Candidates,
           NEW k \in {"cohort", "assessed", "finalized"}
    PROVE  Event(w, k, S) \in Seq(Events)
<1>1. [kind |-> k, about |-> S, epoch |-> held[w]] \in Events
  BY DEF TypeOK, Events
<1> QED
  BY <1>1 DEF Event, TypeOK

\* What EndRun does to the rows keeps their types.
LEMMA EndRunType ==
    ASSUME TypeOK, NEW w \in Workers, NEW st \in Terminal, EndRun(w, st)
    PROVE  /\ status' \in Statuses
           /\ stage' \in Stages
           /\ owner' = owner /\ epoch' = epoch
           /\ leaseState' = "none"
           /\ UNCHANGED <<cancelRequested, gaps, deadline, checkpoint, cohort,
                          sealed, systemic>>
           /\ cstate' \in [Candidates -> CandidateStates]
           /\ events' \in Seq(Events)
<1>1. events' \in Seq(Events)
  BY EventType DEF EndRun
<1> QED
  BY <1>1 DEF TypeOK, EndRun, Statuses, Stages, CandidateStates

\* A checkpoint in the research stage of a typed cohort is typed.
LEMMA ResearchCheckpoint ==
    ASSUME NEW s \in Seq(Candidates), NEW n \in Nat
    PROVE  [stage |-> "research", cohort |-> s, next |-> n] \in Checkpoints
BY DEF Checkpoints, Stages

\* In the company loop a worker is at a company of its checkpoint.
InLoop ==
    \A w \in Workers :
        pc[w] \in {"research", "fail", "advance"} => MoreCompanies(w)

LEMMA CurrentType ==
    ASSUME TypeOK, NEW w \in Workers, MoreCompanies(w)
    PROVE  Current(w) \in Candidates
BY DEF TypeOK, MoreCompanies, Current, Checkpoints

LEMMA SealType ==
    ASSUME TypeOK, NEW w \in Workers, MoreCompanies(w), SealAssessment(w)
    PROVE  /\ sealed' \subseteq Candidates
           /\ cstate' \in [Candidates -> CandidateStates]
           /\ events' \in Seq(Events)
<1>1. Current(w) \in Candidates
  BY CurrentType
<1>2. events' \in Seq(Events)
  BY <1>1, EventType DEF SealAssessment
<1> QED
  BY <1>1, <1>2 DEF TypeOK, SealAssessment, CandidateStates

LEMMA TypeInit == Init => TypeOK /\ InLoop
<1>1. EmptyCheckpoint \in Checkpoints
  BY DEF EmptyCheckpoint, Checkpoints, Stages
<1> SUFFICES ASSUME Init PROVE TypeOK /\ InLoop
  OBVIOUS
<1>2. cohort \in Seq(Candidates) /\ Len(cohort) <= MaxCohort
  BY DEF Init
<1>3. \A i, j \in DOMAIN cohort : cohort[i] = cohort[j] => i = j
  BY DEF Init
<1>4. events \in Seq(Events)
  BY DEF Init
<1>5. /\ status \in Statuses /\ stage \in Stages
      /\ owner \in Workers \cup {NoWorker} /\ epoch \in Nat
      /\ leaseState \in {"none", "live", "expired"}
      /\ checkpoint \in Checkpoints
      /\ faults \in 0..MaxFaults
  BY <1>1 DEF Init, Statuses, Stages
<1>6. /\ cancelRequested \in BOOLEAN /\ gaps \in BOOLEAN /\ deadline \in BOOLEAN
      /\ sealed \subseteq Candidates /\ systemic \subseteq Candidates
      /\ cstate \in [Candidates -> CandidateStates]
  BY DEF Init, CandidateStates
<1>7. /\ pc \in [Workers -> Pcs]
      /\ held \in [Workers -> Nat]
      /\ local \in [Workers -> Checkpoints]
      /\ pool \in [Workers -> SUBSET Candidates]
      /\ pending \in [Workers -> SUBSET Candidates]
      /\ incomplete \in [Workers -> BOOLEAN]
      /\ aborted \in [Workers -> BOOLEAN]
      /\ verdict \in [Workers -> Terminal]
  BY <1>1 DEF Init, Terminal, Pcs
<1>8. InLoop
  BY DEF Init, InLoop
<1> QED
  BY <1>2, <1>3, <1>4, <1>5, <1>6, <1>7, <1>8 DEF TypeOK

\* Every action keeps the types.
LEMMA TypeStep == TypeOK /\ InLoop /\ [Next]_vars => TypeOK'
<1> SUFFICES ASSUME TypeOK, InLoop, [Next]_vars PROVE TypeOK'
  OBVIOUS
<1> USE DEF rowVars, candidateVars, workerVars
<1>1. ASSUME NEW w \in Workers, Claim(w) PROVE TypeOK'
  BY <1>1 DEF TypeOK, Claim, Goto, Pcs, StagePcs, Statuses, Stages
<1>2. ASSUME NEW w \in Workers, Begin(w) PROVE TypeOK'
  BY <1>2 DEF TypeOK, Begin, Goto, Pcs, StagePcs
<1>3. ASSUME NEW w \in Workers, NEW c \in Candidates, Admit(w, c)
       PROVE  TypeOK'
  <2>1. /\ cstate' \in [Candidates -> CandidateStates]
        /\ pool' \in [Workers -> SUBSET Candidates]
    <3>1. "discovered" \in CandidateStates /\ "unresolved_identity" \in CandidateStates
      BY DEF CandidateStates
    <3>2. \/ cstate' = cstate
          \/ cstate' = [cstate EXCEPT ![c] = "discovered"]
          \/ cstate' = [cstate EXCEPT ![c] = "unresolved_identity"]
      BY <1>3 DEF Admit
    <3>3. pool' = pool \/ pool' = [pool EXCEPT ![w] = @ \cup {c}]
      BY <1>3 DEF Admit
    <3>4. cstate' \in [Candidates -> CandidateStates]
      BY <3>1, <3>2 DEF TypeOK
    <3>5. pool[w] \cup {c} \in SUBSET Candidates
      BY DEF TypeOK
    <3> QED
      BY <3>3, <3>4, <3>5 DEF TypeOK
  <2> QED
    BY <1>3, <2>1 DEF TypeOK, Admit
<1>4. ASSUME NEW w \in Workers, CommitCohort(w) PROVE TypeOK'
  <2>1. PICK s \in Cohorts(pool[w]), g \in BOOLEAN :
          /\ cohort' = s
          /\ gaps' = g
          /\ cstate' = [c \in Candidates |->
                          IF c \in Elems(s) THEN "researching"
                          ELSE IF cstate[c] = "discovered" THEN "not_selected"
                          ELSE cstate[c]]
          /\ local' = [local EXCEPT ![w] =
                         [stage |-> "research", cohort |-> s, next |-> 0]]
    BY <1>4 DEF CommitCohort
  <2>2. /\ s \in Seq(Candidates) /\ Len(s) <= MaxCohort
        /\ \A i, j \in DOMAIN s : s[i] = s[j] => i = j
    <3>1. pool[w] \in SUBSET Candidates
      BY DEF TypeOK
    <3> QED
      BY <2>1, <3>1, CohortsType
  <2>3. [stage |-> "research", cohort |-> s, next |-> 0] \in Checkpoints
    BY <2>2, ResearchCheckpoint
  <2>4. cstate' \in [Candidates -> CandidateStates]
    BY <2>1 DEF TypeOK, CandidateStates
  <2>5. local' \in [Workers -> Checkpoints]
    BY <2>1, <2>3 DEF TypeOK
  <2>6. events' \in Seq(Events)
    BY <1>4, EventType DEF CommitCohort
  <2>7. /\ pc' \in [Workers -> Pcs] /\ pool' \in [Workers -> SUBSET Candidates]
        /\ stage' \in Stages
    BY <1>4 DEF CommitCohort, TypeOK, Goto, Pcs, StagePcs, Stages
  <2> QED
    BY <1>4, <2>1, <2>2, <2>4, <2>5, <2>6, <2>7 DEF CommitCohort, TypeOK
<1>5. ASSUME NEW w \in Workers, SaveCohort(w) PROVE TypeOK'
  <2>1. local[w] \in Checkpoints /\ local[w].stage \in Stages
    BY DEF TypeOK, Checkpoints
  <2> QED
    BY <1>5, <2>1 DEF TypeOK, SaveCohort, SaveCheckpoint, Goto, Pcs, StagePcs
<1>6. ASSUME NEW w \in Workers, Select(w) PROVE TypeOK'
  <2> DEFINE k == [stage |-> "research", cohort |-> cohort, next |-> 0]
  <2>1. k \in Checkpoints /\ k.stage \in Stages
    BY ResearchCheckpoint DEF TypeOK, Stages
  <2>2. \/ UNCHANGED <<checkpoint, stage, local>>
        \/ /\ checkpoint' = k /\ stage' = k.stage
           /\ local' = [local EXCEPT ![w] = k]
    BY <1>6 DEF Select, SaveCheckpoint
  <2> HIDE DEF k
  <2>3. /\ checkpoint' \in Checkpoints /\ stage' \in Stages
        /\ local' \in [Workers -> Checkpoints]
    <3>1. CASE UNCHANGED <<checkpoint, stage, local>>
      BY <3>1 DEF TypeOK
    <3>2. CASE /\ checkpoint' = k /\ stage' = k.stage
               /\ local' = [local EXCEPT ![w] = k]
      BY <2>1, <3>2 DEF TypeOK
    <3> QED
      BY <2>2, <3>1, <3>2
  <2>4. {c \in Elems(cohort) : Pending(c)} \in SUBSET Candidates
    BY DEF TypeOK, Elems
  <2>5. pending' \in [Workers -> SUBSET Candidates]
    BY <1>6, <2>4 DEF TypeOK, Select
  <2> QED
    BY <1>6, <2>3, <2>5 DEF TypeOK, Select, Goto, Pcs, StagePcs
<1>7. ASSUME NEW w \in Workers, StartCompany(w) PROVE TypeOK'
  BY <1>7 DEF TypeOK, StartCompany, Goto, Pcs, StagePcs
<1>8. ASSUME NEW w \in Workers, CommitAssessment(w) PROVE TypeOK'
  <2>1. SealAssessment(w) /\ MoreCompanies(w)
    BY <1>8 DEF CommitAssessment, InLoop, At
  <2> QED
    BY <1>8, <2>1, SealType DEF TypeOK, CommitAssessment, Goto, Pcs, StagePcs
<1>9. ASSUME NEW w \in Workers, FailCandidate(w) PROVE TypeOK'
  <2>1. Current(w) \in Candidates
    BY <1>9, CurrentType DEF FailCandidate, At, InLoop
  <2>2. /\ cstate' \in [Candidates -> CandidateStates]
        /\ systemic' \subseteq Candidates
    BY <1>9, <2>1 DEF FailCandidate, RecordFailure, TypeOK, CandidateStates
  <2>3. incomplete' \in [Workers -> BOOLEAN]
    BY <1>9 DEF FailCandidate, TypeOK
  <2> QED
    BY <1>9, <2>2, <2>3 DEF TypeOK, FailCandidate, Goto, Pcs, StagePcs
<1>10. ASSUME NEW w \in Workers, Advance(w) PROVE TypeOK'
  <2> DEFINE k == [local[w] EXCEPT !.next = @ + 1]
  <2>1. k \in Checkpoints /\ k.stage \in Stages
    <3>1. local[w] \in Checkpoints
      BY DEF TypeOK
    <3> QED
      BY <3>1 DEF Checkpoints
  <2>2. /\ checkpoint' = k /\ stage' = k.stage
        /\ local' = [local EXCEPT ![w] = k]
    BY <1>10 DEF Advance, SaveCheckpoint
  <2> HIDE DEF k
  <2> QED
    BY <1>10, <2>1, <2>2 DEF TypeOK, Advance, Goto, Pcs, StagePcs
<1>11. ASSUME NEW w \in Workers, Conclude(w) PROVE TypeOK'
  <2>1. EmptyCheckpoint \in Checkpoints
    BY DEF EmptyCheckpoint, Checkpoints, Stages
  <2>2. Outcome(w) \in Terminal
    BY DEF Outcome, Terminal
  <2>3. incomplete' \in [Workers -> BOOLEAN]
    BY <1>11 DEF Conclude, Return, TypeOK
  <2> QED
    BY <1>11, <2>1, <2>2, <2>3 DEF TypeOK, Conclude, Return, Goto, Pcs, StagePcs
<1>12. ASSUME NEW w \in Workers, Finalize(w) PROVE TypeOK'
  <2>1. verdict[w] \in Terminal /\ EndRun(w, verdict[w]) /\ Leave(w)
    BY <1>12 DEF TypeOK, Finalize
  <2> QED
    BY <1>12, <2>1, EndRunType, LeaveType DEF TypeOK, Finalize
<1>13. ASSUME NEW w \in Workers, CatchFinalize(w) PROVE TypeOK'
  <2>1. verdict[w] \in Terminal /\ EndRun(w, verdict[w]) /\ Leave(w)
    BY <1>13 DEF TypeOK, CatchFinalize
  <2> QED
    BY <1>13, <2>1, EndRunType, LeaveType DEF TypeOK, CatchFinalize
<1>14. ASSUME NEW w \in Workers, CatchFails(w) PROVE TypeOK'
  <2>1. Leave(w)
    BY <1>14 DEF CatchFails
  <2> QED
    BY <1>14, <2>1, LeaveType DEF TypeOK, CatchFails
<1>15. ASSUME NEW w \in Workers, LeaseLost(w) PROVE TypeOK'
  <2>1. Leave(w)
    BY <1>15 DEF LeaseLost
  <2> QED
    BY <1>15, <2>1, LeaveType DEF TypeOK, LeaseLost
<1>16. ASSUME NEW w \in Workers, SeeCancellation(w) PROVE TypeOK'
  <2>1. "cancelled" \in Terminal /\ Catch(w, "cancelled")
    BY <1>16 DEF SeeCancellation, Terminal
  <2> QED
    BY <1>16, <2>1, CatchType DEF TypeOK, SeeCancellation
<1>17. ASSUME NEW w \in Workers, SeeDeadline(w) PROVE TypeOK'
  <2>1. "partial" \in Terminal /\ Catch(w, "partial")
    BY <1>17 DEF SeeDeadline, Terminal
  <2> QED
    BY <1>17, <2>1, CatchType DEF TypeOK, SeeDeadline
<1>18. ASSUME NEW w \in Workers, Abort(w) PROVE TypeOK'
  <2>1. Leave(w)
    BY <1>18 DEF Abort
  <2> QED
    BY <1>18, <2>1, LeaveType DEF TypeOK, Abort
<1>19. ASSUME NEW w \in Workers, CommitReplyLost(w) PROVE TypeOK'
  <2>1. SealAssessment(w) /\ MoreCompanies(w)
    BY <1>19 DEF CommitReplyLost, InLoop, At
  <2> QED
    BY <1>19, <2>1, SealType DEF TypeOK, CommitReplyLost, Goto, Pcs, StagePcs
<1>20. ASSUME NEW w \in Workers, ResearchFails(w) PROVE TypeOK'
  BY <1>20 DEF TypeOK, ResearchFails, Goto, Pcs, StagePcs
<1>21. ASSUME NEW w \in Workers, FinalizeFails(w) PROVE TypeOK'
  <2>1. verdict[w] \in Terminal /\ Catch(w, verdict[w])
    BY <1>21 DEF TypeOK, FinalizeFails
  <2>2. CASE EndRun(w, verdict[w])
    BY <1>21, <2>1, <2>2, EndRunType, CatchType DEF TypeOK, FinalizeFails
  <2>3. CASE UNCHANGED <<rowVars, candidateVars, events, deadline>>
    BY <1>21, <2>1, <2>3, CatchType DEF TypeOK, FinalizeFails
  <2> QED
    BY <1>21, <2>2, <2>3 DEF FinalizeFails
<1>22. ASSUME NEW w \in Workers, OutOfBudget(w) PROVE TypeOK'
  <2>1. "partial" \in Terminal /\ Catch(w, "partial")
    BY <1>22 DEF OutOfBudget, Terminal
  <2> QED
    BY <1>22, <2>1, CatchType DEF TypeOK, OutOfBudget
<1>23. ASSUME NEW w \in Workers, InProgress(w) PROVE TypeOK'
  <2>1. Leave(w)
    BY <1>23 DEF InProgress
  <2> QED
    BY <1>23, <2>1, LeaveType DEF TypeOK, InProgress
<1>24. ASSUME NEW w \in Workers, StageFails(w) PROVE TypeOK'
  <2>1. "failed" \in Terminal /\ Catch(w, "failed")
    BY <1>24 DEF StageFails, Terminal
  <2> QED
    BY <1>24, <2>1, CatchType DEF TypeOK, StageFails
<1>25. ASSUME NEW w \in Workers, HeartbeatFails(w) PROVE TypeOK'
  BY <1>25 DEF TypeOK, HeartbeatFails, Goto, Pcs, StagePcs
<1>26. ASSUME NEW w \in Workers, Crash(w) PROVE TypeOK'
  <2>1. Leave(w)
    BY <1>26 DEF Crash
  <2> QED
    BY <1>26, <2>1, LeaveType DEF TypeOK, Crash
<1>27. ASSUME RequestCancel PROVE TypeOK'
  <2> DEFINE e == [kind |-> "finalized", about |-> {}, epoch |-> epoch]
  <2>1. e \in Events
    BY DEF TypeOK, Events
  <2>2. events' = events \/ events' = Append(events, e)
    BY <1>27 DEF RequestCancel
  <2> HIDE DEF e
  <2>3. events' \in Seq(Events)
    <3>1. events \in Seq(Events) /\ Append(events, e) \in Seq(Events)
      BY <2>1 DEF TypeOK
    <3> QED
      BY <2>2, <3>1
  <2> QED
    <3>1. /\ status' \in {status, "cancelled"}
          /\ stage' \in {stage, "finalization"}
          /\ leaseState' \in {leaseState, "none"}
      BY <1>27 DEF RequestCancel
    <3>2. /\ status' \in Statuses /\ stage' \in Stages
          /\ leaseState' \in {"none", "live", "expired"}
      BY <3>1 DEF TypeOK, Statuses, Terminal, Stages
    <3>3. cancelRequested' \in BOOLEAN
      BY <1>27 DEF RequestCancel
    <3>4. UNCHANGED <<owner, epoch, checkpoint, gaps, candidateVars, deadline,
                      workerVars, faults>>
      BY <1>27 DEF RequestCancel
    <3> QED
      BY <2>3, <3>2, <3>3, <3>4 DEF TypeOK
<1>28. ASSUME ExpireLease PROVE TypeOK'
  BY <1>28 DEF TypeOK, ExpireLease
<1>29. ASSUME Stall PROVE TypeOK'
  BY <1>29 DEF TypeOK, Stall
<1>30. ASSUME PassDeadline PROVE TypeOK'
  BY <1>30 DEF TypeOK, PassDeadline
<1>31. ASSUME UNCHANGED vars PROVE TypeOK'
  BY <1>31 DEF TypeOK, vars
<1> QED
  BY <1>1, <1>2, <1>3, <1>4, <1>5, <1>6, <1>7, <1>8, <1>9, <1>10,
     <1>11, <1>12, <1>13, <1>14, <1>15, <1>16, <1>17, <1>18, <1>19, <1>20,
     <1>21, <1>22, <1>23, <1>24, <1>25, <1>26, <1>27, <1>28, <1>29, <1>30, <1>31
     DEF Next, Work, Disturb

\* Who enters the loop body is at a company of its checkpoint, and stays there.
LEMMA LoopStep == TypeOK /\ InLoop /\ [Next]_vars => InLoop'
<1> SUFFICES ASSUME TypeOK, InLoop, [Next]_vars,
                    NEW v \in Workers,
                    pc'[v] \in {"research", "fail", "advance"}
             PROVE  MoreCompanies(v)'
  BY DEF InLoop
<1> USE DEF rowVars, candidateVars, workerVars
<1>1. ASSUME NEW w \in Workers, Claim(w) PROVE MoreCompanies(v)'
  BY <1>1 DEF Claim, TypeOK, InLoop, MoreCompanies, Goto
<1>2. ASSUME NEW w \in Workers, Begin(w) PROVE MoreCompanies(v)'
  BY <1>2 DEF Begin, TypeOK, InLoop, MoreCompanies, Goto
<1>3. ASSUME NEW w \in Workers, NEW c \in Candidates, Admit(w, c)
       PROVE  MoreCompanies(v)'
  BY <1>3 DEF Admit, TypeOK, InLoop, MoreCompanies
<1>4. ASSUME NEW w \in Workers, CommitCohort(w) PROVE MoreCompanies(v)'
  BY <1>4 DEF CommitCohort, TypeOK, InLoop, MoreCompanies, Goto
<1>5. ASSUME NEW w \in Workers, SaveCohort(w) PROVE MoreCompanies(v)'
  BY <1>5 DEF SaveCohort, TypeOK, InLoop, MoreCompanies, Goto
<1>6. ASSUME NEW w \in Workers, Select(w) PROVE MoreCompanies(v)'
  BY <1>6 DEF Select, TypeOK, InLoop, MoreCompanies, Goto
<1>7. ASSUME NEW w \in Workers, StartCompany(w) PROVE MoreCompanies(v)'
  BY <1>7 DEF StartCompany, TypeOK, InLoop, MoreCompanies, Goto
<1>8. ASSUME NEW w \in Workers, CommitAssessment(w) PROVE MoreCompanies(v)'
  BY <1>8 DEF CommitAssessment, TypeOK, InLoop, MoreCompanies, At, Goto
<1>9. ASSUME NEW w \in Workers, FailCandidate(w) PROVE MoreCompanies(v)'
  BY <1>9 DEF FailCandidate, TypeOK, InLoop, MoreCompanies, At, Goto
<1>10. ASSUME NEW w \in Workers, Advance(w) PROVE MoreCompanies(v)'
  BY <1>10 DEF Advance, TypeOK, InLoop, MoreCompanies, Goto
<1>11. ASSUME NEW w \in Workers, Conclude(w) PROVE MoreCompanies(v)'
  BY <1>11 DEF Conclude, TypeOK, InLoop, MoreCompanies, Return, Goto
<1>12. ASSUME NEW w \in Workers, Finalize(w) PROVE MoreCompanies(v)'
  BY <1>12 DEF Finalize, TypeOK, InLoop, MoreCompanies, Leave, Return, Goto
<1>13. ASSUME NEW w \in Workers, CatchFinalize(w) PROVE MoreCompanies(v)'
  BY <1>13 DEF CatchFinalize, TypeOK, InLoop, MoreCompanies, Leave, Return, Goto
<1>14. ASSUME NEW w \in Workers, CatchFails(w) PROVE MoreCompanies(v)'
  BY <1>14 DEF CatchFails, TypeOK, InLoop, MoreCompanies, Leave, Return, Goto
<1>15. ASSUME NEW w \in Workers, LeaseLost(w) PROVE MoreCompanies(v)'
  BY <1>15 DEF LeaseLost, TypeOK, InLoop, MoreCompanies, Leave, Return, Goto
<1>16. ASSUME NEW w \in Workers, SeeCancellation(w) PROVE MoreCompanies(v)'
  BY <1>16 DEF SeeCancellation, TypeOK, InLoop, MoreCompanies, Catch, Leave, Return, Goto
<1>17. ASSUME NEW w \in Workers, SeeDeadline(w) PROVE MoreCompanies(v)'
  BY <1>17 DEF SeeDeadline, TypeOK, InLoop, MoreCompanies, Catch, Leave, Return, Goto
<1>18. ASSUME NEW w \in Workers, Abort(w) PROVE MoreCompanies(v)'
  BY <1>18 DEF Abort, TypeOK, InLoop, MoreCompanies, Leave, Return, Goto
<1>19. ASSUME NEW w \in Workers, CommitReplyLost(w) PROVE MoreCompanies(v)'
  BY <1>19 DEF CommitReplyLost, TypeOK, InLoop, MoreCompanies, At, Goto
<1>20. ASSUME NEW w \in Workers, ResearchFails(w) PROVE MoreCompanies(v)'
  BY <1>20 DEF ResearchFails, TypeOK, InLoop, MoreCompanies, At, Goto
<1>21. ASSUME NEW w \in Workers, FinalizeFails(w) PROVE MoreCompanies(v)'
  <2>1. Catch(w, verdict[w])
    BY <1>21 DEF FinalizeFails
  <2> QED
    BY <2>1 DEF TypeOK, InLoop, MoreCompanies, Catch, Leave, Return, Goto
<1>22. ASSUME NEW w \in Workers, OutOfBudget(w) PROVE MoreCompanies(v)'
  BY <1>22 DEF OutOfBudget, TypeOK, InLoop, MoreCompanies, Catch, Leave, Return, Goto
<1>23. ASSUME NEW w \in Workers, InProgress(w) PROVE MoreCompanies(v)'
  BY <1>23 DEF InProgress, TypeOK, InLoop, MoreCompanies, Leave, Return, Goto
<1>24. ASSUME NEW w \in Workers, StageFails(w) PROVE MoreCompanies(v)'
  BY <1>24 DEF StageFails, TypeOK, InLoop, MoreCompanies, Catch, Leave, Return, Goto
<1>25. ASSUME NEW w \in Workers, HeartbeatFails(w) PROVE MoreCompanies(v)'
  BY <1>25 DEF HeartbeatFails, TypeOK, InLoop, MoreCompanies
<1>26. ASSUME NEW w \in Workers, Crash(w) PROVE MoreCompanies(v)'
  BY <1>26 DEF Crash, TypeOK, InLoop, MoreCompanies, Leave, Return, Goto
<1>27. ASSUME RequestCancel PROVE MoreCompanies(v)'
  BY <1>27 DEF RequestCancel, TypeOK, InLoop, MoreCompanies
<1>28. ASSUME ExpireLease PROVE MoreCompanies(v)'
  BY <1>28 DEF ExpireLease, TypeOK, InLoop, MoreCompanies
<1>29. ASSUME Stall PROVE MoreCompanies(v)'
  BY <1>29 DEF Stall, TypeOK, InLoop, MoreCompanies
<1>30. ASSUME PassDeadline PROVE MoreCompanies(v)'
  BY <1>30 DEF PassDeadline, TypeOK, InLoop, MoreCompanies
<1>31. ASSUME UNCHANGED vars PROVE MoreCompanies(v)'
  BY <1>31 DEF vars, TypeOK, InLoop, MoreCompanies
<1> QED
  BY <1>1, <1>2, <1>3, <1>4, <1>5, <1>6, <1>7, <1>8, <1>9, <1>10,
     <1>11, <1>12, <1>13, <1>14, <1>15, <1>16, <1>17, <1>18, <1>19, <1>20,
     <1>21, <1>22, <1>23, <1>24, <1>25, <1>26, <1>27, <1>28, <1>29, <1>30, <1>31
     DEF Next, Work, Disturb

\* THEOREM: the type invariant holds in every reachable state.
THEOREM TypeCorrect == Spec => []TypeOK
<1>1. Init => TypeOK /\ InLoop
  BY TypeInit
<1>2. TypeOK /\ InLoop /\ [Next]_vars => (TypeOK /\ InLoop)'
  BY TypeStep, LoopStep
<1> QED
  BY <1>1, <1>2, PTL DEF Spec

-----------------------------------------------------------------------------
(* Cancellation and the end of the run.                                    *)

\* A run that has ended, or has not begun, has no lease; a queued run that is
\* cancelled ends at once.
LeaseInv ==
    /\ status \in Terminal => leaseState = "none"
    /\ status = "queued" => ~cancelRequested /\ leaseState = "none"

\* What a worker is about to report: executeStages never returns "cancelled",
\* and the catch block says so only after it saw the request.
VerdictInv ==
    \A w \in Workers :
        /\ pc[w] = "finalize" => verdict[w] # "cancelled"
        /\ pc[w] = "catch" /\ verdict[w] = "cancelled" => cancelRequested

CancelInv == TypeOK /\ LeaseInv /\ VerdictInv /\ CancelWins

\* Only the holder of a live lease ends the run, and the run is then running.
LEMMA HolderRuns ==
    ASSUME TypeOK, LeaseInv, leaseState = "live"
    PROVE  status = "running"
BY DEF TypeOK, LeaseInv, Statuses

\* What the catch block leaves to finalize again.
LEMMA CatchVerdict ==
    ASSUME TypeOK, VerdictInv, NEW w \in Workers, NEW st \in Terminal,
           Catch(w, st), cancelRequested' = cancelRequested,
           st = "cancelled" => cancelRequested, NEW v \in Workers
    PROVE  /\ pc'[v] = "finalize" => verdict'[v] # "cancelled"
           /\ pc'[v] = "catch" /\ verdict'[v] = "cancelled" => cancelRequested'
<1>1. CASE aborted[w]
  <2>1. /\ pc' = [pc EXCEPT ![w] = "idle"]
        /\ verdict' = [verdict EXCEPT ![w] = "completed"]
    BY <1>1 DEF Catch, Leave, Goto
  <2> QED
    BY <2>1 DEF TypeOK, VerdictInv
<1>2. CASE ~aborted[w]
  <2>1. /\ pc' = [pc EXCEPT ![w] = "catch"]
        /\ verdict' = [verdict EXCEPT ![w] = st]
    BY <1>2 DEF Catch, Goto
  <2> QED
    BY <2>1 DEF TypeOK, VerdictInv
<1> QED
  BY <1>1, <1>2

LEMMA VerdictStep ==
    TypeOK /\ VerdictInv /\ [Next]_vars => VerdictInv'
<1> SUFFICES ASSUME TypeOK, VerdictInv, [Next]_vars, NEW v \in Workers
             PROVE  /\ pc'[v] = "finalize" => verdict'[v] # "cancelled"
                    /\ pc'[v] = "catch" /\ verdict'[v] = "cancelled"
                          => cancelRequested'
  BY DEF VerdictInv
<1> DEFINE G == /\ pc'[v] = "finalize" => verdict'[v] # "cancelled"
                /\ pc'[v] = "catch" /\ verdict'[v] = "cancelled"
                      => cancelRequested'
<1> USE DEF rowVars, candidateVars, workerVars
<1>1. ASSUME NEW w \in Workers, Claim(w) PROVE G
  BY <1>1 DEF Claim, TypeOK, VerdictInv, Goto
<1>2. ASSUME NEW w \in Workers, Begin(w) PROVE G
  BY <1>2 DEF Begin, TypeOK, VerdictInv, Goto
<1>3. ASSUME NEW w \in Workers, NEW c \in Candidates, Admit(w, c) PROVE G
  BY <1>3 DEF Admit, TypeOK, VerdictInv
<1>4. ASSUME NEW w \in Workers, CommitCohort(w) PROVE G
  BY <1>4 DEF CommitCohort, TypeOK, VerdictInv, Goto
<1>5. ASSUME NEW w \in Workers, SaveCohort(w) PROVE G
  BY <1>5 DEF SaveCohort, TypeOK, VerdictInv, SaveCheckpoint, Goto
<1>6. ASSUME NEW w \in Workers, Select(w) PROVE G
  BY <1>6 DEF Select, TypeOK, VerdictInv, SaveCheckpoint, Goto
<1>7. ASSUME NEW w \in Workers, StartCompany(w) PROVE G
  BY <1>7 DEF StartCompany, TypeOK, VerdictInv, Goto
<1>8. ASSUME NEW w \in Workers, CommitAssessment(w) PROVE G
  BY <1>8 DEF CommitAssessment, TypeOK, VerdictInv, Goto
<1>9. ASSUME NEW w \in Workers, FailCandidate(w) PROVE G
  BY <1>9 DEF FailCandidate, TypeOK, VerdictInv, Goto
<1>10. ASSUME NEW w \in Workers, Advance(w) PROVE G
  BY <1>10 DEF Advance, TypeOK, VerdictInv, SaveCheckpoint, Goto
<1>11. ASSUME NEW w \in Workers, Conclude(w) PROVE G
  <2>1. Outcome(w) # "cancelled"
    BY DEF Outcome
  <2> QED
    BY <1>11, <2>1 DEF Conclude, TypeOK, VerdictInv, Return, Goto
<1>12. ASSUME NEW w \in Workers, Finalize(w) PROVE G
  <2>1. Leave(w) /\ cancelRequested' = cancelRequested
    BY <1>12 DEF Finalize, EndRun
  <2> QED
    BY <2>1 DEF TypeOK, VerdictInv, Leave, Return, Goto
<1>13. ASSUME NEW w \in Workers, CatchFinalize(w) PROVE G
  <2>1. Leave(w) /\ cancelRequested' = cancelRequested
    BY <1>13 DEF CatchFinalize, EndRun
  <2> QED
    BY <2>1 DEF TypeOK, VerdictInv, Leave, Return, Goto
<1>14. ASSUME NEW w \in Workers, CatchFails(w) PROVE G
  BY <1>14 DEF CatchFails, TypeOK, VerdictInv, Leave, Return, Goto
<1>15. ASSUME NEW w \in Workers, LeaseLost(w) PROVE G
  BY <1>15 DEF LeaseLost, TypeOK, VerdictInv, Leave, Return, Goto
<1>16. ASSUME NEW w \in Workers, SeeCancellation(w) PROVE G
  <2>1. /\ Catch(w, "cancelled") /\ cancelRequested' = cancelRequested
        /\ cancelRequested
    BY <1>16 DEF SeeCancellation
  <2> QED
    BY <2>1, CatchVerdict DEF Terminal
<1>17. ASSUME NEW w \in Workers, SeeDeadline(w) PROVE G
  <2>1. /\ Catch(w, "partial") /\ cancelRequested' = cancelRequested
    BY <1>17 DEF SeeDeadline
  <2> QED
    BY <2>1, CatchVerdict DEF Terminal
<1>18. ASSUME NEW w \in Workers, Abort(w) PROVE G
  BY <1>18 DEF Abort, TypeOK, VerdictInv, Leave, Return, Goto
<1>19. ASSUME NEW w \in Workers, CommitReplyLost(w) PROVE G
  BY <1>19 DEF CommitReplyLost, TypeOK, VerdictInv, Goto
<1>20. ASSUME NEW w \in Workers, ResearchFails(w) PROVE G
  BY <1>20 DEF ResearchFails, TypeOK, VerdictInv, Goto
<1>21. ASSUME NEW w \in Workers, FinalizeFails(w) PROVE G
  <2>1. /\ Catch(w, verdict[w]) /\ cancelRequested' = cancelRequested
        /\ verdict[w] \in Terminal /\ verdict[w] # "cancelled"
    BY <1>21 DEF FinalizeFails, EndRun, VerdictInv, TypeOK
  <2> QED
    BY <2>1, CatchVerdict
<1>22. ASSUME NEW w \in Workers, OutOfBudget(w) PROVE G
  <2>1. /\ Catch(w, "partial") /\ cancelRequested' = cancelRequested
    BY <1>22 DEF OutOfBudget
  <2> QED
    BY <2>1, CatchVerdict DEF Terminal
<1>23. ASSUME NEW w \in Workers, InProgress(w) PROVE G
  BY <1>23 DEF InProgress, TypeOK, VerdictInv, Leave, Return, Goto
<1>24. ASSUME NEW w \in Workers, StageFails(w) PROVE G
  <2>1. /\ Catch(w, "failed") /\ cancelRequested' = cancelRequested
    BY <1>24 DEF StageFails
  <2> QED
    BY <2>1, CatchVerdict DEF Terminal
<1>25. ASSUME NEW w \in Workers, HeartbeatFails(w) PROVE G
  BY <1>25 DEF HeartbeatFails, TypeOK, VerdictInv
<1>26. ASSUME NEW w \in Workers, Crash(w) PROVE G
  BY <1>26 DEF Crash, TypeOK, VerdictInv, Leave, Return, Goto
<1>27. ASSUME RequestCancel PROVE G
  BY <1>27 DEF RequestCancel, TypeOK, VerdictInv
<1>28. ASSUME ExpireLease PROVE G
  BY <1>28 DEF ExpireLease, TypeOK, VerdictInv
<1>29. ASSUME Stall PROVE G
  BY <1>29 DEF Stall, TypeOK, VerdictInv
<1>30. ASSUME PassDeadline PROVE G
  BY <1>30 DEF PassDeadline, TypeOK, VerdictInv
<1>31. ASSUME UNCHANGED vars PROVE G
  BY <1>31 DEF vars, TypeOK, VerdictInv
<1> QED
  BY <1>1, <1>2, <1>3, <1>4, <1>5, <1>6, <1>7, <1>8, <1>9, <1>10,
     <1>11, <1>12, <1>13, <1>14, <1>15, <1>16, <1>17, <1>18, <1>19, <1>20,
     <1>21, <1>22, <1>23, <1>24, <1>25, <1>26, <1>27, <1>28, <1>29, <1>30, <1>31
     DEF Next, Work, Disturb

LEMMA CancelStep ==
    CancelInv /\ [Next]_vars => LeaseInv' /\ CancelWins'
<1> SUFFICES ASSUME CancelInv, [Next]_vars PROVE LeaseInv' /\ CancelWins'
  OBVIOUS
<1> DEFINE G == LeaseInv' /\ CancelWins'
<1> USE DEF rowVars, candidateVars, workerVars
\* A step that leaves the status, the cancellation and the lease alone.
<1>0. ASSUME UNCHANGED <<status, cancelRequested, leaseState>> PROVE G
  BY <1>0 DEF CancelInv, LeaseInv, CancelWins
\* The holder ends the run with a verdict that agrees with the cancellation.
<1>e. ASSUME NEW w \in Workers, NEW st \in Terminal, EndRun(w, st),
             st = "cancelled" => cancelRequested
      PROVE  G
  <2>1. /\ status' = st /\ leaseState' = "none"
        /\ cancelRequested' = cancelRequested
        /\ st = "cancelled" \/ ~cancelRequested
    BY <1>e DEF EndRun, MayEnd
  <2>2. st # "queued"
    BY DEF Terminal
  <2> QED
    BY <1>e, <2>1, <2>2 DEF LeaseInv, CancelWins
<1>1. ASSUME NEW w \in Workers, Claim(w) PROVE G
  <2>1. /\ status' = "running" /\ leaseState' = "live"
        /\ cancelRequested' = cancelRequested
    BY <1>1 DEF Claim
  <2> QED
    BY <2>1 DEF LeaseInv, CancelWins, Terminal
<1>2. ASSUME NEW w \in Workers, Begin(w) PROVE G
  BY <1>2, <1>0 DEF Begin
<1>3. ASSUME NEW w \in Workers, NEW c \in Candidates, Admit(w, c) PROVE G
  BY <1>3, <1>0 DEF Admit
<1>4. ASSUME NEW w \in Workers, CommitCohort(w) PROVE G
  BY <1>4, <1>0 DEF CommitCohort
<1>5. ASSUME NEW w \in Workers, SaveCohort(w) PROVE G
  BY <1>5, <1>0 DEF SaveCohort
<1>6. ASSUME NEW w \in Workers, Select(w) PROVE G
  BY <1>6, <1>0 DEF Select
<1>7. ASSUME NEW w \in Workers, StartCompany(w) PROVE G
  BY <1>7, <1>0 DEF StartCompany
<1>8. ASSUME NEW w \in Workers, CommitAssessment(w) PROVE G
  BY <1>8, <1>0 DEF CommitAssessment
<1>9. ASSUME NEW w \in Workers, FailCandidate(w) PROVE G
  BY <1>9, <1>0 DEF FailCandidate
<1>10. ASSUME NEW w \in Workers, Advance(w) PROVE G
  BY <1>10, <1>0 DEF Advance
<1>11. ASSUME NEW w \in Workers, Conclude(w) PROVE G
  BY <1>11, <1>0 DEF Conclude
<1>12. ASSUME NEW w \in Workers, Finalize(w) PROVE G
  <2>1. /\ verdict[w] \in Terminal /\ EndRun(w, verdict[w])
        /\ pc[w] = "finalize"
    BY <1>12 DEF Finalize, CancelInv, TypeOK
  <2> QED
    BY <1>e, <2>1 DEF CancelInv, VerdictInv
<1>13. ASSUME NEW w \in Workers, CatchFinalize(w) PROVE G
  <2>1. /\ verdict[w] \in Terminal /\ EndRun(w, verdict[w])
        /\ pc[w] = "catch"
    BY <1>13 DEF CatchFinalize, CancelInv, TypeOK
  <2> QED
    BY <1>e, <2>1 DEF CancelInv, VerdictInv
<1>14. ASSUME NEW w \in Workers, CatchFails(w) PROVE G
  BY <1>14, <1>0 DEF CatchFails
<1>15. ASSUME NEW w \in Workers, LeaseLost(w) PROVE G
  BY <1>15, <1>0 DEF LeaseLost
<1>16. ASSUME NEW w \in Workers, SeeCancellation(w) PROVE G
  BY <1>16, <1>0 DEF SeeCancellation
<1>17. ASSUME NEW w \in Workers, SeeDeadline(w) PROVE G
  BY <1>17, <1>0 DEF SeeDeadline
<1>18. ASSUME NEW w \in Workers, Abort(w) PROVE G
  BY <1>18, <1>0 DEF Abort
<1>19. ASSUME NEW w \in Workers, CommitReplyLost(w) PROVE G
  BY <1>19, <1>0 DEF CommitReplyLost
<1>20. ASSUME NEW w \in Workers, ResearchFails(w) PROVE G
  BY <1>20, <1>0 DEF ResearchFails
<1>21. ASSUME NEW w \in Workers, FinalizeFails(w) PROVE G
  <2>1. CASE EndRun(w, verdict[w])
    <3>1. verdict[w] \in Terminal /\ pc[w] = "finalize"
      BY <1>21 DEF FinalizeFails, CancelInv, TypeOK
    <3> QED
      BY <1>e, <2>1, <3>1 DEF CancelInv, VerdictInv
  <2>2. CASE UNCHANGED <<rowVars, candidateVars, events, deadline>>
    BY <2>2, <1>0
  <2> QED
    BY <1>21, <2>1, <2>2 DEF FinalizeFails
<1>22. ASSUME NEW w \in Workers, OutOfBudget(w) PROVE G
  BY <1>22, <1>0 DEF OutOfBudget
<1>23. ASSUME NEW w \in Workers, InProgress(w) PROVE G
  BY <1>23, <1>0 DEF InProgress
<1>24. ASSUME NEW w \in Workers, StageFails(w) PROVE G
  BY <1>24, <1>0 DEF StageFails
<1>25. ASSUME NEW w \in Workers, HeartbeatFails(w) PROVE G
  BY <1>25, <1>0 DEF HeartbeatFails
<1>26. ASSUME NEW w \in Workers, Crash(w) PROVE G
  BY <1>26, <1>0 DEF Crash
<1>27. ASSUME RequestCancel PROVE G
  BY <1>27 DEF RequestCancel, CancelInv, LeaseInv, CancelWins, Terminal
<1>28. ASSUME ExpireLease PROVE G
  <2>1. /\ status = "running" /\ status' = status
        /\ cancelRequested' = cancelRequested
    BY <1>28, HolderRuns DEF ExpireLease, CancelInv
  <2> QED
    BY <2>1 DEF LeaseInv, CancelWins, Terminal
<1>29. ASSUME Stall PROVE G
  <2>1. /\ status = "running" /\ status' = status
        /\ cancelRequested' = cancelRequested
    BY <1>29, HolderRuns DEF Stall, CancelInv
  <2> QED
    BY <2>1 DEF LeaseInv, CancelWins, Terminal
<1>30. ASSUME PassDeadline PROVE G
  BY <1>30, <1>0 DEF PassDeadline
<1>31. ASSUME UNCHANGED vars PROVE G
  BY <1>31, <1>0 DEF vars
<1> QED
  BY <1>1, <1>2, <1>3, <1>4, <1>5, <1>6, <1>7, <1>8, <1>9, <1>10,
     <1>11, <1>12, <1>13, <1>14, <1>15, <1>16, <1>17, <1>18, <1>19, <1>20,
     <1>21, <1>22, <1>23, <1>24, <1>25, <1>26, <1>27, <1>28, <1>29, <1>30, <1>31
     DEF Next, Work, Disturb

LEMMA CancelInductive == Spec => []CancelInv
<1>1. Init => CancelInv
  BY TypeInit DEF Init, CancelInv, LeaseInv, VerdictInv, CancelWins, Terminal
<1>2. CancelInv /\ TypeOK' /\ [Next]_vars => CancelInv'
  BY VerdictStep, CancelStep DEF CancelInv
<1> QED
  BY <1>1, <1>2, TypeCorrect, PTL DEF Spec

\* THEOREM: cancellation wins every race with the workers.
THEOREM CancellationWins == Spec => []CancelWins
BY CancelInductive, PTL DEF CancelInv

\* THEOREM: nothing about a run, its candidates or its events changes after
\* the run has ended, whatever workers still believe to hold its lease.
THEOREM EndIsFinal == Spec => ResultIsFinal
<1>1. CancelInv /\ [Next]_vars => (status \in Terminal => Result' = Result)
  <2> SUFFICES ASSUME CancelInv, [Next]_vars, status \in Terminal
               PROVE  Result' = Result
    OBVIOUS
  <2> USE DEF rowVars, candidateVars, workerVars
  <2>1. /\ status # "queued" /\ status # "running" /\ leaseState # "live"
    BY DEF CancelInv, LeaseInv, Terminal
  <2>2. \A w \in Workers : ~Holds(w) /\ ~Fenced(w) /\ ~MayWrite(w)
    BY <2>1 DEF Holds, Fenced, MayWrite
  <2>3. ASSUME NEW w \in Workers, Work(w) PROVE Result' = Result
    BY <2>2, <2>3
       DEF Work, Result, Begin, Admit, CommitCohort, SaveCohort, SaveCheckpoint,
           Select, StartCompany, CommitAssessment, SealAssessment,
           FailCandidate, Advance, Conclude, Finalize, CatchFinalize, EndRun,
           MayEnd, CatchFails, LeaseLost, SeeCancellation, SeeDeadline, Abort
  <2>4. ASSUME NEW w \in Workers, Disturb(w) PROVE Result' = Result
    BY <2>2, <2>4
       DEF Disturb, Result, CommitReplyLost, SealAssessment, ResearchFails,
           FinalizeFails, EndRun, MayEnd, OutOfBudget, InProgress, StageFails,
           HeartbeatFails, Crash
  <2>5. ASSUME NEW w \in Workers, Claim(w) PROVE FALSE
    BY <2>1, <2>5 DEF Claim, Claimable
  <2>6. ~RequestCancel /\ ~ExpireLease /\ ~Stall
    BY <2>1 DEF RequestCancel, ExpireLease, Stall
  <2>7. ASSUME PassDeadline PROVE Result' = Result
    BY <2>7 DEF PassDeadline, Result
  <2>8. ASSUME UNCHANGED vars PROVE Result' = Result
    BY <2>8 DEF vars, Result
  <2> QED
    BY <2>3, <2>4, <2>5, <2>6, <2>7, <2>8 DEF Next
<1> QED
  BY <1>1, CancelInductive, PTL DEF Spec, ResultIsFinal

-----------------------------------------------------------------------------
(***************************************************************************)
(* What survives a change of worker: the order of the run's events, the    *)
(* one cohort, an honest checkpoint, no company researched twice after its *)
(* assessment, and what "completed" means.                                 *)
(*                                                                         *)
(* The argument: only the holder of the live lease writes, so what the     *)
(* holder remembers of the rows (WorkInv) agrees with them at every point  *)
(* of its loop; a worker that takes over reads the rows anew; and that a   *)
(* company is settled is never undone (CohortInv).                         *)
(***************************************************************************)

Loop == {"company", "research", "fail", "advance"}
HasCohort == {"research", "finalization"}

\* No event of a later epoch than the row's, none of an end before the end,
\* none of a cohort while discovery is under way.
EventInv ==
    /\ FencedHistory
    /\ \A i \in DOMAIN events :
          /\ events[i].epoch <= epoch
          /\ events[i].kind = "finalized" => status \in Terminal
          /\ events[i].kind = "cohort" => stage \in HasCohort

\* The candidates' rows and the checkpoint agree.
CohortInv ==
    /\ checkpoint.stage = "research" => stage \in HasCohort
    /\ CheckpointHonest
    /\ \A c \in Candidates : cstate[c] = "assessed" => c \in sealed
    /\ \A i \in DOMAIN cohort :
          cstate[cohort[i]] \in {"researching", "assessed", "research_error"}
    /\ status \notin Terminal => \A c \in systemic : InError(c)
    /\ status = "queued" => sealed = {}
    /\ CompletedIsComplete

AllSealed == Elems(cohort) \subseteq sealed /\ systemic = {} /\ ~gaps

\* What the worker w, if it holds the lease, remembers of the rows.
LoopFacts(w) ==
    /\ local[w].stage = "research" /\ local[w].cohort = cohort
    /\ local[w].next <= Len(cohort)
    /\ \A i \in 1..local[w].next : Settled(cohort[i])
    /\ \A i \in DOMAIN cohort : cohort[i] \in pending[w] \/ Settled(cohort[i])
    /\ \A i \in DOMAIN cohort :
          /\ cohort[i] \in pending[w]
          /\ i > local[w].next + 1 \/ (i = local[w].next + 1 /\ pc[w] \in {"company", "research"})
          => Pending(cohort[i])
    /\ pc[w] = "research" => Current(w) \in pending[w]
    /\ pc[w] = "advance" => Settled(Current(w))

WorkFacts(w) ==
    /\ pc[w] = "save" => local[w] = [stage |-> "research", cohort |-> cohort, next |-> 0]
    /\ pc[w] = "select" => local[w] = checkpoint
    /\ pc[w] \in Loop => LoopFacts(w)
    /\ pc[w] \in {"finalize", "catch"} /\ verdict[w] = "completed" => AllSealed

WorkInv == \A w \in Workers : Holds(w) => WorkFacts(w)

IInv == CancelInv /\ InLoop /\ EventInv /\ CohortInv /\ WorkInv

\* Only the holder writes; while it holds the lease the run is running.
LEMMA HolderFacts ==
    ASSUME IInv, NEW w \in Workers, Holds(w)
    PROVE  /\ leaseState = "live" /\ status = "running" /\ status \notin Terminal
           /\ owner = w /\ held[w] = epoch /\ epoch \in Nat
           /\ WorkFacts(w)
<1>1. leaseState = "live" /\ owner = w /\ held[w] = epoch
  BY DEF Holds
<1>2. TypeOK /\ LeaseInv
  BY DEF IInv, CancelInv
<1> QED
  BY <1>1, <1>2, HolderRuns DEF Terminal, IInv, WorkInv, TypeOK

\* In the loop the holder is at a company of the cohort.
LEMMA CurrentFacts ==
    ASSUME IInv, NEW w \in Workers, Holds(w), pc[w] \in {"research", "fail", "advance"}
    PROVE  /\ local[w].next + 1 \in DOMAIN cohort
           /\ Current(w) = cohort[local[w].next + 1] /\ Current(w) \in Candidates
<1>1. LoopFacts(w) /\ MoreCompanies(w)
  BY HolderFacts DEF WorkFacts, Loop, IInv, InLoop
<1>2. local[w] \in Checkpoints /\ cohort \in Seq(Candidates)
  BY DEF IInv, CancelInv, TypeOK
<1>3. local[w].next \in Nat /\ local[w].next < Len(cohort)
  BY <1>1, <1>2 DEF LoopFacts, MoreCompanies, Checkpoints
<1> QED
  BY <1>1, <1>2, <1>3 DEF Current, LoopFacts

\* Events are appended by the holder of the lease, in the order of the epochs.
LEMMA EventStep ==
    IInv /\ [Next]_vars => EventInv'
<1> SUFFICES ASSUME IInv, [Next]_vars PROVE EventInv'
  OBVIOUS
<1> USE DEF rowVars, candidateVars, workerVars
\* A step that writes no event.
<1>0. ASSUME events' = events, epoch' \in Nat, epoch' >= epoch,
             status \in Terminal => status' \in Terminal,
             stage \in HasCohort => stage' \in HasCohort
      PROVE  EventInv'
  <2>1. epoch \in Nat /\ events \in Seq(Events)
    BY DEF IInv, CancelInv, TypeOK
  <2>2. \A i \in DOMAIN events : events[i].epoch \in Nat
    <3>1. \A i \in DOMAIN events : events[i] \in Events
      BY <2>1
    <3> QED
      BY <3>1 DEF Events
  <2> QED
    BY <1>0, <2>1, <2>2 DEF IInv, EventInv, FencedHistory
\* A step that appends one.
<1>a. ASSUME NEW e \in Events, events' = Append(events, e), epoch' = epoch, e.epoch = epoch,
             status \notin Terminal, e.kind = "finalized" => status' \in Terminal,
             e.kind = "cohort" => stage' \in HasCohort,
             stage \in HasCohort => stage' \in HasCohort
      PROVE  EventInv'
  <2>1. epoch \in Nat /\ events \in Seq(Events)
    BY DEF IInv, CancelInv, TypeOK
  <2>2. \A i \in DOMAIN events : events'[i] = events[i]
    BY <1>a, <2>1
  <2>3. DOMAIN events' = DOMAIN events \cup {Len(events) + 1} /\ events'[Len(events) + 1] = e
        /\ DOMAIN events = 1..Len(events) /\ Len(events) \in Nat
    BY <1>a, <2>1
  <2>4. \A i \in DOMAIN events :
            /\ events[i].epoch <= epoch /\ events[i].kind # "finalized"
            /\ events[i].kind = "cohort" => stage' \in HasCohort
    BY <1>a DEF IInv, EventInv
  <2>5. FencedHistory'
    <3> SUFFICES ASSUME NEW i \in DOMAIN events', NEW j \in DOMAIN events', i < j
                 PROVE  events'[i].epoch <= events'[j].epoch /\ events'[i].kind # "finalized"
      BY DEF FencedHistory
    <3>1. i \in DOMAIN events
      BY <2>3
    <3>2. CASE j \in DOMAIN events
      BY <2>2, <3>1, <3>2 DEF IInv, EventInv, FencedHistory
    <3>3. CASE j = Len(events) + 1
      BY <1>a, <2>2, <2>3, <2>4, <3>1, <3>3
    <3> QED
      BY <2>3, <3>2, <3>3
  <2>6. ASSUME NEW i \in DOMAIN events'
        PROVE  /\ events'[i].epoch <= epoch'
               /\ events'[i].kind = "finalized" => status' \in Terminal
               /\ events'[i].kind = "cohort" => stage' \in HasCohort
    BY <1>a, <2>1, <2>2, <2>3, <2>4
  <2> QED
    BY <2>5, <2>6 DEF EventInv
\* The holder's end of the run, and its save of a checkpoint.
<1>e. ASSUME NEW w \in Workers, NEW st \in Terminal, EndRun(w, st)
      PROVE  EventInv'
  <2>1. Holds(w) /\ held[w] \in Nat
    BY <1>e DEF EndRun, MayEnd, IInv, CancelInv, TypeOK
  <2>2. [kind |-> "finalized", about |-> {}, epoch |-> held[w]] \in Events
    BY <2>1 DEF Events
  <2> QED
    BY <1>a, <1>e, <2>1, <2>2, HolderFacts DEF EndRun, Event, HasCohort
<1>s. ASSUME NEW w \in Workers, Holds(w), SaveCheckpoint(w, local'[w]), local'[w].stage = "research",
             UNCHANGED <<status, epoch, events>>
      PROVE  EventInv'
  BY <1>s, <1>0, HolderFacts DEF SaveCheckpoint, HasCohort
\* The seal of an assessment.
<1>c. ASSUME NEW w \in Workers, SealAssessment(w), pc[w] = "research", UNCHANGED <<status, stage, epoch>>
      PROVE  EventInv'
  <2>1. Holds(w) /\ held[w] \in Nat
    BY <1>c DEF SealAssessment, MayWrite, Fenced, IInv, CancelInv, TypeOK
  <2>2. [kind |-> "assessed", about |-> {Current(w)}, epoch |-> held[w]] \in Events
    BY <1>c, <2>1, CurrentFacts DEF Events
  <2> QED
    BY <1>a, <1>c, <2>1, <2>2, HolderFacts DEF SealAssessment, Event
<1>1. ASSUME NEW w \in Workers, Claim(w) PROVE EventInv'
  BY <1>1, <1>0 DEF Claim, Claimable, IInv, CancelInv, TypeOK, Terminal, HasCohort
<1>2. ASSUME NEW w \in Workers, Begin(w) PROVE EventInv'
  BY <1>2, <1>0 DEF Begin, IInv, CancelInv, TypeOK
<1>3. ASSUME NEW w \in Workers, NEW c \in Candidates, Admit(w, c) PROVE EventInv'
  BY <1>3, <1>0 DEF Admit, IInv, CancelInv, TypeOK
<1>4. ASSUME NEW w \in Workers, CommitCohort(w) PROVE EventInv'
  <2>1. Holds(w) /\ held[w] \in Nat
    BY <1>4 DEF CommitCohort, MayWrite, Fenced, IInv, CancelInv, TypeOK
  <2>2. [kind |-> "cohort", about |-> {}, epoch |-> held[w]] \in Events
    BY <2>1 DEF Events
  <2>3. /\ events' = Append(events, [kind |-> "cohort", about |-> {}, epoch |-> held[w]])
        /\ epoch' = epoch /\ status' = status /\ stage' = "research"
    BY <1>4 DEF CommitCohort, Event
  <2> QED
    BY <1>a, <2>1, <2>2, <2>3, HolderFacts DEF HasCohort
<1>5. ASSUME NEW w \in Workers, SaveCohort(w) PROVE EventInv'
  <2>1. Holds(w) /\ local' = local /\ pc[w] = "save" /\ SaveCheckpoint(w, local[w])
        /\ UNCHANGED <<status, epoch, events>>
    BY <1>5 DEF SaveCohort, SaveCheckpoint, Fenced
  <2>2. local[w].stage = "research"
    BY <2>1, HolderFacts DEF WorkFacts
  <2> QED
    BY <1>s, <2>1, <2>2
<1>6. ASSUME NEW w \in Workers, Select(w) PROVE EventInv'
  <2>1. CASE Outdated(local[w])
    <3>1. /\ local' = [local EXCEPT ![w] = [stage |-> "research", cohort |-> cohort, next |-> 0]]
          /\ SaveCheckpoint(w, [stage |-> "research", cohort |-> cohort, next |-> 0])
          /\ UNCHANGED <<status, epoch, events>>
      BY <1>6, <2>1 DEF Select
    <3>2. local'[w] = [stage |-> "research", cohort |-> cohort, next |-> 0]
      BY <3>1 DEF IInv, CancelInv, TypeOK
    <3> QED
      BY <1>s, <3>1, <3>2 DEF SaveCheckpoint, Fenced
  <2>2. CASE ~Outdated(local[w])
    BY <1>6, <1>0, <2>2 DEF Select, IInv, CancelInv, TypeOK
  <2> QED
    BY <2>1, <2>2
<1>7. ASSUME NEW w \in Workers, StartCompany(w) PROVE EventInv'
  BY <1>7, <1>0 DEF StartCompany, IInv, CancelInv, TypeOK
<1>8. ASSUME NEW w \in Workers, CommitAssessment(w) PROVE EventInv'
  BY <1>8, <1>c DEF CommitAssessment, At
<1>9. ASSUME NEW w \in Workers, FailCandidate(w) PROVE EventInv'
  BY <1>9, <1>0 DEF FailCandidate, IInv, CancelInv, TypeOK
<1>10. ASSUME NEW w \in Workers, Advance(w) PROVE EventInv'
  <2> DEFINE k == [local[w] EXCEPT !.next = @ + 1]
  <2>1. /\ Holds(w) /\ pc[w] = "advance" /\ SaveCheckpoint(w, k)
        /\ local' = [local EXCEPT ![w] = k] /\ UNCHANGED <<status, epoch, events>>
    BY <1>10 DEF Advance, At, SaveCheckpoint, Fenced
  <2>2. local[w].stage = "research" /\ local[w] \in Checkpoints
    BY <2>1, HolderFacts DEF WorkFacts, Loop, LoopFacts, IInv, CancelInv, TypeOK
  <2>3. local'[w] = k /\ k.stage = "research"
    BY <2>1, <2>2 DEF IInv, CancelInv, TypeOK, Checkpoints
  <2> HIDE DEF k
  <2> QED
    BY <1>s, <2>1, <2>3
<1>11. ASSUME NEW w \in Workers, Conclude(w) PROVE EventInv'
  BY <1>11, <1>0 DEF Conclude, IInv, CancelInv, TypeOK
<1>12. ASSUME NEW w \in Workers, Finalize(w) PROVE EventInv'
  BY <1>12, <1>e DEF Finalize, IInv, CancelInv, TypeOK
<1>13. ASSUME NEW w \in Workers, CatchFinalize(w) PROVE EventInv'
  BY <1>13, <1>e DEF CatchFinalize, IInv, CancelInv, TypeOK
<1>14. ASSUME NEW w \in Workers, CatchFails(w) PROVE EventInv'
  BY <1>14, <1>0 DEF CatchFails, IInv, CancelInv, TypeOK
<1>15. ASSUME NEW w \in Workers, LeaseLost(w) PROVE EventInv'
  BY <1>15, <1>0 DEF LeaseLost, IInv, CancelInv, TypeOK
<1>16. ASSUME NEW w \in Workers, SeeCancellation(w) PROVE EventInv'
  BY <1>16, <1>0 DEF SeeCancellation, IInv, CancelInv, TypeOK
<1>17. ASSUME NEW w \in Workers, SeeDeadline(w) PROVE EventInv'
  BY <1>17, <1>0 DEF SeeDeadline, IInv, CancelInv, TypeOK
<1>18. ASSUME NEW w \in Workers, Abort(w) PROVE EventInv'
  BY <1>18, <1>0 DEF Abort, IInv, CancelInv, TypeOK
<1>19. ASSUME NEW w \in Workers, CommitReplyLost(w) PROVE EventInv'
  BY <1>19, <1>c DEF CommitReplyLost, At
<1>20. ASSUME NEW w \in Workers, ResearchFails(w) PROVE EventInv'
  BY <1>20, <1>0 DEF ResearchFails, IInv, CancelInv, TypeOK
<1>21. ASSUME NEW w \in Workers, FinalizeFails(w) PROVE EventInv'
  <2>1. CASE EndRun(w, verdict[w])
    BY <1>e, <2>1 DEF IInv, CancelInv, TypeOK
  <2>2. CASE UNCHANGED <<rowVars, candidateVars, events, deadline>>
    BY <1>0, <2>2 DEF IInv, CancelInv, TypeOK
  <2> QED
    BY <1>21, <2>1, <2>2 DEF FinalizeFails
<1>22. ASSUME NEW w \in Workers, OutOfBudget(w) PROVE EventInv'
  BY <1>22, <1>0 DEF OutOfBudget, IInv, CancelInv, TypeOK
<1>23. ASSUME NEW w \in Workers, InProgress(w) PROVE EventInv'
  BY <1>23, <1>0 DEF InProgress, IInv, CancelInv, TypeOK
<1>24. ASSUME NEW w \in Workers, StageFails(w) PROVE EventInv'
  BY <1>24, <1>0 DEF StageFails, IInv, CancelInv, TypeOK
<1>25. ASSUME NEW w \in Workers, HeartbeatFails(w) PROVE EventInv'
  BY <1>25, <1>0 DEF HeartbeatFails, IInv, CancelInv, TypeOK
<1>26. ASSUME NEW w \in Workers, Crash(w) PROVE EventInv'
  BY <1>26, <1>0 DEF Crash, IInv, CancelInv, TypeOK
<1>27. ASSUME RequestCancel PROVE EventInv'
  <2>1. CASE status = "queued"
    <3>1. [kind |-> "finalized", about |-> {}, epoch |-> epoch] \in Events
      BY DEF Events, IInv, CancelInv, TypeOK
    <3> QED
      BY <1>27, <1>a, <2>1, <3>1 DEF RequestCancel, Terminal, HasCohort
  <2>2. CASE status = "running"
    BY <1>27, <1>0, <2>2 DEF RequestCancel, IInv, CancelInv, TypeOK
  <2> QED
    BY <1>27, <2>1, <2>2 DEF RequestCancel
<1>28. ASSUME ExpireLease PROVE EventInv'
  BY <1>28, <1>0 DEF ExpireLease, IInv, CancelInv, TypeOK
<1>29. ASSUME Stall PROVE EventInv'
  BY <1>29, <1>0 DEF Stall, IInv, CancelInv, TypeOK
<1>30. ASSUME PassDeadline PROVE EventInv'
  BY <1>30, <1>0 DEF PassDeadline, IInv, CancelInv, TypeOK
<1>31. ASSUME UNCHANGED vars PROVE EventInv'
  BY <1>31, <1>0 DEF vars, IInv, CancelInv, TypeOK
<1> QED
  BY <1>1, <1>2, <1>3, <1>4, <1>5, <1>6, <1>7, <1>8, <1>9, <1>10,
     <1>11, <1>12, <1>13, <1>14, <1>15, <1>16, <1>17, <1>18, <1>19,
     <1>20, <1>21, <1>22, <1>23, <1>24, <1>25, <1>26, <1>27, <1>28,
     <1>29, <1>30, <1>31
     DEF Next, Work, Disturb

\* The row of a company that the holder researches or fails: it is settled
\* then, and no other company's row changes.
OneRow(c) ==
    /\ sealed' \in {sealed, sealed \cup {c}}
    /\ \A d \in Candidates : d # c => cstate'[d] = cstate[d] /\ (d \in systemic' <=> d \in systemic)
    /\ Settled(c)' /\ cstate'[c] \in {"assessed", "research_error"}
    /\ cstate'[c] = "assessed" => c \in sealed'
    /\ c \in systemic' => cstate'[c] = "research_error"
    /\ cohort' = cohort

LEMMA SealOneRow ==
    ASSUME IInv, NEW w \in Workers, SealAssessment(w), pc[w] = "research", UNCHANGED <<cohort, systemic>>
    PROVE  Holds(w) /\ OneRow(Current(w))
<1>1. Holds(w) /\ status \notin Terminal
  BY HolderFacts DEF SealAssessment, MayWrite, Fenced
<1>2. Current(w) \in Candidates
  BY <1>1, CurrentFacts
<1>3. Current(w) \notin systemic
  BY <1>1, <1>2 DEF SealAssessment, Pending, IInv, CohortInv, InError
<1>4. sealed' = sealed \cup {Current(w)} /\ cstate' = [cstate EXCEPT ![Current(w)] = "assessed"]
  BY DEF SealAssessment
<1> DEFINE c == Current(w)
<1>5. \A d \in Candidates : cstate'[d] = IF d = c THEN "assessed" ELSE cstate[d]
  BY <1>2, <1>4 DEF IInv, CancelInv, TypeOK
<1>6. ASSUME NEW d, d = c
      PROVE  OneRow(d)
  BY <1>2, <1>3, <1>4, <1>5, <1>6 DEF OneRow, Settled
<1> QED
  BY <1>1, <1>6

LEMMA FailOneRow ==
    ASSUME IInv, NEW w \in Workers, FailCandidate(w)
    PROVE  Holds(w) /\ pc[w] = "fail" /\ OneRow(Current(w))
<1>1. Holds(w) /\ pc[w] = "fail"
  BY DEF FailCandidate, MayWrite, Fenced, At
<1> DEFINE c == Current(w)
<1>2. c \in Candidates
  BY <1>1, CurrentFacts
<1>3. /\ cstate' = [cstate EXCEPT ![c] = "research_error"] /\ systemic' \in {systemic, systemic \cup {c}}
      /\ cohort' = cohort /\ sealed' = sealed
  BY DEF FailCandidate, RecordFailure
<1>4. \A d \in Candidates : cstate'[d] = IF d = c THEN "research_error" ELSE cstate[d]
  BY <1>2, <1>3 DEF IInv, CancelInv, TypeOK
<1>5. ASSUME NEW d, d = c
      PROVE  OneRow(d)
  BY <1>2, <1>3, <1>4, <1>5 DEF OneRow, Settled, InError
<1> QED
  BY <1>1, <1>5

\* Settling one company leaves every settled company settled.
LEMMA SettledKept ==
    ASSUME NEW c \in Candidates, OneRow(c), NEW d \in Candidates, Settled(d)
    PROVE  Settled(d)'
BY DEF OneRow, Settled, InError

\* What is committed about a company agrees with the checkpoint.
LEMMA CohortStep ==
    IInv /\ [Next]_vars => CohortInv'
<1> SUFFICES ASSUME IInv, [Next]_vars PROVE CohortInv'
  OBVIOUS
<1> USE DEF rowVars, candidateVars, workerVars
\* A step that leaves the candidates and the checkpoint alone.
<1>0. ASSUME UNCHANGED <<checkpoint, candidateVars, gaps>>, stage \in HasCohort => stage' \in HasCohort,
             status \in Terminal => status' \in Terminal, status' = "completed" => status = "completed",
             status' \in Terminal => status \in Terminal \/ status = "queued",
             status' = "queued" => status = "queued"
      PROVE  CohortInv'
  BY <1>0 DEF IInv, CohortInv, CheckpointHonest, Settled, InError, CompletedIsComplete
\* A checkpoint saved by the holder.
<1>s. ASSUME NEW w \in Workers, NEW k, SaveCheckpoint(w, k), k.stage = "research", k.cohort = cohort,
             \A i \in 1..k.next : i \in DOMAIN cohort /\ Settled(cohort[i]),
             UNCHANGED <<status, candidateVars, gaps>>
      PROVE  CohortInv'
  BY <1>s DEF SaveCheckpoint, HasCohort, IInv, CohortInv, CheckpointHonest, Settled, InError, CompletedIsComplete
\* A company is settled by the holder.
<1>o. ASSUME NEW w \in Workers, Holds(w), NEW c \in Candidates, OneRow(c),
             UNCHANGED <<status, stage, checkpoint, gaps>>
      PROVE  CohortInv'
  <2>1. \A i \in DOMAIN cohort : cohort[i] \in Candidates
    BY DEF IInv, CancelInv, TypeOK
  <2>2. CheckpointHonest'
    BY <1>o, <2>1, SettledKept DEF IInv, CohortInv, CheckpointHonest, OneRow
  <2>3. status \notin Terminal /\ status # "queued" /\ status' = status
    BY <1>o, HolderFacts DEF Terminal
  <2>4. \A d \in Candidates : cstate'[d] = "assessed" => d \in sealed'
    BY <1>o DEF OneRow, IInv, CohortInv
  <2>5. \A i \in DOMAIN cohort' : cstate'[cohort'[i]] \in {"researching", "assessed", "research_error"}
    BY <1>o, <2>1 DEF OneRow, IInv, CohortInv
  <2>6. \A d \in systemic' : d \in Candidates => InError(d)'
    BY <1>o, <2>3 DEF OneRow, IInv, CohortInv, InError
  <2>7. systemic' \subseteq Candidates
    BY TypeStep DEF IInv, CancelInv, TypeOK
  <2>8. checkpoint'.stage = "research" => stage' \in HasCohort
    BY <1>o DEF IInv, CohortInv
  <2>9. CompletedIsComplete'
    BY <2>3 DEF CompletedIsComplete, Terminal
  <2> QED
    BY <2>2, <2>3, <2>4, <2>5, <2>6, <2>7, <2>8, <2>9 DEF CohortInv
\* The holder ends the run; it says completed only when all is sealed.
<1>e. ASSUME NEW w \in Workers, NEW st \in Terminal, EndRun(w, st), st = "completed" => AllSealed
      PROVE  CohortInv'
  <2>1. /\ status' = st /\ stage' = "finalization"
        /\ UNCHANGED <<checkpoint, gaps, cohort, sealed, systemic>>
        /\ cstate' = [c \in Candidates |-> IF c \in sealed THEN "assessed" ELSE cstate[c]]
    BY <1>e DEF EndRun
  <2>2. \A i \in DOMAIN cohort : cohort[i] \in Candidates
    BY DEF IInv, CancelInv, TypeOK
  <2>3. \A c \in Candidates : Settled(c) => Settled(c)'
    BY <2>1 DEF Settled, InError
  <2>4. CheckpointHonest'
    BY <2>1, <2>2, <2>3 DEF IInv, CohortInv, CheckpointHonest
  <2>5. \A c \in sealed : c \in Candidates /\ cstate'[c] = "assessed" /\ ~InError(c)'
    BY <2>1 DEF InError, IInv, CancelInv, TypeOK
  <2> QED
    BY <1>e, <2>1, <2>2, <2>4, <2>5 DEF IInv, CohortInv, CompletedIsComplete, AllSealed, HasCohort, Terminal
<1>1. ASSUME NEW w \in Workers, Claim(w) PROVE CohortInv'
  BY <1>1, <1>0 DEF Claim, Claimable, HasCohort, Terminal
<1>2. ASSUME NEW w \in Workers, Begin(w) PROVE CohortInv'
  BY <1>2, <1>0 DEF Begin
<1>3. ASSUME NEW w \in Workers, NEW c \in Candidates, Admit(w, c) PROVE CohortInv'
  <2>1. Holds(w)
    BY <1>3 DEF Admit, MayWrite, Fenced
  <2>2. /\ cstate[c] \in {"absent", "discovered"}
        /\ \/ cstate' = cstate
           \/ cstate' = [cstate EXCEPT ![c] = "discovered"]
           \/ cstate' = [cstate EXCEPT ![c] = "unresolved_identity"]
        /\ UNCHANGED <<rowVars, cohort, sealed, systemic>>
    BY <1>3 DEF Admit
  <2>3. \A d \in Candidates : /\ d # c => cstate'[d] = cstate[d]
                              /\ cstate'[c] \in {"absent", "discovered", "unresolved_identity"}
    BY <2>2 DEF IInv, CancelInv, TypeOK
  <2>4. \A i \in DOMAIN cohort : cohort[i] \in Candidates /\ cohort[i] # c
    <3>1. \A i \in DOMAIN cohort : cohort[i] \in Candidates
      BY DEF IInv, CancelInv, TypeOK
    <3>2. \A i \in DOMAIN cohort : cstate[cohort[i]] \in {"researching", "assessed", "research_error"}
      BY DEF IInv, CohortInv
    <3> QED
      BY <2>2, <3>1, <3>2
  <2>5. \A d \in Candidates : Settled(d) => Settled(d)'
    BY <2>2, <2>3 DEF Settled, InError
  <2>6. systemic \subseteq Candidates
    BY DEF IInv, CancelInv, TypeOK
  <2>7. CheckpointHonest'
    BY <2>2, <2>4, <2>5 DEF IInv, CohortInv, CheckpointHonest
  <2>8. \A d \in systemic : InError(d) => InError(d)'
    BY <2>2, <2>3, <2>6 DEF InError
  <2>9. status \notin Terminal
    BY <2>1, HolderFacts
  <2> QED
    BY <2>2, <2>3, <2>4, <2>7, <2>8, <2>9 DEF IInv, CohortInv, CompletedIsComplete
<1>4. ASSUME NEW w \in Workers, CommitCohort(w) PROVE CohortInv'
  <2>1. Holds(w) /\ stage = "discovery" /\ UNCHANGED <<status, checkpoint, sealed, systemic>>
        /\ stage' = "research"
    BY <1>4 DEF CommitCohort, MayWrite, Fenced, NoCohortYet
  <2>2. PICK s \in Cohorts(pool[w]) :
            /\ \A c \in Elems(s) : cstate[c] = "discovered"
            /\ cohort' = s
            /\ cstate' = [c \in Candidates |->
                            IF c \in Elems(s) THEN "researching"
                            ELSE IF cstate[c] = "discovered" THEN "not_selected" ELSE cstate[c]]
    BY <1>4 DEF CommitCohort
  <2>3. pool[w] \in SUBSET Candidates /\ systemic \subseteq Candidates
    BY DEF IInv, CancelInv, TypeOK
  <2>4. s \in Seq(Candidates)
    BY <2>3, CohortsType
  <2>5. \A i \in DOMAIN s : s[i] \in Candidates /\ s[i] \in Elems(s)
    BY <2>4 DEF Elems
  <2>6. \A i \in DOMAIN cohort' : cstate'[cohort'[i]] = "researching"
    BY <2>2, <2>5
  <2>7. \A c \in Candidates : /\ cstate'[c] = "assessed" => cstate[c] = "assessed"
                              /\ cstate[c] = "research_error" => cstate'[c] = "research_error"
    BY <2>2
  <2>8. status \notin Terminal /\ status # "completed"
    BY <2>1, HolderFacts DEF Terminal
  <2>9. checkpoint.stage # "research"
    BY <2>1 DEF IInv, CohortInv, HasCohort
  <2> QED
    BY <2>1, <2>3, <2>6, <2>7, <2>8, <2>9
       DEF IInv, CohortInv, CheckpointHonest, CompletedIsComplete, InError, HasCohort
<1>5. ASSUME NEW w \in Workers, SaveCohort(w) PROVE CohortInv'
  <2>1. Holds(w) /\ pc[w] = "save" /\ SaveCheckpoint(w, local[w])
        /\ UNCHANGED <<status, candidateVars, gaps>>
    BY <1>5 DEF SaveCohort, SaveCheckpoint, Fenced
  <2>2. local[w] = [stage |-> "research", cohort |-> cohort, next |-> 0]
    BY <2>1, HolderFacts DEF WorkFacts
  <2> QED
    BY <1>s, <2>1, <2>2
<1>6. ASSUME NEW w \in Workers, Select(w) PROVE CohortInv'
  <2>1. CASE Outdated(local[w])
    <3>1. /\ SaveCheckpoint(w, [stage |-> "research", cohort |-> cohort, next |-> 0])
          /\ UNCHANGED <<status, candidateVars, gaps>>
      BY <1>6, <2>1 DEF Select
    <3> QED
      BY <1>s, <3>1
  <2>2. CASE ~Outdated(local[w])
    BY <1>6, <1>0, <2>2 DEF Select
  <2> QED
    BY <2>1, <2>2
<1>7. ASSUME NEW w \in Workers, StartCompany(w) PROVE CohortInv'
  BY <1>7, <1>0 DEF StartCompany
<1>8. ASSUME NEW w \in Workers, CommitAssessment(w) PROVE CohortInv'
  <2>1. Holds(w) /\ OneRow(Current(w)) /\ pc[w] = "research"
    BY <1>8, SealOneRow DEF CommitAssessment, At
  <2> QED
    BY <1>8, <1>o, <2>1, CurrentFacts DEF CommitAssessment
<1>9. ASSUME NEW w \in Workers, FailCandidate(w) PROVE CohortInv'
  BY <1>9, <1>o, FailOneRow, CurrentFacts DEF FailCandidate
<1>10. ASSUME NEW w \in Workers, Advance(w) PROVE CohortInv'
  <2> DEFINE k == [local[w] EXCEPT !.next = @ + 1]
  <2>1. /\ Holds(w) /\ pc[w] = "advance" /\ SaveCheckpoint(w, k)
        /\ UNCHANGED <<status, candidateVars, gaps>>
    BY <1>10 DEF Advance, At, SaveCheckpoint, Fenced
  <2>2. local[w] \in Checkpoints /\ LoopFacts(w)
    BY <2>1, HolderFacts DEF WorkFacts, Loop, IInv, CancelInv, TypeOK
  <2>3. /\ local[w].next + 1 \in DOMAIN cohort /\ Current(w) = cohort[local[w].next + 1]
        /\ Settled(Current(w)) /\ local[w].next \in Nat
    BY <2>1, <2>2, CurrentFacts DEF LoopFacts, Checkpoints
  <2>4. k.stage = "research" /\ k.cohort = cohort /\ k.next = local[w].next + 1
    BY <2>2 DEF LoopFacts, Checkpoints
  <2>5. \A i \in 1..k.next : i \in DOMAIN cohort /\ Settled(cohort[i])
    <3>1. cohort \in Seq(Candidates)
      BY DEF IInv, CancelInv, TypeOK
    <3> QED
      BY <2>2, <2>3, <2>4, <3>1 DEF LoopFacts
  <2> HIDE DEF k
  <2> QED
    BY <1>s, <2>1, <2>4, <2>5
<1>11. ASSUME NEW w \in Workers, Conclude(w) PROVE CohortInv'
  BY <1>11, <1>0 DEF Conclude
<1>12. ASSUME NEW w \in Workers, Finalize(w) PROVE CohortInv'
  <2>1. EndRun(w, verdict[w]) /\ verdict[w] \in Terminal /\ Holds(w) /\ pc[w] = "finalize"
    BY <1>12 DEF Finalize, EndRun, MayEnd, IInv, CancelInv, TypeOK
  <2> QED
    BY <1>e, <2>1, HolderFacts DEF WorkFacts
<1>13. ASSUME NEW w \in Workers, CatchFinalize(w) PROVE CohortInv'
  <2>1. EndRun(w, verdict[w]) /\ verdict[w] \in Terminal /\ Holds(w) /\ pc[w] = "catch"
    BY <1>13 DEF CatchFinalize, EndRun, MayEnd, IInv, CancelInv, TypeOK
  <2> QED
    BY <1>e, <2>1, HolderFacts DEF WorkFacts
<1>14. ASSUME NEW w \in Workers, CatchFails(w) PROVE CohortInv'
  BY <1>14, <1>0 DEF CatchFails
<1>15. ASSUME NEW w \in Workers, LeaseLost(w) PROVE CohortInv'
  BY <1>15, <1>0 DEF LeaseLost
<1>16. ASSUME NEW w \in Workers, SeeCancellation(w) PROVE CohortInv'
  BY <1>16, <1>0 DEF SeeCancellation
<1>17. ASSUME NEW w \in Workers, SeeDeadline(w) PROVE CohortInv'
  BY <1>17, <1>0 DEF SeeDeadline
<1>18. ASSUME NEW w \in Workers, Abort(w) PROVE CohortInv'
  BY <1>18, <1>0 DEF Abort
<1>19. ASSUME NEW w \in Workers, CommitReplyLost(w) PROVE CohortInv'
  <2>1. Holds(w) /\ OneRow(Current(w)) /\ pc[w] = "research"
    BY <1>19, SealOneRow DEF CommitReplyLost, At
  <2> QED
    BY <1>19, <1>o, <2>1, CurrentFacts DEF CommitReplyLost
<1>20. ASSUME NEW w \in Workers, ResearchFails(w) PROVE CohortInv'
  BY <1>20, <1>0 DEF ResearchFails
<1>21. ASSUME NEW w \in Workers, FinalizeFails(w) PROVE CohortInv'
  <2>1. CASE EndRun(w, verdict[w])
    <3>1. verdict[w] \in Terminal /\ Holds(w) /\ pc[w] = "finalize"
      BY <1>21, <2>1 DEF FinalizeFails, EndRun, MayEnd, IInv, CancelInv, TypeOK
    <3> QED
      BY <1>e, <2>1, <3>1, HolderFacts DEF WorkFacts
  <2>2. CASE UNCHANGED <<rowVars, candidateVars, events, deadline>>
    BY <1>0, <2>2
  <2> QED
    BY <1>21, <2>1, <2>2 DEF FinalizeFails
<1>22. ASSUME NEW w \in Workers, OutOfBudget(w) PROVE CohortInv'
  BY <1>22, <1>0 DEF OutOfBudget
<1>23. ASSUME NEW w \in Workers, InProgress(w) PROVE CohortInv'
  BY <1>23, <1>0 DEF InProgress
<1>24. ASSUME NEW w \in Workers, StageFails(w) PROVE CohortInv'
  BY <1>24, <1>0 DEF StageFails
<1>25. ASSUME NEW w \in Workers, HeartbeatFails(w) PROVE CohortInv'
  BY <1>25, <1>0 DEF HeartbeatFails
<1>26. ASSUME NEW w \in Workers, Crash(w) PROVE CohortInv'
  BY <1>26, <1>0 DEF Crash
<1>27. ASSUME RequestCancel PROVE CohortInv'
  BY <1>27, <1>0 DEF RequestCancel, HasCohort, Terminal
<1>28. ASSUME ExpireLease PROVE CohortInv'
  BY <1>28, <1>0 DEF ExpireLease
<1>29. ASSUME Stall PROVE CohortInv'
  BY <1>29, <1>0 DEF Stall
<1>30. ASSUME PassDeadline PROVE CohortInv'
  BY <1>30, <1>0 DEF PassDeadline
<1>31. ASSUME UNCHANGED vars PROVE CohortInv'
  BY <1>31, <1>0 DEF vars
<1> QED
  BY <1>1, <1>2, <1>3, <1>4, <1>5, <1>6, <1>7, <1>8, <1>9, <1>10,
     <1>11, <1>12, <1>13, <1>14, <1>15, <1>16, <1>17, <1>18, <1>19,
     <1>20, <1>21, <1>22, <1>23, <1>24, <1>25, <1>26, <1>27, <1>28,
     <1>29, <1>30, <1>31
     DEF Next, Work, Disturb

\* What the holder remembers of the rows stays true until it writes them.
LEMMA WorkStep ==
    IInv /\ [Next]_vars => WorkInv'
<1> SUFFICES ASSUME IInv, [Next]_vars PROVE WorkInv'
  OBVIOUS
<1> USE DEF rowVars, candidateVars, workerVars
<1> SUFFICES ASSUME NEW v \in Workers, Holds(v)'
             PROVE  WorkFacts(v)'
  BY DEF WorkInv
<1> DEFINE G == WorkFacts(v)'
\* Of a worker that is idle, or has just begun, nothing is asked.
<1>i. ASSUME pc'[v] \in {"idle", "begin", "discover"} PROVE G
  BY <1>i DEF WorkFacts, Loop
\* A step that changes neither the rows nor what v remembers.
<1>f. ASSUME Holds(v), UNCHANGED <<checkpoint, candidateVars, gaps>>,
             pc'[v] = pc[v], local'[v] = local[v], pending'[v] = pending[v], verdict'[v] = verdict[v]
      PROVE  G
  <2>1. WorkFacts(v)
    BY <1>f, HolderFacts
  <2>2. LoopFacts(v) => LoopFacts(v)'
    BY <1>f DEF LoopFacts, Settled, InError, Pending, Current
  <2> QED
    BY <1>f, <2>1, <2>2 DEF WorkFacts, AllSealed
\* A step of another worker that writes no row, and one that does.
<1>q. ASSUME NEW w \in Workers, w # v,
             UNCHANGED <<owner, epoch, checkpoint, candidateVars, gaps>>,
             leaseState' = "live" => leaseState = "live",
             held'[v] = held[v], pc'[v] = pc[v], local'[v] = local[v],
             pending'[v] = pending[v], verdict'[v] = verdict[v]
      PROVE  G
  BY <1>f, <1>q DEF Holds
<1>w. ASSUME NEW w \in Workers, Holds(w), owner' = owner PROVE w = v
  BY <1>w DEF Holds
\* A worker that leaves, and one that goes to the catch block.
<1>l. ASSUME NEW w \in Workers, Leave(w), UNCHANGED <<rowVars, candidateVars>> PROVE G
  <2>1. CASE w = v
    <3>1. pc'[v] = "idle"
      BY <1>l, <2>1 DEF Leave, Goto, IInv, CancelInv, TypeOK
    <3> QED
      BY <1>i, <3>1
  <2>2. CASE w # v
    <3>1. /\ held'[v] = held[v] /\ pc'[v] = pc[v] /\ local'[v] = local[v]
          /\ pending'[v] = pending[v] /\ verdict'[v] = verdict[v]
      BY <1>l, <2>2 DEF Leave, Return, Goto, IInv, CancelInv, TypeOK
    <3> QED
      BY <1>l, <1>q, <2>2, <3>1
  <2> QED
    BY <2>1, <2>2
<1>k. ASSUME NEW w \in Workers, NEW st \in Terminal, Catch(w, st), UNCHANGED <<rowVars, candidateVars>>,
             st = "completed" => pc[w] = "finalize" /\ verdict[w] = "completed"
      PROVE  G
  <2>1. CASE aborted[w]
    BY <1>k, <1>l, <2>1 DEF Catch
  <2>2. CASE ~aborted[w]
    <3>1. /\ pc' = [pc EXCEPT ![w] = "catch"] /\ verdict' = [verdict EXCEPT ![w] = st]
          /\ Return(w) /\ UNCHANGED <<held, aborted>>
      BY <1>k, <2>2 DEF Catch, Goto
    <3>2. CASE w = v
      <4>1. pc'[v] = "catch" /\ verdict'[v] = st
        BY <3>1, <3>2 DEF IInv, CancelInv, TypeOK
      <4>2. Holds(v)
        BY <1>k, <3>1 DEF Holds
      <4>3. st = "completed" => AllSealed
        BY <1>k, <3>2, <4>2, HolderFacts DEF WorkFacts
      <4>4. AllSealed' = AllSealed
        BY <1>k DEF AllSealed
      <4> QED
        BY <4>1, <4>3, <4>4 DEF WorkFacts, Loop
    <3>3. CASE w # v
      <4>1. /\ held'[v] = held[v] /\ pc'[v] = pc[v] /\ local'[v] = local[v]
            /\ pending'[v] = pending[v] /\ verdict'[v] = verdict[v]
        BY <3>1, <3>3 DEF Return, IInv, CancelInv, TypeOK
      <4> QED
        BY <1>k, <1>q, <3>3, <4>1
    <3> QED
      BY <3>2, <3>3
  <2> QED
    BY <2>1, <2>2
\* The end of the run ends the lease.
<1>e. ASSUME NEW w \in Workers, NEW st, EndRun(w, st) PROVE G
  BY <1>e DEF EndRun, Holds
\* Settling the company at hand: the rest of the cohort is as it was.
<1>o. ASSUME Holds(v), LoopFacts(v), NEW n \in Nat, n = local[v].next, n + 1 \in DOMAIN cohort,
             OneRow(cohort[n + 1]), Current(v) = cohort[n + 1],
             UNCHANGED <<local, pending>>, pc'[v] \in {"advance", "fail"}
      PROVE  G
  <2>1. \A i \in DOMAIN cohort : cohort[i] \in Candidates
    BY DEF IInv, CancelInv, TypeOK
  <2>2. \A i, j \in DOMAIN cohort : cohort[i] = cohort[j] => i = j
    BY DEF IInv, CancelInv, TypeOK
  <2>3. cohort' = cohort /\ \A i \in DOMAIN cohort : Settled(cohort[i]) => Settled(cohort[i])'
    BY <1>o, <2>1, SettledKept DEF OneRow
  <2>4. ASSUME NEW i \in DOMAIN cohort, i # n + 1, Pending(cohort[i])
        PROVE  Pending(cohort[i])'
    <3>1. cohort[i] # cohort[n + 1] /\ cohort[i] \in Candidates
      BY <1>o, <2>1, <2>2, <2>4
    <3> QED
      BY <1>o, <2>3, <2>4, <3>1 DEF OneRow, Pending
  <2>5. Settled(cohort[n + 1])'
    BY <1>o, <2>3 DEF OneRow
  <2>6. Current(v)' = Current(v)
    BY <1>o DEF Current
  <2>7. cohort \in Seq(Candidates)
    BY DEF IInv, CancelInv, TypeOK
  <2>8. \A i \in 1..n : i \in DOMAIN cohort
    BY <1>o, <2>7
  <2>9. \A i \in 1..n : Settled(cohort[i])'
    BY <1>o, <2>3, <2>8 DEF LoopFacts
  <2>10. \A i \in DOMAIN cohort : i > n + 1 => i # n + 1
    BY <1>o, <2>7
  <2>11. LoopFacts(v)'
    BY <1>o, <2>3, <2>4, <2>5, <2>6, <2>9, <2>10 DEF LoopFacts
  <2> QED
    BY <1>o, <2>11 DEF WorkFacts
<1>1. ASSUME NEW w \in Workers, Claim(w) PROVE WorkFacts(v)'
  <2>1. w = v
    BY <1>1 DEF Claim, Holds
  <2> QED
    BY <1>1, <1>i, <2>1 DEF Claim, Goto, IInv, CancelInv, TypeOK
<1>2. ASSUME NEW w \in Workers, Begin(w) PROVE WorkFacts(v)'
  <2>1. Holds(w) /\ w = v
    BY <1>2, <1>w DEF Begin, MayWrite, Fenced
  <2>2. local'[v] = checkpoint' /\ pc'[v] \in {"discover", "select"}
    BY <1>2, <2>1 DEF Begin, Goto, IInv, CancelInv, TypeOK
  <2> QED
    BY <2>2 DEF WorkFacts, Loop
<1>3. ASSUME NEW w \in Workers, NEW c \in Candidates, Admit(w, c) PROVE WorkFacts(v)'
  <2>1. Holds(w) /\ w = v
    BY <1>3, <1>w DEF Admit, MayWrite, Fenced
  <2> QED
    BY <1>3, <1>i, <2>1 DEF Admit, At
<1>4. ASSUME NEW w \in Workers, CommitCohort(w) PROVE WorkFacts(v)'
  <2>1. Holds(w) /\ w = v
    BY <1>4, <1>w DEF CommitCohort, MayWrite, Fenced
  <2>2. pc'[v] = "save" /\ local'[v] = [stage |-> "research", cohort |-> cohort', next |-> 0]
    BY <1>4, <2>1 DEF CommitCohort, Goto, IInv, CancelInv, TypeOK
  <2> QED
    BY <2>2 DEF WorkFacts, Loop
<1>5. ASSUME NEW w \in Workers, SaveCohort(w) PROVE WorkFacts(v)'
  <2>1. Holds(w) /\ w = v
    BY <1>5, <1>w DEF SaveCohort, SaveCheckpoint, Fenced
  <2>2. pc'[v] = "select" /\ local'[v] = checkpoint'
    BY <1>5, <2>1 DEF SaveCohort, SaveCheckpoint, Goto, IInv, CancelInv, TypeOK
  <2> QED
    BY <2>2 DEF WorkFacts, Loop
<1>6. ASSUME NEW w \in Workers, Select(w) PROVE WorkFacts(v)'
  <2>0. Holds(v)
    BY <1>6 DEF Select, SaveCheckpoint, Holds
  <2>1. CASE w # v
    <3>1. /\ pc'[v] = pc[v] /\ local'[v] = local[v] /\ pending'[v] = pending[v] /\ verdict'[v] = verdict[v]
          /\ UNCHANGED <<candidateVars, gaps>>
      BY <1>6, <2>1 DEF Select, Goto, IInv, CancelInv, TypeOK
    <3>2. ~Holds(w)
      BY <2>0, <2>1 DEF Holds
    <3>3. checkpoint' = checkpoint
      BY <1>6, <3>2 DEF Select, SaveCheckpoint, Fenced
    <3> QED
      BY <1>f, <2>0, <3>1, <3>3
  <2>2. CASE w = v
    <3>1. local[v] = checkpoint
      BY <1>6, <2>0, <2>2, HolderFacts DEF Select, WorkFacts
    <3>2. /\ pc'[v] = "company" /\ pending'[v] = {c \in Elems(cohort) : Pending(c)}
          /\ UNCHANGED <<candidateVars, gaps>>
      BY <1>6, <2>2 DEF Select, Goto, IInv, CancelInv, TypeOK
    <3>3. /\ local'[v].stage = "research" /\ local'[v].cohort = cohort
          /\ local'[v].next = 0 \/ (local'[v] = checkpoint /\ checkpoint.stage = "research")
      BY <1>6, <2>2, <3>1 DEF Select, Outdated, IInv, CancelInv, TypeOK
    <3>4. cohort \in Seq(Candidates) /\ Len(cohort) \in Nat /\ DOMAIN cohort = 1..Len(cohort)
      BY DEF IInv, CancelInv, TypeOK
    <3>5. \A i \in 1..local'[v].next : i \in DOMAIN cohort /\ Settled(cohort[i])
      BY <3>3 DEF IInv, CohortInv, CheckpointHonest
    <3>6. local'[v].next \in Nat
      BY <3>3 DEF IInv, CancelInv, TypeOK, Checkpoints
    <3>7. local'[v].next <= Len(cohort)
      BY <3>4, <3>5, <3>6
    <3>8. \A i \in DOMAIN cohort : cohort[i] \in Elems(cohort) /\ cohort[i] \in Candidates
      BY <3>4 DEF Elems
    <3>9. \A i \in DOMAIN cohort : cohort[i] \in pending'[v] \/ Settled(cohort[i])
      BY <3>2, <3>8 DEF Pending, Settled, InError, IInv, CohortInv
    <3>10. \A c : Settled(c)' = Settled(c) /\ Pending(c)' = Pending(c)
      BY <3>2 DEF Settled, InError, Pending
    <3>11. \A c \in pending'[v] : Pending(c)
      BY <3>2
    <3>12. LoopFacts(v)'
      BY <3>2, <3>3, <3>5, <3>7, <3>9, <3>10, <3>11 DEF LoopFacts
    <3> QED
      BY <3>2, <3>12 DEF WorkFacts
  <2> QED
    BY <2>1, <2>2
<1>7. ASSUME NEW w \in Workers, StartCompany(w) PROVE WorkFacts(v)'
  <2>1. CASE w # v
    BY <1>7, <1>q, <2>1 DEF StartCompany, Goto, IInv, CancelInv, TypeOK
  <2>2. CASE w = v
    <3>1. /\ Holds(v) /\ pc[v] = "company" /\ MoreCompanies(v)
          /\ UNCHANGED <<rowVars, candidateVars, local, pending>>
      BY <1>7, <2>2 DEF StartCompany, At, Holds
    <3>2. LoopFacts(v) /\ local[v] \in Checkpoints /\ cohort \in Seq(Candidates)
      BY <3>1, HolderFacts DEF WorkFacts, Loop, IInv, CancelInv, TypeOK
    <3>3. local[v].next + 1 \in DOMAIN cohort /\ Current(v) = cohort[local[v].next + 1]
      BY <3>1, <3>2 DEF LoopFacts, MoreCompanies, Current, Checkpoints
    <3>4. pc'[v] = IF Current(v) \in pending[v] THEN "research" ELSE "advance"
      BY <1>7, <2>2 DEF StartCompany, Goto, IInv, CancelInv, TypeOK
    <3>5. \A c : Settled(c)' = Settled(c) /\ Pending(c)' = Pending(c)
      BY <3>1 DEF Settled, InError, Pending
    <3>6. Current(v)' = Current(v)
      BY <3>1 DEF Current
    <3>7. LoopFacts(v)'
      BY <3>1, <3>2, <3>3, <3>4, <3>5, <3>6 DEF LoopFacts
    <3> QED
      BY <3>4, <3>7 DEF WorkFacts
  <2> QED
    BY <2>1, <2>2
<1>8. ASSUME NEW w \in Workers, CommitAssessment(w) PROVE WorkFacts(v)'
  <2>1. Holds(w) /\ OneRow(Current(w)) /\ pc[w] = "research"
    BY <1>8, SealOneRow DEF CommitAssessment, At
  <2>2. w = v /\ UNCHANGED <<local, pending>> /\ pc'[v] = "advance"
    BY <1>8, <1>w, <2>1 DEF CommitAssessment, Goto, IInv, CancelInv, TypeOK
  <2>3. LoopFacts(v) /\ local[v].next \in Nat
    BY <2>1, <2>2, HolderFacts DEF WorkFacts, Loop, IInv, CancelInv, TypeOK, Checkpoints
  <2> QED
    BY <1>o, <2>1, <2>2, <2>3, CurrentFacts
<1>9. ASSUME NEW w \in Workers, FailCandidate(w) PROVE WorkFacts(v)'
  <2>1. Holds(w) /\ OneRow(Current(w)) /\ pc[w] = "fail"
    BY <1>9, FailOneRow
  <2>2. w = v /\ UNCHANGED <<local, pending>> /\ pc'[v] = "advance"
    BY <1>9, <1>w, <2>1 DEF FailCandidate, Goto, IInv, CancelInv, TypeOK
  <2>3. LoopFacts(v) /\ local[v].next \in Nat
    BY <2>1, <2>2, HolderFacts DEF WorkFacts, Loop, IInv, CancelInv, TypeOK, Checkpoints
  <2> QED
    BY <1>o, <2>1, <2>2, <2>3, CurrentFacts
<1>10. ASSUME NEW w \in Workers, Advance(w) PROVE WorkFacts(v)'
  <2> DEFINE k == [local[w] EXCEPT !.next = @ + 1]
  <2>1. Holds(w) /\ w = v /\ pc[v] = "advance" /\ UNCHANGED <<candidateVars, gaps, pending>>
    BY <1>10, <1>w DEF Advance, At, SaveCheckpoint, Fenced
  <2>2. pc'[v] = "company" /\ local'[v] = k
    BY <1>10, <2>1 DEF Advance, Goto, IInv, CancelInv, TypeOK
  <2>3. LoopFacts(v) /\ local[v] \in Checkpoints /\ cohort \in Seq(Candidates)
    BY <2>1, HolderFacts DEF WorkFacts, Loop, IInv, CancelInv, TypeOK
  <2>4. /\ local[v].next \in Nat /\ local[v].next + 1 \in DOMAIN cohort
        /\ Settled(cohort[local[v].next + 1])
    BY <2>1, <2>3, CurrentFacts DEF LoopFacts, Checkpoints
  <2>5. local'[v].stage = "research" /\ local'[v].cohort = cohort /\ local'[v].next = local[v].next + 1
    BY <2>1, <2>2, <2>3 DEF LoopFacts, Checkpoints
  <2>6. \A c : Settled(c)' = Settled(c) /\ Pending(c)' = Pending(c)
    BY <2>1 DEF Settled, InError, Pending
  <2> HIDE DEF k
  <2>7. LoopFacts(v)'
    <3> DEFINE n == local[v].next
    <3>1. Len(cohort) \in Nat /\ DOMAIN cohort = 1..Len(cohort) /\ n \in Nat /\ n + 1 <= Len(cohort)
      BY <2>3, <2>4
    <3>2. \A i \in 1..(n + 1) : Settled(cohort[i])
      BY <2>3, <2>4, <3>1 DEF LoopFacts
    <3>3. \A i \in DOMAIN cohort : i > (n + 1) + 1 \/ i = (n + 1) + 1 => i > n + 1
      BY <3>1
    <3>4. \A i \in DOMAIN cohort : cohort[i] \in pending[v] /\ i > n + 1 => Pending(cohort[i])
      BY <2>3 DEF LoopFacts
    <3>5. \A i \in DOMAIN cohort : cohort[i] \in pending[v] \/ Settled(cohort[i])
      BY <2>3 DEF LoopFacts
    <3> HIDE DEF n
    <3>6. local'[v].next = n + 1
      BY <2>5 DEF n
    <3> QED
      BY <2>1, <2>2, <2>5, <2>6, <3>1, <3>2, <3>3, <3>4, <3>5, <3>6 DEF LoopFacts
  <2> QED
    BY <2>2, <2>7 DEF WorkFacts
<1>11. ASSUME NEW w \in Workers, Conclude(w) PROVE WorkFacts(v)'
  <2>1. CASE w # v
    <3>1. /\ held'[v] = held[v] /\ pc'[v] = pc[v] /\ local'[v] = local[v]
          /\ pending'[v] = pending[v] /\ verdict'[v] = verdict[v]
      BY <1>11, <2>1 DEF Conclude, Return, Goto, IInv, CancelInv, TypeOK
    <3> QED
      BY <1>11, <1>q, <2>1, <3>1 DEF Conclude
  <2>2. CASE w = v
    <3>1. /\ Holds(v) /\ pc[v] = "company" /\ ~MoreCompanies(v) /\ UNCHANGED <<rowVars, candidateVars>>
      BY <1>11, <2>2 DEF Conclude, At, Holds
    <3>2. pc'[v] = "finalize" /\ verdict'[v] = Outcome(v)
      BY <1>11, <2>2 DEF Conclude, Goto, IInv, CancelInv, TypeOK
    <3>3. LoopFacts(v) /\ local[v] \in Checkpoints /\ cohort \in Seq(Candidates) /\ systemic \subseteq Candidates
      BY <3>1, HolderFacts DEF WorkFacts, Loop, IInv, CancelInv, TypeOK
    <3>4. \A i \in DOMAIN cohort : Settled(cohort[i]) /\ cohort[i] \in Candidates
      BY <3>1, <3>3 DEF LoopFacts, MoreCompanies, Checkpoints
    <3>5. \A c \in systemic : InError(c)
      BY <3>1, HolderFacts DEF IInv, CohortInv
    <3>6. ASSUME Outcome(v) = "completed"
          PROVE  ~gaps /\ \A c \in Candidates : ~InError(c)
      BY <3>6 DEF Outcome
    <3>7. Outcome(v) = "completed" => AllSealed
      BY <3>3, <3>4, <3>5, <3>6 DEF AllSealed, Elems, Settled
    <3>8. AllSealed' = AllSealed
      BY <3>1 DEF AllSealed
    <3> QED
      BY <3>2, <3>7, <3>8 DEF WorkFacts, Loop
  <2> QED
    BY <2>1, <2>2
<1>12. ASSUME NEW w \in Workers, Finalize(w) PROVE WorkFacts(v)'
  BY <1>12, <1>e DEF Finalize
<1>13. ASSUME NEW w \in Workers, CatchFinalize(w) PROVE WorkFacts(v)'
  BY <1>13, <1>e DEF CatchFinalize
<1>14. ASSUME NEW w \in Workers, CatchFails(w) PROVE WorkFacts(v)'
  BY <1>14, <1>l DEF CatchFails
<1>15. ASSUME NEW w \in Workers, LeaseLost(w) PROVE WorkFacts(v)'
  BY <1>15, <1>l DEF LeaseLost
<1>16. ASSUME NEW w \in Workers, SeeCancellation(w) PROVE WorkFacts(v)'
  BY <1>16, <1>k DEF SeeCancellation, Terminal
<1>17. ASSUME NEW w \in Workers, SeeDeadline(w) PROVE WorkFacts(v)'
  BY <1>17, <1>k DEF SeeDeadline, Terminal
<1>18. ASSUME NEW w \in Workers, Abort(w) PROVE WorkFacts(v)'
  BY <1>18, <1>l DEF Abort
<1>19. ASSUME NEW w \in Workers, CommitReplyLost(w) PROVE WorkFacts(v)'
  <2>1. Holds(w) /\ OneRow(Current(w)) /\ pc[w] = "research"
    BY <1>19, SealOneRow DEF CommitReplyLost, At
  <2>2. w = v /\ UNCHANGED <<local, pending>> /\ pc'[v] = "fail"
    BY <1>19, <1>w, <2>1 DEF CommitReplyLost, Goto, IInv, CancelInv, TypeOK
  <2>3. LoopFacts(v) /\ local[v].next \in Nat
    BY <2>1, <2>2, HolderFacts DEF WorkFacts, Loop, IInv, CancelInv, TypeOK, Checkpoints
  <2> QED
    BY <1>o, <2>1, <2>2, <2>3, CurrentFacts
<1>20. ASSUME NEW w \in Workers, ResearchFails(w) PROVE WorkFacts(v)'
  <2>1. CASE w # v
    BY <1>20, <1>q, <2>1 DEF ResearchFails, Goto, IInv, CancelInv, TypeOK
  <2>2. CASE w = v
    <3>1. /\ Holds(v) /\ pc[v] = "research" /\ UNCHANGED <<rowVars, candidateVars, local, pending>>
      BY <1>20, <2>2 DEF ResearchFails, At, Holds
    <3>2. LoopFacts(v)
      BY <3>1, HolderFacts DEF WorkFacts, Loop
    <3>3. pc'[v] = "fail"
      BY <1>20, <2>2 DEF ResearchFails, Goto, IInv, CancelInv, TypeOK
    <3>4. \A c : Settled(c)' = Settled(c) /\ Pending(c)' = Pending(c)
      BY <3>1 DEF Settled, InError, Pending
    <3>5. LoopFacts(v)'
      BY <3>1, <3>2, <3>3, <3>4 DEF LoopFacts
    <3> QED
      BY <3>3, <3>5 DEF WorkFacts
  <2> QED
    BY <2>1, <2>2
<1>21. ASSUME NEW w \in Workers, FinalizeFails(w) PROVE WorkFacts(v)'
  <2>1. CASE EndRun(w, verdict[w])
    BY <1>e, <2>1
  <2>2. CASE UNCHANGED <<rowVars, candidateVars, events, deadline>>
    BY <1>21, <1>k, <2>2 DEF FinalizeFails, IInv, CancelInv, TypeOK
  <2> QED
    BY <1>21, <2>1, <2>2 DEF FinalizeFails
<1>22. ASSUME NEW w \in Workers, OutOfBudget(w) PROVE WorkFacts(v)'
  BY <1>22, <1>k DEF OutOfBudget, Terminal
<1>23. ASSUME NEW w \in Workers, InProgress(w) PROVE WorkFacts(v)'
  BY <1>23, <1>l DEF InProgress
<1>24. ASSUME NEW w \in Workers, StageFails(w) PROVE WorkFacts(v)'
  BY <1>24, <1>k DEF StageFails, Terminal
<1>25. ASSUME NEW w \in Workers, HeartbeatFails(w) PROVE WorkFacts(v)'
  BY <1>25, <1>f DEF HeartbeatFails, Holds
<1>26. ASSUME NEW w \in Workers, Crash(w) PROVE WorkFacts(v)'
  BY <1>26, <1>l DEF Crash
<1>27. ASSUME RequestCancel PROVE WorkFacts(v)'
  BY <1>27, <1>f DEF RequestCancel, Holds
<1>28. ASSUME ExpireLease PROVE WorkFacts(v)'
  BY <1>28 DEF ExpireLease, Holds
<1>29. ASSUME Stall PROVE WorkFacts(v)'
  BY <1>29 DEF Stall, Holds
<1>30. ASSUME PassDeadline PROVE WorkFacts(v)'
  BY <1>30, <1>f DEF PassDeadline, Holds
<1>31. ASSUME UNCHANGED vars PROVE WorkFacts(v)'
  BY <1>31, <1>f DEF vars, Holds
<1> QED
  BY <1>1, <1>2, <1>3, <1>4, <1>5, <1>6, <1>7, <1>8, <1>9, <1>10,
     <1>11, <1>12, <1>13, <1>14, <1>15, <1>16, <1>17, <1>18, <1>19,
     <1>20, <1>21, <1>22, <1>23, <1>24, <1>25, <1>26, <1>27, <1>28,
     <1>29, <1>30, <1>31
     DEF Next, Work, Disturb

\* The parts together are inductive.
LEMMA IInvariance == Spec => []IInv
<1>1. Init => IInv
  <2> SUFFICES ASSUME Init PROVE IInv
    OBVIOUS
  <2>1. CancelInv /\ InLoop
    BY TypeInit DEF Init, CancelInv, LeaseInv, VerdictInv, CancelWins, Terminal
  <2>2. EventInv
    BY DEF Init, EventInv, FencedHistory
  <2>3. CohortInv
    BY DEF Init, CohortInv, CheckpointHonest, CompletedIsComplete, EmptyCheckpoint
  <2>4. WorkInv
    BY DEF Init, WorkInv, Holds
  <2> QED
    BY <2>1, <2>2, <2>3, <2>4 DEF IInv
<1>2. IInv /\ [Next]_vars => IInv'
  BY TypeStep, LoopStep, VerdictStep, CancelStep, EventStep, CohortStep, WorkStep DEF IInv, CancelInv
<1> QED
  BY <1>1, <1>2, PTL DEF Spec

\* THEOREM: no worker that lost its lease leaves an event behind a later
\* worker's, and the end of the run is its last event.
THEOREM HistoryFenced == Spec => []FencedHistory
BY IInvariance, PTL DEF IInv, EventInv

\* THEOREM: a company behind the checkpoint is settled in its own row.
THEOREM HonestCheckpoint == Spec => []CheckpointHonest
BY IInvariance, PTL DEF IInv, CohortInv

\* THEOREM: the holder never researches a company that is already assessed,
\* wherever a worker before it stopped.
THEOREM ReplayNever == Spec => []NoReplay
<1>1. IInv => NoReplay
  <2> SUFFICES ASSUME IInv, NEW w \in Workers, Holds(w), pc[w] = "research"
               PROVE  Current(w) \notin sealed
    BY DEF NoReplay
  <2>1. LoopFacts(w)
    BY HolderFacts DEF WorkFacts, Loop
  <2> QED
    BY <2>1, CurrentFacts DEF LoopFacts, Pending
<1> QED
  BY <1>1, IInvariance, PTL

\* THEOREM: a completed run has assessed its whole cohort and forgot no
\* failure, though workers remember failures in memory only; and a run that has
\* ended shows no sealed company as failed (finalize).
THEOREM Completeness == Spec => []CompletedIsComplete
BY IInvariance, PTL DEF IInv, CohortInv

\* THEOREM: the cohort is committed once; no restart chooses another.
THEOREM OneCohort == Spec => CohortOnce
<1>1. ASSUME IInv, [Next]_vars, CohortCommits # {}
      PROVE  cohort' = cohort /\ CohortCommits' = CohortCommits
  <2> USE DEF rowVars, candidateVars, workerVars
  <2>1. stage \in HasCohort
    BY <1>1 DEF CohortCommits, IInv, EventInv
  <2>2. ASSUME events' = events
        PROVE  CohortCommits' = CohortCommits
    BY <2>2 DEF CohortCommits
  <2>3. ASSUME NEW e, events' = Append(events, e), e.kind # "cohort"
        PROVE  CohortCommits' = CohortCommits
    <3>1. events \in Seq(Events)
      BY <1>1 DEF IInv, CancelInv, TypeOK
    <3>2. /\ DOMAIN events' = DOMAIN events \cup {Len(events) + 1}
          /\ events'[Len(events) + 1] = e
          /\ \A i \in DOMAIN events : events'[i] = events[i]
      BY <2>3, <3>1
    <3> QED
      BY <2>3, <3>2 DEF CohortCommits
  <2>4. ASSUME NEW w \in Workers, CommitCohort(w)
        PROVE  FALSE
    BY <2>1, <2>4 DEF CommitCohort, NoCohortYet, HasCohort
  <2>5. ASSUME NEW w \in Workers, NEW st, EndRun(w, st)
        PROVE  cohort' = cohort /\ CohortCommits' = CohortCommits
    BY <2>3, <2>5 DEF EndRun, Event
  <2>6. ASSUME NEW w \in Workers, SealAssessment(w)
        PROVE  CohortCommits' = CohortCommits
    BY <2>3, <2>6 DEF SealAssessment, Event
  <2>7. ASSUME NEW w \in Workers, Work(w)
        PROVE  cohort' = cohort /\ CohortCommits' = CohortCommits
    <3>1. CASE UNCHANGED <<cohort, events>>
      BY <2>2, <3>1
    <3>2. CASE CommitAssessment(w)
      BY <2>6, <3>2 DEF CommitAssessment
    <3>3. CASE Finalize(w) \/ CatchFinalize(w)
      BY <2>5, <3>3 DEF Finalize, CatchFinalize
    <3> QED
      BY <2>4, <2>7, <3>1, <3>2, <3>3
         DEF Work, Begin, Admit, SaveCohort, Select, StartCompany, FailCandidate, Advance,
             Conclude, CatchFails, LeaseLost, SeeCancellation, SeeDeadline, Abort
  <2>8. ASSUME NEW w \in Workers, Disturb(w)
        PROVE  cohort' = cohort /\ CohortCommits' = CohortCommits
    <3>1. CASE UNCHANGED <<cohort, events>>
      BY <2>2, <3>1
    <3>2. CASE CommitReplyLost(w)
      BY <2>6, <3>2 DEF CommitReplyLost
    <3>3. CASE FinalizeFails(w)
      BY <2>5, <3>1, <3>3 DEF FinalizeFails
    <3> QED
      BY <2>8, <3>1, <3>2, <3>3
         DEF Disturb, ResearchFails, OutOfBudget, InProgress, StageFails, HeartbeatFails, Crash
  <2>9. ASSUME NEW w \in Workers, Claim(w)
        PROVE  cohort' = cohort /\ CohortCommits' = CohortCommits
    BY <2>2, <2>9 DEF Claim
  <2>10. CASE RequestCancel
    BY <2>2, <2>3, <2>10 DEF RequestCancel
  <2>11. CASE ExpireLease \/ Stall \/ PassDeadline \/ UNCHANGED vars
    BY <2>2, <2>11 DEF ExpireLease, Stall, PassDeadline, vars
  <2> QED
    BY <1>1, <2>7, <2>8, <2>9, <2>10, <2>11 DEF Next
<1>2. IInv /\ [Next]_vars =>
        [CohortCommits # {} => cohort' = cohort /\ CohortCommits' = CohortCommits]_vars
  BY <1>1
<1> QED
  BY <1>2, IInvariance, PTL DEF Spec, CohortOnce
\* Before the cohort is committed nobody is chosen.
ChosenInv == stage \notin HasCohort => cohort = <<>>

LEMMA ChosenStep ==
    IInv /\ ChosenInv /\ [Next]_vars => ChosenInv'
<1> SUFFICES ASSUME IInv, ChosenInv, [Next]_vars PROVE ChosenInv'
  OBVIOUS
<1> USE DEF rowVars, candidateVars, workerVars
\* Scout's stage, once left, does not come back.
<1>0. ASSUME cohort' = cohort, stage \in HasCohort => stage' \in HasCohort
      PROVE  ChosenInv'
  BY <1>0 DEF ChosenInv
<1>1. ASSUME NEW w \in Workers, NEW k, SaveCheckpoint(w, k), k.stage = "research"
      PROVE  stage' \in HasCohort
  BY <1>1 DEF SaveCheckpoint, HasCohort
<1>2. ASSUME NEW w \in Workers, Claim(w) PROVE ChosenInv'
  BY <1>0, <1>2 DEF Claim, HasCohort
<1>3. ASSUME NEW w \in Workers, CommitCohort(w) PROVE ChosenInv'
  BY <1>3 DEF CommitCohort, ChosenInv, HasCohort
<1>4. ASSUME NEW w \in Workers, SaveCohort(w) PROVE ChosenInv'
  <2>1. WorkFacts(w)
    BY <1>4, HolderFacts DEF SaveCohort, SaveCheckpoint, Fenced
  <2> QED
    BY <1>0, <1>1, <1>4, <2>1 DEF SaveCohort, WorkFacts
<1>5. ASSUME NEW w \in Workers, Select(w) PROVE ChosenInv'
  BY <1>0, <1>1, <1>5 DEF Select
<1>6. ASSUME NEW w \in Workers, Work(w) PROVE ChosenInv'
  <2>1. CASE UNCHANGED <<cohort, stage>>
    BY <1>0, <2>1
  <2>2. CASE Finalize(w) \/ CatchFinalize(w)
    BY <1>0, <2>2 DEF Finalize, CatchFinalize, EndRun, HasCohort
  <2>3. CASE Advance(w)
    <3>1. LoopFacts(w) /\ local[w] \in Checkpoints
      BY <2>3, HolderFacts
         DEF Advance, At, SaveCheckpoint, Fenced, WorkFacts, Loop, IInv, CancelInv, TypeOK
    <3>2. [local[w] EXCEPT !.next = @ + 1].stage = "research"
      BY <3>1 DEF LoopFacts, Checkpoints
    <3> QED
      BY <1>0, <1>1, <2>3, <3>2 DEF Advance
  <2> QED
    BY <1>3, <1>4, <1>5, <1>6, <2>1, <2>2, <2>3
       DEF Work, Begin, Admit, StartCompany, CommitAssessment, FailCandidate, Advance,
           Conclude, CatchFails, LeaseLost, SeeCancellation, SeeDeadline, Abort
<1>7. ASSUME NEW w \in Workers, Disturb(w) PROVE ChosenInv'
  <2>1. CASE UNCHANGED <<cohort, stage>>
    BY <1>0, <2>1
  <2>2. CASE FinalizeFails(w)
    BY <1>0, <2>2 DEF FinalizeFails, EndRun, HasCohort
  <2> QED
    BY <1>7, <2>1, <2>2
       DEF Disturb, CommitReplyLost, ResearchFails, OutOfBudget, InProgress, StageFails,
           HeartbeatFails, Crash
<1>8. CASE RequestCancel
  BY <1>0, <1>8 DEF RequestCancel, HasCohort
<1>9. CASE ExpireLease \/ Stall \/ PassDeadline \/ UNCHANGED vars
  BY <1>0, <1>9 DEF ExpireLease, Stall, PassDeadline, vars
<1> QED
  BY <1>2, <1>6, <1>7, <1>8, <1>9 DEF Next

LEMMA ChosenInvariance == Spec => []ChosenInv
<1>1. Init => ChosenInv
  BY DEF Init, ChosenInv
<1> QED
  BY <1>1, ChosenStep, IInvariance, PTL DEF Spec

\* THEOREM: the run implements RunContract: every step of every worker, crashed,
\* stalled or replaced, is a step its owner was promised or none at all.
THEOREM Refinement == Spec => KeepsContract
<1> USE DEF rowVars, candidateVars, workerVars
<1> DEFINE Kept == UNCHANGED <<status, cancelRequested, cohort, sealed>>
<1>1. Init => Contract!Init
  BY DEF Init, Contract!Init, Elems
<1>2. Kept => UNCHANGED Contract!vars
  BY DEF Contract!vars, Elems
<1>3. ASSUME NEW w \in Workers, Claim(w) PROVE Contract!Next \/ Kept
  BY <1>3 DEF Claim, Claimable, Contract!Next, Contract!Start, Elems
<1>4. ASSUME IInv, ChosenInv, NEW w \in Workers, CommitCohort(w) PROVE Contract!Next
  <2>1. status = "running" /\ ~cancelRequested /\ cohort = <<>>
    BY <1>4, HolderFacts DEF CommitCohort, MayWrite, Fenced, NoCohortYet, ChosenInv, HasCohort
  <2>2. Elems(cohort) = {}
    BY <2>1 DEF Elems
  <2>3. PICK s \in Cohorts(pool[w]) : cohort' = s
    BY <1>4 DEF CommitCohort
  <2>4. pool[w] \subseteq Candidates
    BY <1>4 DEF IInv, CancelInv, TypeOK
  <2>5. Elems(cohort') \subseteq Candidates
    BY <2>3, <2>4 DEF Cohorts, Elems
  <2>6. UNCHANGED <<status, cancelRequested, sealed>>
    BY <1>4 DEF CommitCohort
  <2>7. Contract!Choose
    BY <2>1, <2>2, <2>5, <2>6 DEF Contract!Choose, Elems
  <2> QED
    BY <2>7 DEF Contract!Next
<1>5. ASSUME IInv, NEW w \in Workers, SealAssessment(w), pc[w] = "research",
             UNCHANGED <<status, cancelRequested, cohort>>
      PROVE  Contract!Next
  <2>1. Holds(w) /\ ~cancelRequested /\ Pending(Current(w)) /\ sealed' = sealed \cup {Current(w)}
    BY <1>5 DEF SealAssessment, MayWrite, Fenced
  <2>2. status = "running"
    BY <1>5, <2>1, HolderFacts
  <2>3. Current(w) \in Elems(cohort) \ sealed
    BY <1>5, <2>1, CurrentFacts DEF Elems, Pending
  <2>4. Elems(cohort)' = Elems(cohort)
    BY <1>5 DEF Elems
  <2>5. Contract!Seal
    BY <1>5, <2>1, <2>2, <2>3, <2>4 DEF Contract!Seal
  <2> QED
    BY <2>5 DEF Contract!Next
\* What a run may end with is what the invariant says of ended runs.
<1>6. ASSUME IInv, IInv', NEW w \in Workers, NEW st \in Terminal, EndRun(w, st)
      PROVE  Contract!Next
  <2>1. status = "running" /\ status' = st
    BY <1>6, HolderFacts DEF EndRun, MayEnd
  <2>2. UNCHANGED <<cancelRequested, cohort, sealed>> /\ cancelRequested \in BOOLEAN
    BY <1>6 DEF EndRun, IInv, CancelInv, TypeOK
  <2>3. (status' = "cancelled") = cancelRequested
    BY <1>6, <2>1, <2>2 DEF IInv, CancelInv, CancelWins
  <2>4. status' = "completed" => Elems(cohort) \subseteq sealed
    BY <1>6, <2>2 DEF IInv, CohortInv, CompletedIsComplete, Elems
  <2>5. Elems(cohort)' = Elems(cohort)
    BY <2>2 DEF Elems
  <2>6. Contract!End
    BY <2>1, <2>2, <2>3, <2>4, <2>5 DEF Contract!End, Contract!Ended, Terminal
  <2> QED
    BY <2>6 DEF Contract!Next
<1>7. ASSUME IInv, IInv', ChosenInv, NEW w \in Workers, Work(w) PROVE Contract!Next \/ Kept
  <2>1. verdict[w] \in Terminal
    BY <1>7 DEF IInv, CancelInv, TypeOK
  <2>2. CASE CommitCohort(w)
    BY <1>4, <1>7, <2>2
  <2>3. CASE CommitAssessment(w)
    BY <1>5, <1>7, <2>3 DEF CommitAssessment, At
  <2>4. CASE Finalize(w) \/ CatchFinalize(w)
    BY <1>6, <1>7, <2>1, <2>4 DEF Finalize, CatchFinalize
  <2>5. CASE Kept
    BY <2>5
  <2> QED
    BY <1>7, <2>2, <2>3, <2>4, <2>5
       DEF Work, Begin, Admit, SaveCohort, Select, SaveCheckpoint, StartCompany, FailCandidate,
           Advance, Conclude, CatchFails, LeaseLost, SeeCancellation, SeeDeadline, Abort
<1>8. ASSUME IInv, IInv', NEW w \in Workers, Disturb(w) PROVE Contract!Next \/ Kept
  <2>1. verdict[w] \in Terminal
    BY <1>8 DEF IInv, CancelInv, TypeOK
  <2>2. CASE CommitReplyLost(w)
    BY <1>5, <1>8, <2>2 DEF CommitReplyLost, At
  <2>3. CASE FinalizeFails(w)
    BY <1>6, <1>8, <2>1, <2>3 DEF FinalizeFails
  <2>4. CASE Kept
    BY <2>4
  <2> QED
    BY <1>8, <2>2, <2>3, <2>4
       DEF Disturb, ResearchFails, OutOfBudget, InProgress, StageFails, HeartbeatFails, Crash
<1>9. ASSUME RequestCancel PROVE Contract!Next
  BY <1>9 DEF RequestCancel, Contract!Next, Contract!AskCancel, Contract!Active, Elems
<1>10. ExpireLease \/ Stall \/ PassDeadline \/ UNCHANGED vars => Kept
  BY DEF ExpireLease, Stall, PassDeadline, vars
<1>11. IInv /\ IInv' /\ ChosenInv /\ [Next]_vars => [Contract!Next]_(Contract!vars)
  BY <1>2, <1>3, <1>7, <1>8, <1>9, <1>10 DEF Next
<1> QED
  BY <1>1, <1>11, IInvariance, ChosenInvariance, PTL DEF Spec, KeepsContract, Contract!Spec
=============================================================================
