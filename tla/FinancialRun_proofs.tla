------------------------ MODULE FinancialRun_proofs ------------------------
(***************************************************************************)
(* Proofs about FinancialRun for every set of workers, every number of     *)
(* units and every bound: its types, one evidence version per run, what a  *)
(* completed run means, that a superseded attempt writes nothing, and that *)
(* the run implements PublicationContract.                                 *)
(*                                                                         *)
(* The argument: a token is never newer than the row's epoch and names the *)
(* run it was issued for (AttemptInv), so of all attempts only the last    *)
(* passes a fence; that attempt's evaluation is the one the row is bound   *)
(* to (BasisInv); so every unit carries a value of the bound version and   *)
(* moves only forward (UnitInv).                                           *)
(***************************************************************************)
EXTENDS FinancialRun, TLAPS

\* What a worker remembers of the run it works on.
AttemptInv ==
    \A w \in Workers :
        /\ rid[w] <= runId
        /\ rid[w] = runId => state # "none" /\ tok[w] <= epoch
        /\ pc[w] \in {"idle", "reserve", "recover", "acquire"} => tok[w] = 0
        /\ pc[w] = "cancelling" /\ rid[w] = runId => cancel

\* The evaluation the holder is persisting is the one of the bound inputs.
BasisInv ==
    \A w \in Workers :
        Held(w) /\ pc[w] \in {"declare", "check"} => basis[w] = bound /\ bound # 0

\* Units are declared together and computed from the bound inputs.
UnitInv ==
    /\ \A u \in Units : results[u] \in {0, bound}
    /\ \A u \in Units :
          units[u] \in {"computed", "sealed", "rejected"} => results[u] # 0
    /\ \A u, v \in Units : units[u] # "none" => units[v] # "none"
    /\ \A p \in published : p.value = bound /\ bound # 0
    /\ \A u \in Units : units[u] = "sealed" <=> \E p \in published : p.unit = u

\* A completed run published something and left nothing open.
EndInv ==
    state = "completed" =>
        /\ published # {}
        /\ \A u \in Units : units[u] \in {"sealed", "rejected"}

IInv == TypeOK /\ AttemptInv /\ BasisInv /\ UnitInv /\ EndInv


\* Every action keeps the types.
LEMMA TypeStep ==
    ASSUME TypeOK, [Next]_vars
    PROVE  TypeOK'
<1> USE ConstantsAssumption DEF TypeOK, Pcs, ExecPcs, Open, Ended, UnitStates, Evidence, rowVars, dataVars, worldVars, localVars, Goto
<1>1. ASSUME NEW w \in Workers, WorkerStep(w) \/ Crash(w) \/ Fault(w)
      PROVE  TypeOK'
  <2>1. CASE Lookup(w)
    BY <2>1 DEF Lookup
  <2>2. CASE Reserve(w)
    BY <2>2 DEF Reserve, GiveUp, Forget
  <2>3. CASE Acquire(w)
    <3>1. CASE Acquirable(w) /\ w \in Requests
      BY <2>3, <3>1 DEF Acquire, Start, GiveUp, Forget, Name
    <3>2. CASE Acquirable(w) /\ ~(w \in Requests)
      BY <2>3, <3>2 DEF Acquire, Start, GiveUp, Forget, Name
    <3>3. CASE ~(Acquirable(w)) /\ w \in Requests
      BY <2>3, <3>3 DEF Acquire, Start, GiveUp, Forget, Name
    <3>4. CASE ~(Acquirable(w)) /\ ~(w \in Requests)
      BY <2>3, <3>4 DEF Acquire, Start, GiveUp, Forget, Name
    <3> QED
      BY <3>1, <3>2, <3>3, <3>4
  <2>4. CASE Release(w)
    BY <2>4 DEF Release, GiveUp, Forget, Owns, SameRun
  <2>5. CASE BindInputs(w)
    BY <2>5 DEF BindInputs, BindTo, Fenced, Held, Owns, SameRun
  <2>6. CASE DeclareUnits(w)
    BY <2>6 DEF DeclareUnits, Fenced, Held, Owns, SameRun
  <2>7. CASE CheckpointUnit(w)
    BY <2>7 DEF CheckpointUnit, IsNext, Fenced, Held, Owns, SameRun
  <2>8. CASE ReadyToSeal(w)
    BY <2>8 DEF ReadyToSeal, Fenced, Held, Owns, SameRun
  <2>9. CASE ExecutionFenced(w)
    BY <2>9 DEF ExecutionFenced, Leave, GiveUp, Forget, Fenced, Held, Owns, SameRun
  <2>10. CASE HonourCancel(w)
    <3>1. CASE Held(w) /\ w \in Requests
      <4>1. live' \in BOOLEAN /\ cancel' \in BOOLEAN
        BY <2>10, <3>1, Zenon DEF HonourCancel, EndRun
      <4> QED
        BY <2>10, <3>1, <4>1 DEF HonourCancel, EndRun, Leave, GiveUp, Forget
    <3>2. CASE Held(w) /\ ~(w \in Requests)
      <4>1. live' \in BOOLEAN /\ cancel' \in BOOLEAN
        BY <2>10, <3>2, Zenon DEF HonourCancel, EndRun
      <4> QED
        BY <2>10, <3>2, <4>1 DEF HonourCancel, EndRun, Leave, GiveUp, Forget
    <3>3. CASE ~(Held(w)) /\ w \in Requests
      <4>1. live' \in BOOLEAN /\ cancel' \in BOOLEAN
        BY <2>10, <3>3, Zenon DEF HonourCancel, EndRun
      <4> QED
        BY <2>10, <3>3, <4>1 DEF HonourCancel, EndRun, Leave, GiveUp, Forget
    <3>4. CASE ~(Held(w)) /\ ~(w \in Requests)
      <4>1. live' \in BOOLEAN /\ cancel' \in BOOLEAN
        BY <2>10, <3>4, Zenon DEF HonourCancel, EndRun
      <4> QED
        BY <2>10, <3>4, <4>1 DEF HonourCancel, EndRun, Leave, GiveUp, Forget
    <3> QED
      BY <3>1, <3>2, <3>3, <3>4
  <2>11. CASE FailRun(w)
    <3>1. CASE Held(w) /\ w \in Requests
      <4>1. live' \in BOOLEAN /\ cancel' \in BOOLEAN
        BY <2>11, <3>1, Zenon DEF FailRun, EndRun
      <4> QED
        BY <2>11, <3>1, <4>1 DEF FailRun, EndRun, Leave, GiveUp, Forget
    <3>2. CASE Held(w) /\ ~(w \in Requests)
      <4>1. live' \in BOOLEAN /\ cancel' \in BOOLEAN
        BY <2>11, <3>2, Zenon DEF FailRun, EndRun
      <4> QED
        BY <2>11, <3>2, <4>1 DEF FailRun, EndRun, Leave, GiveUp, Forget
    <3>3. CASE ~(Held(w)) /\ w \in Requests
      <4>1. live' \in BOOLEAN /\ cancel' \in BOOLEAN
        BY <2>11, <3>3, Zenon DEF FailRun, EndRun
      <4> QED
        BY <2>11, <3>3, <4>1 DEF FailRun, EndRun, Leave, GiveUp, Forget
    <3>4. CASE ~(Held(w)) /\ ~(w \in Requests)
      <4>1. live' \in BOOLEAN /\ cancel' \in BOOLEAN
        BY <2>11, <3>4, Zenon DEF FailRun, EndRun
      <4> QED
        BY <2>11, <3>4, <4>1 DEF FailRun, EndRun, Leave, GiveUp, Forget
    <3> QED
      BY <3>1, <3>2, <3>3, <3>4
  <2>12. CASE ListUnits(w)
    BY <2>12 DEF ListUnits, Leave, GiveUp, Forget, SameRun
  <2>13. CASE FinalizeUnit(w)
    <3> PICK u \in Units : PublishUnit(w, u)
      BY <2>13 DEF FinalizeUnit
    <3>0. Fenced(w) /\ UNCHANGED <<bound, results, worldVars, faults>>
      BY <2>13 DEF FinalizeUnit
    <3>1. CASE NoneOpen(u) /\ todo[w] = {u} /\ w \in Requests
      <4>1. live' \in BOOLEAN /\ cancel' \in BOOLEAN
        BY <3>1, Zenon DEF PublishUnit, EndRun, rowVars, TypeOK
      <4> QED
        BY <3>0, <3>1, <4>1 DEF PublishUnit, Publishable, EndRun, FinalizeNext, Leave, GiveUp, Forget
    <3>2. CASE NoneOpen(u) /\ todo[w] = {u} /\ w \notin Requests
      <4>1. live' \in BOOLEAN /\ cancel' \in BOOLEAN
        BY <3>2, Zenon DEF PublishUnit, EndRun, rowVars, TypeOK
      <4> QED
        BY <3>0, <3>2, <4>1 DEF PublishUnit, Publishable, EndRun, FinalizeNext, Leave, GiveUp, Forget
    <3>3. CASE NoneOpen(u) /\ todo[w] # {u}
      <4>1. live' \in BOOLEAN /\ cancel' \in BOOLEAN
        BY <3>3, Zenon DEF PublishUnit, EndRun, rowVars, TypeOK
      <4> QED
        BY <3>0, <3>3, <4>1 DEF PublishUnit, Publishable, EndRun, FinalizeNext, Leave, GiveUp, Forget
    <3>4. CASE ~NoneOpen(u) /\ todo[w] = {u} /\ w \in Requests
      <4>1. live' \in BOOLEAN /\ cancel' \in BOOLEAN
        BY <3>4, Zenon DEF PublishUnit, EndRun, rowVars, TypeOK
      <4> QED
        BY <3>0, <3>4, <4>1 DEF PublishUnit, Publishable, EndRun, FinalizeNext, Leave, GiveUp, Forget
    <3>5. CASE ~NoneOpen(u) /\ todo[w] = {u} /\ w \notin Requests
      <4>1. live' \in BOOLEAN /\ cancel' \in BOOLEAN
        BY <3>5, Zenon DEF PublishUnit, EndRun, rowVars, TypeOK
      <4> QED
        BY <3>0, <3>5, <4>1 DEF PublishUnit, Publishable, EndRun, FinalizeNext, Leave, GiveUp, Forget
    <3>6. CASE ~NoneOpen(u) /\ todo[w] # {u}
      <4>1. live' \in BOOLEAN /\ cancel' \in BOOLEAN
        BY <3>6, Zenon DEF PublishUnit, EndRun, rowVars, TypeOK
      <4> QED
        BY <3>0, <3>6, <4>1 DEF PublishUnit, Publishable, EndRun, FinalizeNext, Leave, GiveUp, Forget
    <3> QED
      BY <3>1, <3>2, <3>3, <3>4, <3>5, <3>6
  <2>14. CASE SkipUnit(w)
    BY <2>14 DEF SkipUnit, IsNext, FinalizeNext, Leave, GiveUp, Forget
  <2>15. CASE FinalizationStops(w)
    BY <2>15 DEF FinalizationStops, Leave, GiveUp, Forget
  <2>16. CASE ListRecoverable(w)
    BY <2>16 DEF ListRecoverable, Recoverable, Free
  <2>17. CASE Recover(w)
    <3>1. live' \in BOOLEAN /\ cancel' \in BOOLEAN
      <4>1. CASE AskCancel
        BY <4>1, Zenon DEF AskCancel
      <4>2. CASE UNCHANGED rowVars
        BY <4>2
      <4> QED
        BY <2>17, <4>1, <4>2 DEF Recover
    <3>2. /\ state' \in Open \cup Ended \cup {"none"} /\ owner' \in {NoOwner, "request", "supervisor"}
          /\ UNCHANGED <<runId, plan, version, epoch>>
      BY <2>17 DEF Recover, AskCancel
    <3>3. CASE GiveUp(w)
      <4>1. UNCHANGED <<dataVars, worldVars, faults>>
        BY <2>17 DEF Recover
      <4> QED
        BY <3>1, <3>2, <3>3, <4>1 DEF GiveUp, Forget
    <3>4. CASE seen[w] # "cancelled" /\ parent # 0 /\ ~GiveUp(w)
      BY <2>17, <3>4 DEF Recover
    <3> QED
      BY <2>17, <3>3, <3>4 DEF Recover
  <2>18. CASE Crash(w)
    BY <2>18 DEF Crash, GiveUp, Forget
  <2>19. CASE Fault(w)
    <3>1. CASE Leave(w)
      <4>1. CASE w \in Requests
        BY <2>19, <3>1, <4>1 DEF Fault, Leave
      <4>2. CASE w \notin Requests
        <5>1. GiveUp(w) /\ UNCHANGED <<rowVars, dataVars, worldVars>> /\ faults' = faults + 1
          BY <2>19, <3>1, <4>2 DEF Fault, Leave
        <5> QED
          BY <5>1 DEF GiveUp, Forget
      <4> QED
        BY <4>1, <4>2
    <3>2. CASE Goto(w, "failing") /\ UNCHANGED localVars
      BY <2>19, <3>2 DEF Fault
    <3> QED
      BY <2>19, <3>1, <3>2 DEF Fault
  <2> QED
    BY <1>1, <2>1, <2>2, <2>3, <2>4, <2>5, <2>6, <2>7, <2>8, <2>9, <2>10, <2>11, <2>12, <2>13, <2>14, <2>15, <2>16, <2>17, <2>18, <2>19 DEF WorkerStep
<1>2. CASE OwnerCancels
  BY <1>2 DEF OwnerCancels, AskCancel, Free
<1>3. CASE LeaseExpires
  <2>1. live' \in BOOLEAN
    BY <1>3, Zenon DEF LeaseExpires
  <2>2. faults' \in Nat
    BY <1>3 DEF LeaseExpires
  <2> QED
    BY <1>3, <2>1, <2>2 DEF LeaseExpires
<1>4. CASE EvidenceArrives
  BY <1>4 DEF EvidenceArrives
<1>5. CASE Withdraw
  BY <1>5 DEF Withdraw, Revoked
<1>6. CASE ParentChanges
  BY <1>6 DEF ParentChanges
<1>7. CASE Erase
  <2>1. live' \in BOOLEAN /\ cancel' \in BOOLEAN
    BY <1>7, Zenon DEF Erase
  <2>2. newest' \in Evidence /\ revoked' \subseteq Evidence /\ parent' \in Nat
    <3>1. CASE parent' = 0 /\ UNCHANGED <<revoked, newest>>
      BY <3>1
    <3>2. CASE bound # 0 /\ Revoked(bound) /\ UNCHANGED parent
      BY <3>2 DEF Revoked
    <3> QED
      BY <1>7, <3>1, <3>2 DEF Erase
  <2> QED
    BY <1>7, <2>1, <2>2 DEF Erase
<1>8. CASE UNCHANGED vars
  BY <1>8 DEF vars, worldVars
<1> QED
  BY <1>1, <1>2, <1>3, <1>4, <1>5, <1>6, <1>7, <1>8 DEF Next, WorldStep

\* A token is issued with the epoch and forgotten with the attempt.
LEMMA AttemptStep ==
    ASSUME TypeOK, AttemptInv, [Next]_vars
    PROVE  AttemptInv'
<1> USE ConstantsAssumption DEF AttemptInv, TypeOK, ExecPcs, Open, rowVars, dataVars, worldVars, localVars, Goto
<1>1. ASSUME NEW w \in Workers, WorkerStep(w) \/ Crash(w) \/ Fault(w)
      PROVE  AttemptInv'
  <2>1. CASE Lookup(w)
    BY <2>1 DEF Lookup
  <2>2. CASE Reserve(w)
    BY <2>2 DEF Reserve, GiveUp, Forget
  <2>3. CASE Acquire(w)
    BY <2>3 DEF Acquire, Acquirable, Start, GiveUp, Forget, Name, Free, SameRun
  <2>4. CASE Release(w)
    BY <2>4 DEF Release, GiveUp, Forget, Owns, SameRun
  <2>5. CASE BindInputs(w)
    BY <2>5 DEF BindInputs, BindTo, Fenced, Held, Owns, SameRun
  <2>6. CASE DeclareUnits(w)
    BY <2>6 DEF DeclareUnits, Fenced, Held, Owns, SameRun
  <2>7. CASE CheckpointUnit(w)
    BY <2>7 DEF CheckpointUnit, IsNext, Fenced, Held, Owns, SameRun
  <2>8. CASE ReadyToSeal(w)
    BY <2>8 DEF ReadyToSeal, Fenced, Held, Owns, SameRun
  <2>9. CASE ExecutionFenced(w)
    BY <2>9 DEF ExecutionFenced, Leave, GiveUp, Forget, Fenced, Held, Owns, SameRun
  <2>10. CASE HonourCancel(w)
    BY <2>10 DEF HonourCancel, EndRun, Leave, GiveUp, Forget, Held, Owns, SameRun
  <2>11. CASE FailRun(w)
    BY <2>11 DEF FailRun, EndRun, Leave, GiveUp, Forget, Held, Owns, SameRun
  <2>12. CASE ListUnits(w)
    BY <2>12 DEF ListUnits, Leave, GiveUp, Forget, SameRun
  <2>13. CASE FinalizeUnit(w)
    <3> PICK u \in Units : PublishUnit(w, u)
      BY <2>13 DEF FinalizeUnit
    <3>0. Fenced(w) /\ UNCHANGED <<bound, results, worldVars, faults>>
      BY <2>13 DEF FinalizeUnit
    <3>1. CASE NoneOpen(u) /\ todo[w] = {u} /\ w \in Requests
      BY <3>0, <3>1 DEF PublishUnit, Publishable, EndRun, FinalizeNext, Leave, GiveUp, Forget
    <3>2. CASE NoneOpen(u) /\ todo[w] = {u} /\ w \notin Requests
      BY <3>0, <3>2 DEF PublishUnit, Publishable, EndRun, FinalizeNext, Leave, GiveUp, Forget
    <3>3. CASE NoneOpen(u) /\ todo[w] # {u}
      BY <3>0, <3>3 DEF PublishUnit, Publishable, EndRun, FinalizeNext, Leave, GiveUp, Forget
    <3>4. CASE ~NoneOpen(u) /\ todo[w] = {u} /\ w \in Requests
      BY <3>0, <3>4 DEF PublishUnit, Publishable, EndRun, FinalizeNext, Leave, GiveUp, Forget
    <3>5. CASE ~NoneOpen(u) /\ todo[w] = {u} /\ w \notin Requests
      BY <3>0, <3>5 DEF PublishUnit, Publishable, EndRun, FinalizeNext, Leave, GiveUp, Forget
    <3>6. CASE ~NoneOpen(u) /\ todo[w] # {u}
      BY <3>0, <3>6 DEF PublishUnit, Publishable, EndRun, FinalizeNext, Leave, GiveUp, Forget
    <3> QED
      BY <3>1, <3>2, <3>3, <3>4, <3>5, <3>6
  <2>14. CASE SkipUnit(w)
    BY <2>14 DEF SkipUnit, IsNext, FinalizeNext, Leave, GiveUp, Forget
  <2>15. CASE FinalizationStops(w)
    BY <2>15 DEF FinalizationStops, Leave, GiveUp, Forget
  <2>16. CASE ListRecoverable(w)
    BY <2>16 DEF ListRecoverable, Recoverable, Free
  <2>17. CASE Recover(w)
    BY <2>17 DEF Recover, AskCancel, Free, SameRun, GiveUp, Forget
  <2>18. CASE Crash(w)
    BY <2>18 DEF Crash, GiveUp, Forget
  <2>19. CASE Fault(w)
    BY <2>19 DEF Fault, Leave, GiveUp, Forget
  <2> QED
    BY <1>1, <2>1, <2>2, <2>3, <2>4, <2>5, <2>6, <2>7, <2>8, <2>9, <2>10, <2>11, <2>12, <2>13, <2>14, <2>15, <2>16, <2>17, <2>18, <2>19 DEF WorkerStep
<1>2. CASE OwnerCancels
  BY <1>2 DEF OwnerCancels, AskCancel, Free
<1>3. CASE LeaseExpires
  BY <1>3 DEF LeaseExpires
<1>4. CASE EvidenceArrives
  BY <1>4 DEF EvidenceArrives
<1>5. CASE Withdraw
  BY <1>5 DEF Withdraw, Revoked
<1>6. CASE ParentChanges
  BY <1>6 DEF ParentChanges
<1>7. CASE Erase
  <2>1. runId' = runId + 1 /\ UNCHANGED <<pc, rid, tok>>
    BY <1>7 DEF Erase
  <2> QED
    BY <2>1
<1>8. CASE UNCHANGED vars
  BY <1>8 DEF vars, worldVars
<1> QED
  BY <1>1, <1>2, <1>3, <1>4, <1>5, <1>6, <1>7, <1>8 DEF Next, WorldStep

\* Only the last attempt holds the row, and it evaluates what is bound.
LEMMA BasisStep ==
    ASSUME TypeOK, AttemptInv, BasisInv, [Next]_vars
    PROVE  BasisInv'
<1> USE ConstantsAssumption DEF BasisInv, AttemptInv, TypeOK, Held, Owns, SameRun, ExecPcs, Open, Evidence, rowVars, dataVars, worldVars, localVars, Goto
<1>1. ASSUME NEW w \in Workers, WorkerStep(w) \/ Crash(w) \/ Fault(w)
      PROVE  BasisInv'
  <2>1. CASE Lookup(w)
    BY <2>1 DEF Lookup
  <2>2. CASE Reserve(w)
    <3>1. pc'[w] \notin {"declare", "check"} /\ bound' = bound
      BY <2>2 DEF Reserve, GiveUp
    <3>2. \A v \in Workers : v # w => pc'[v] = pc[v] /\ basis'[v] = basis[v] /\ rid'[v] = rid[v] /\ tok'[v] = tok[v]
      BY <2>2 DEF Reserve, GiveUp, Forget
    <3>3. CASE state = "none"
      <4>1. runId' = runId /\ \A v \in Workers : rid[v] # runId
        BY <2>2, <3>3 DEF Reserve
      <4> QED
        BY <3>1, <3>2, <4>1
    <3>4. CASE UNCHANGED rowVars
      BY <3>1, <3>2, <3>4
    <3> QED
      BY <2>2, <3>3, <3>4 DEF Reserve
  <2>3. CASE Acquire(w)
    <3>1. CASE Acquirable(w)
      <4>1. \A v \in Workers : v # w => ~(Held(v))'
        BY <2>3, <3>1 DEF Acquire
      <4>2. pc'[w] \notin {"declare", "check"}
        BY <2>3, <3>1 DEF Acquire, Start
      <4> QED
        BY <4>1, <4>2
    <3>2. CASE ~Acquirable(w)
      <4>1. pc'[w] \notin {"declare", "check"} /\ UNCHANGED <<rowVars, bound>>
        BY <2>3, <3>2 DEF Acquire, GiveUp
      <4>2. \A v \in Workers : v # w => pc'[v] = pc[v] /\ basis'[v] = basis[v] /\ rid'[v] = rid[v] /\ tok'[v] = tok[v]
        BY <2>3, <3>2 DEF Acquire, GiveUp, Forget
      <4> QED
        BY <4>1, <4>2
    <3> QED
      BY <3>1, <3>2
  <2>4. CASE Release(w)
    BY <2>4 DEF Release, GiveUp, Forget, Owns, SameRun
  <2>5. CASE BindInputs(w)
    BY <2>5 DEF BindInputs, BindTo, Fenced, Held, Owns, SameRun
  <2>6. CASE DeclareUnits(w)
    BY <2>6 DEF DeclareUnits, Fenced, Held, Owns, SameRun
  <2>7. CASE CheckpointUnit(w)
    BY <2>7 DEF CheckpointUnit, IsNext, Fenced, Held, Owns, SameRun
  <2>8. CASE ReadyToSeal(w)
    BY <2>8 DEF ReadyToSeal, Fenced, Held, Owns, SameRun
  <2>9. CASE ExecutionFenced(w)
    BY <2>9 DEF ExecutionFenced, Leave, GiveUp, Forget, Fenced, Held, Owns, SameRun
  <2>10. CASE HonourCancel(w)
    <3>1. pc'[w] \notin {"declare", "check"} /\ bound' = bound
      BY <2>10 DEF HonourCancel, Leave, Start, EndRun, FinalizeNext, Leave, GiveUp, Forget
    <3>2. \A v \in Workers : v # w => pc'[v] = pc[v] /\ basis'[v] = basis[v] /\ rid'[v] = rid[v] /\ tok'[v] = tok[v]
      BY <2>10 DEF HonourCancel, Leave, FinalizeNext, Leave, GiveUp, Forget
    <3>3. \A v \in Workers : v # w /\ Held(v)' => Held(v)
      <4>1. SUFFICES ASSUME NEW v \in Workers, v # w, Held(v)' PROVE Held(v)
        OBVIOUS
      <4>2. rid'[v] = rid[v] /\ tok'[v] = tok[v]
        BY <3>2, <4>1
      <4>3. UNCHANGED <<runId, state, owner, epoch, live>>
        BY <2>10, <4>1, <4>2 DEF HonourCancel, Leave, EndRun
      <4> QED
        BY <4>1, <4>2, <4>3
    <3> QED
      BY <3>1, <3>2, <3>3
  <2>11. CASE FailRun(w)
    <3>1. pc'[w] \notin {"declare", "check"} /\ bound' = bound
      BY <2>11 DEF FailRun, Leave, Start, EndRun, FinalizeNext, Leave, GiveUp, Forget
    <3>2. \A v \in Workers : v # w => pc'[v] = pc[v] /\ basis'[v] = basis[v] /\ rid'[v] = rid[v] /\ tok'[v] = tok[v]
      BY <2>11 DEF FailRun, Leave, FinalizeNext, Leave, GiveUp, Forget
    <3>3. \A v \in Workers : v # w /\ Held(v)' => Held(v)
      <4>1. SUFFICES ASSUME NEW v \in Workers, v # w, Held(v)' PROVE Held(v)
        OBVIOUS
      <4>2. rid'[v] = rid[v] /\ tok'[v] = tok[v]
        BY <3>2, <4>1
      <4>3. UNCHANGED <<runId, state, owner, epoch, live>>
        BY <2>11, <4>1, <4>2 DEF FailRun, Leave, EndRun
      <4> QED
        BY <4>1, <4>2, <4>3
    <3> QED
      BY <3>1, <3>2, <3>3
  <2>12. CASE ListUnits(w)
    BY <2>12 DEF ListUnits, Leave, GiveUp, Forget, SameRun
  <2>13. CASE FinalizeUnit(w)
    <3> PICK u \in Units : PublishUnit(w, u)
      BY <2>13 DEF FinalizeUnit
    <3>0. Fenced(w) /\ UNCHANGED <<bound, results, worldVars, faults>>
      BY <2>13 DEF FinalizeUnit
    <3>1. CASE NoneOpen(u) /\ todo[w] = {u} /\ w \in Requests
      BY <3>0, <3>1 DEF PublishUnit, Publishable, EndRun, FinalizeNext, Leave, GiveUp, Forget, Fenced
    <3>2. CASE NoneOpen(u) /\ todo[w] = {u} /\ w \notin Requests
      BY <3>0, <3>2 DEF PublishUnit, Publishable, EndRun, FinalizeNext, Leave, GiveUp, Forget, Fenced
    <3>3. CASE NoneOpen(u) /\ todo[w] # {u}
      BY <3>0, <3>3 DEF PublishUnit, Publishable, EndRun, FinalizeNext, Leave, GiveUp, Forget, Fenced
    <3>4. CASE ~NoneOpen(u) /\ todo[w] = {u} /\ w \in Requests
      BY <3>0, <3>4 DEF PublishUnit, Publishable, EndRun, FinalizeNext, Leave, GiveUp, Forget, Fenced
    <3>5. CASE ~NoneOpen(u) /\ todo[w] = {u} /\ w \notin Requests
      BY <3>0, <3>5 DEF PublishUnit, Publishable, EndRun, FinalizeNext, Leave, GiveUp, Forget, Fenced
    <3>6. CASE ~NoneOpen(u) /\ todo[w] # {u}
      BY <3>0, <3>6 DEF PublishUnit, Publishable, EndRun, FinalizeNext, Leave, GiveUp, Forget, Fenced
    <3> QED
      BY <3>1, <3>2, <3>3, <3>4, <3>5, <3>6
  <2>14. CASE SkipUnit(w)
    BY <2>14 DEF SkipUnit, IsNext, FinalizeNext, Leave, GiveUp, Forget
  <2>15. CASE FinalizationStops(w)
    BY <2>15 DEF FinalizationStops, Leave, GiveUp, Forget
  <2>16. CASE ListRecoverable(w)
    BY <2>16 DEF ListRecoverable, Recoverable, Free
  <2>17. CASE Recover(w)
    <3>1. pc'[w] \notin {"declare", "check"} /\ bound' = bound
      BY <2>17 DEF Recover, AskCancel, Start, EndRun, FinalizeNext, Leave, GiveUp, Forget
    <3>2. \A v \in Workers : v # w => pc'[v] = pc[v] /\ basis'[v] = basis[v] /\ rid'[v] = rid[v] /\ tok'[v] = tok[v]
      BY <2>17 DEF Recover, AskCancel, FinalizeNext, Leave, GiveUp, Forget
    <3>3. \A v \in Workers : v # w /\ Held(v)' => Held(v)
      <4>1. SUFFICES ASSUME NEW v \in Workers, v # w, Held(v)' PROVE Held(v)
        OBVIOUS
      <4>2. rid'[v] = rid[v] /\ tok'[v] = tok[v]
        BY <3>2, <4>1
      <4>3. UNCHANGED <<runId, state, owner, epoch, live>>
        BY <2>17, <4>1, <4>2 DEF Recover, AskCancel, EndRun
      <4> QED
        BY <4>1, <4>2, <4>3
    <3> QED
      BY <3>1, <3>2, <3>3
  <2>18. CASE Crash(w)
    BY <2>18 DEF Crash, GiveUp, Forget
  <2>19. CASE Fault(w)
    BY <2>19 DEF Fault, Leave, GiveUp, Forget
  <2> QED
    BY <1>1, <2>1, <2>2, <2>3, <2>4, <2>5, <2>6, <2>7, <2>8, <2>9, <2>10, <2>11, <2>12, <2>13, <2>14, <2>15, <2>16, <2>17, <2>18, <2>19 DEF WorkerStep
<1>2. CASE OwnerCancels
  BY <1>2 DEF OwnerCancels, AskCancel, Free
<1>3. CASE LeaseExpires
  BY <1>3 DEF LeaseExpires
<1>4. CASE EvidenceArrives
  BY <1>4 DEF EvidenceArrives
<1>5. CASE Withdraw
  BY <1>5 DEF Withdraw, Revoked
<1>6. CASE ParentChanges
  BY <1>6 DEF ParentChanges
<1>7. CASE Erase
  BY <1>7 DEF Erase, Revoked
<1>8. CASE UNCHANGED vars
  BY <1>8 DEF vars, worldVars
<1> QED
  BY <1>1, <1>2, <1>3, <1>4, <1>5, <1>6, <1>7, <1>8 DEF Next, WorldStep

\* Units only move forward, on the evidence the run is bound to.
LEMMA UnitStep ==
    ASSUME TypeOK, BasisInv, UnitInv, [Next]_vars
    PROVE  UnitInv'
<1> USE ConstantsAssumption DEF UnitInv, BasisInv, TypeOK, ExecPcs, UnitStates, rowVars, dataVars, worldVars, localVars, Goto
<1>1. ASSUME NEW w \in Workers, WorkerStep(w) \/ Crash(w) \/ Fault(w)
      PROVE  UnitInv'
  <2>1. CASE Lookup(w)
    BY <2>1 DEF Lookup
  <2>2. CASE Reserve(w)
    BY <2>2 DEF Reserve, GiveUp, Forget
  <2>3. CASE Acquire(w)
    BY <2>3 DEF Acquire, Acquirable, Start, GiveUp, Forget, Name, Free, SameRun
  <2>4. CASE Release(w)
    BY <2>4 DEF Release, GiveUp, Forget, Owns, SameRun
  <2>5. CASE BindInputs(w)
    BY <2>5 DEF BindInputs, BindTo, Fenced, Held, Owns, SameRun
  <2>6. CASE DeclareUnits(w)
    BY <2>6 DEF DeclareUnits, Fenced, Held, Owns, SameRun
  <2>7. CASE CheckpointUnit(w)
    BY <2>7 DEF CheckpointUnit, IsNext, Fenced, Held, Owns, SameRun
  <2>8. CASE ReadyToSeal(w)
    BY <2>8 DEF ReadyToSeal, Fenced, Held, Owns, SameRun
  <2>9. CASE ExecutionFenced(w)
    BY <2>9 DEF ExecutionFenced, Leave, GiveUp, Forget, Fenced, Held, Owns, SameRun
  <2>10. CASE HonourCancel(w)
    BY <2>10 DEF HonourCancel, EndRun, Leave, GiveUp, Forget, Held, Owns, SameRun
  <2>11. CASE FailRun(w)
    BY <2>11 DEF FailRun, EndRun, Leave, GiveUp, Forget, Held, Owns, SameRun
  <2>12. CASE ListUnits(w)
    BY <2>12 DEF ListUnits, Leave, GiveUp, Forget, SameRun
  <2>13. CASE FinalizeUnit(w)
    <3> PICK u \in Units : PublishUnit(w, u)
      BY <2>13 DEF FinalizeUnit
    <3> DEFINE r == [unit |-> u, value |-> results[u], by |-> tok[w]]
    <3>1. /\ units' = [units EXCEPT ![u] = "sealed"]
          /\ published' = published \cup {r}
          /\ bound' = bound /\ results' = results /\ units[u] = "computed"
      BY <2>13 DEF FinalizeUnit, PublishUnit, Publishable
    <3>2. r.unit = u /\ r.value = bound /\ bound # 0
      BY <3>1
    <3> HIDE DEF r
    <3>3. \A v \in Units : units'[v] = "sealed" <=> \E p \in published' : p.unit = v
      BY <3>1, <3>2
    <3>4. \A p \in published' : p.value = bound' /\ bound' # 0
      BY <3>1, <3>2
    <3> QED
      BY <3>1, <3>3, <3>4
  <2>14. CASE SkipUnit(w)
    BY <2>14 DEF SkipUnit, IsNext, FinalizeNext, Leave, GiveUp, Forget
  <2>15. CASE FinalizationStops(w)
    BY <2>15 DEF FinalizationStops, Leave, GiveUp, Forget
  <2>16. CASE ListRecoverable(w)
    BY <2>16 DEF ListRecoverable, Recoverable, Free
  <2>17. CASE Recover(w)
    BY <2>17 DEF Recover, AskCancel, Free, SameRun, GiveUp, Forget
  <2>18. CASE Crash(w)
    BY <2>18 DEF Crash, GiveUp, Forget
  <2>19. CASE Fault(w)
    BY <2>19 DEF Fault, Leave, GiveUp, Forget
  <2> QED
    BY <1>1, <2>1, <2>2, <2>3, <2>4, <2>5, <2>6, <2>7, <2>8, <2>9, <2>10, <2>11, <2>12, <2>13, <2>14, <2>15, <2>16, <2>17, <2>18, <2>19 DEF WorkerStep
<1>2. CASE OwnerCancels
  BY <1>2 DEF OwnerCancels, AskCancel, Free
<1>3. CASE LeaseExpires
  BY <1>3 DEF LeaseExpires
<1>4. CASE EvidenceArrives
  BY <1>4 DEF EvidenceArrives
<1>5. CASE Withdraw
  BY <1>5 DEF Withdraw, Revoked
<1>6. CASE ParentChanges
  BY <1>6 DEF ParentChanges
<1>7. CASE Erase
  BY <1>7 DEF Erase, Revoked
<1>8. CASE UNCHANGED vars
  BY <1>8 DEF vars, worldVars
<1> QED
  BY <1>1, <1>2, <1>3, <1>4, <1>5, <1>6, <1>7, <1>8 DEF Next, WorldStep

\* The last publication is what completes a run.
LEMMA EndStep ==
    ASSUME TypeOK, UnitInv, EndInv, [Next]_vars
    PROVE  EndInv'
<1> USE ConstantsAssumption DEF EndInv, UnitInv, TypeOK, UnitStates, Open, Ended, ExecPcs, rowVars, dataVars, worldVars, localVars, Goto
<1>1. ASSUME NEW w \in Workers, WorkerStep(w) \/ Crash(w) \/ Fault(w)
      PROVE  EndInv'
  <2>1. CASE Lookup(w)
    BY <2>1 DEF Lookup
  <2>2. CASE Reserve(w)
    BY <2>2 DEF Reserve, GiveUp, Forget
  <2>3. CASE Acquire(w)
    BY <2>3 DEF Acquire, Acquirable, Start, GiveUp, Forget, Name, Free, SameRun
  <2>4. CASE Release(w)
    BY <2>4 DEF Release, GiveUp, Forget, Owns, SameRun
  <2>5. CASE BindInputs(w)
    BY <2>5 DEF BindInputs, BindTo, Fenced, Held, Owns, SameRun
  <2>6. CASE DeclareUnits(w)
    BY <2>6 DEF DeclareUnits, Fenced, Held, Owns, SameRun
  <2>7. CASE CheckpointUnit(w)
    BY <2>7 DEF CheckpointUnit, IsNext, Fenced, Held, Owns, SameRun
  <2>8. CASE ReadyToSeal(w)
    BY <2>8 DEF ReadyToSeal, Fenced, Held, Owns, SameRun
  <2>9. CASE ExecutionFenced(w)
    BY <2>9 DEF ExecutionFenced, Leave, GiveUp, Forget, Fenced, Held, Owns, SameRun
  <2>10. CASE HonourCancel(w)
    BY <2>10 DEF HonourCancel, EndRun, Leave, GiveUp, Forget, Held, Owns, SameRun
  <2>11. CASE FailRun(w)
    BY <2>11 DEF FailRun, EndRun, Leave, GiveUp, Forget, Held, Owns, SameRun
  <2>12. CASE ListUnits(w)
    BY <2>12 DEF ListUnits, Leave, GiveUp, Forget, SameRun
  <2>13. CASE FinalizeUnit(w)
    <3> PICK u \in Units : PublishUnit(w, u)
      BY <2>13 DEF FinalizeUnit
    <3>1. /\ units' = [units EXCEPT ![u] = "sealed"] /\ units[u] = "computed"
          /\ published' # {} /\ (state' = "completed" => NoneOpen(u) \/ state = "completed")
      BY <2>13 DEF FinalizeUnit, PublishUnit, Publishable, EndRun
    <3>2. state # "completed"
      BY <2>13 DEF FinalizeUnit, Fenced, Held
    <3>3. ASSUME NoneOpen(u), NEW v \in Units PROVE units'[v] \in {"sealed", "rejected"}
      BY <3>1, <3>3 DEF NoneOpen
    <3> QED
      BY <3>1, <3>2, <3>3
  <2>14. CASE SkipUnit(w)
    BY <2>14 DEF SkipUnit, IsNext, FinalizeNext, Leave, GiveUp, Forget
  <2>15. CASE FinalizationStops(w)
    BY <2>15 DEF FinalizationStops, Leave, GiveUp, Forget
  <2>16. CASE ListRecoverable(w)
    BY <2>16 DEF ListRecoverable, Recoverable, Free
  <2>17. CASE Recover(w)
    BY <2>17 DEF Recover, AskCancel, Free, SameRun, GiveUp, Forget
  <2>18. CASE Crash(w)
    BY <2>18 DEF Crash, GiveUp, Forget
  <2>19. CASE Fault(w)
    BY <2>19 DEF Fault, Leave, GiveUp, Forget
  <2> QED
    BY <1>1, <2>1, <2>2, <2>3, <2>4, <2>5, <2>6, <2>7, <2>8, <2>9, <2>10, <2>11, <2>12, <2>13, <2>14, <2>15, <2>16, <2>17, <2>18, <2>19 DEF WorkerStep
<1>2. CASE OwnerCancels
  BY <1>2 DEF OwnerCancels, AskCancel, Free
<1>3. CASE LeaseExpires
  BY <1>3 DEF LeaseExpires
<1>4. CASE EvidenceArrives
  BY <1>4 DEF EvidenceArrives
<1>5. CASE Withdraw
  BY <1>5 DEF Withdraw, Revoked
<1>6. CASE ParentChanges
  BY <1>6 DEF ParentChanges
<1>7. CASE Erase
  BY <1>7 DEF Erase, Revoked
<1>8. CASE UNCHANGED vars
  BY <1>8 DEF vars, worldVars
<1> QED
  BY <1>1, <1>2, <1>3, <1>4, <1>5, <1>6, <1>7, <1>8 DEF Next, WorldStep

LEMMA InitIInv == Init => IInv
<1> SUFFICES ASSUME Init PROVE IInv
  OBVIOUS
<1> USE ConstantsAssumption DEF Init
<1>1. TypeOK
  <2>1. live \in BOOLEAN /\ cancel \in BOOLEAN
    BY Zenon
  <2> QED
    BY <2>1 DEF TypeOK, Open, Ended, UnitStates, Pcs, Evidence
<1>2. AttemptInv
  BY DEF AttemptInv
<1>3. BasisInv
  BY DEF BasisInv
<1>4. UnitInv /\ EndInv
  BY DEF UnitInv, EndInv
<1> QED
  BY <1>1, <1>2, <1>3, <1>4 DEF IInv

LEMMA StepIInv == IInv /\ [Next]_vars => IInv'
BY TypeStep, AttemptStep, BasisStep, UnitStep, EndStep DEF IInv

\* The inductive invariant holds in every state.
THEOREM Invariance == Spec => []IInv
BY InitIInv, StepIInv, PTL DEF Spec

\* Type correctness.
THEOREM TypeCorrect == Spec => []TypeOK
<1>1. IInv => TypeOK
  BY DEF IInv
<1> QED
  BY <1>1, Invariance, PTL

\* A run and its holder never mix two evidence versions (bind-inputs.ts).
THEOREM EvidenceFixed == Spec => []OneEvidence
<1>1. IInv => OneEvidence
  BY DEF IInv, UnitInv, BasisInv, OneEvidence
<1> QED
  BY <1>1, Invariance, PTL

\* A completed run has published and its units are all decided (finalize.ts).
THEOREM Completion == Spec => []CompletedIsPublished
<1>1. IInv => CompletedIsPublished
  BY DEF IInv, UnitInv, EndInv, CompletedIsPublished
<1> QED
  BY <1>1, Invariance, PTL


\* An attempt that was superseded, or whose run was erased, changes nothing:
\* no fence and no conditional write of it finds its token on the row
\* (lease.ts).
THEOREM Fencing == Spec => SupersededWritesNothing
<1> DEFINE Quiet == \A w \in Workers :
      Superseded(w) /\ <<pc[w], todo[w]>>' # <<pc[w], todo[w]>>
      => UNCHANGED <<rowVars, dataVars>>
<1>1. ASSUME IInv, Next PROVE Quiet
  <2> SUFFICES ASSUME NEW x \in Workers, Superseded(x),
                      <<pc[x], todo[x]>>' # <<pc[x], todo[x]>>
               PROVE  UNCHANGED <<rowVars, dataVars>>
    OBVIOUS
  <2>1. ~Held(x) /\ ~Fenced(x) /\ ~Owns(x)
    BY <1>1 DEF IInv, AttemptInv, TypeOK, Superseded, Held, Fenced, Owns, SameRun
  <2>2. pc[x] \notin {"idle", "reserve", "recover", "acquire"}
    BY <1>1 DEF IInv, AttemptInv, Superseded
  <2>3. ~WorldStep
    BY DEF WorldStep, OwnerCancels, LeaseExpires, EvidenceArrives, Withdraw,
           ParentChanges, Erase, localVars
  <2>4. PICK w \in Workers : WorkerStep(w) \/ Crash(w) \/ Fault(w)
    BY <1>1, <2>3 DEF Next
  <2>5. w = x
    BY <1>1, <2>4 DEF IInv, TypeOK, WorkerStep, Lookup, Reserve, Acquire, Release,
       BindInputs, DeclareUnits, CheckpointUnit, ReadyToSeal, ExecutionFenced,
       HonourCancel, FailRun, ListUnits, FinalizeUnit, PublishUnit, SkipUnit, FinalizationStops,
       ListRecoverable, Recover, Crash, Fault, FinalizeNext, Leave, GiveUp, Forget,
       Goto, localVars
  <2>6. CASE Release(x)
    <3>1. live \in BOOLEAN
      BY <1>1 DEF IInv, TypeOK
    <3>2. live' = (live /\ ~Owns(x))
      BY <2>6 DEF Release
    <3>3. live' = live
      BY <2>1, <3>1, <3>2, Zenon
    <3> QED
      BY <2>6, <3>3 DEF Release, rowVars, dataVars
  <2>7. CASE Crash(x) \/ Fault(x)
    BY <2>7 DEF Crash, Fault
  <2>8. CASE WorkerStep(x) /\ ~Release(x)
    BY <2>1, <2>2, <2>8 DEF WorkerStep, Lookup, Reserve, Acquire, BindInputs,
       DeclareUnits, CheckpointUnit, ReadyToSeal, ExecutionFenced, HonourCancel,
       FailRun, ListUnits, FinalizeUnit, SkipUnit, FinalizationStops,
       ListRecoverable, Recover
  <2> QED
    BY <2>4, <2>5, <2>6, <2>7, <2>8
<1>2. ASSUME IInv, [Next]_vars PROVE [Quiet]_vars
  BY <1>1, <1>2
<1>3. Spec => [][Quiet]_vars
  BY <1>2, Invariance, PTL DEF Spec
<1> QED
  BY <1>3 DEF SupersededWritesNothing


\* The run implements its contract: every step of a worker or of the world is
\* a step of PublicationContract or leaves the contract's variables alone.
THEOREM Refinement == Spec => KeepsContract
<1> USE ConstantsAssumption DEF rowVars, dataVars, worldVars
<1> DEFINE Same == UNCHANGED <<bound, published, cancel, revoked>>
           Kept == UNCHANGED Contract!vars
<1>1. Init => Contract!Init
  BY DEF Init, Contract!Init, Open
<1>2. state' = state /\ Same => Kept
  BY DEF Contract!vars
<1>3. state \in Open /\ state' \in Open /\ Same => Kept
  BY DEF Contract!vars
<1>4. ASSUME state \in Open, AskCancel, UNCHANGED <<bound, published, revoked>>
      PROVE  Contract!Cancel
  <2>1. cancel' = TRUE
    BY <1>4, Zenon DEF AskCancel
  <2>2. state' = state \/ state' = "cancelled"
    BY <1>4 DEF AskCancel
  <2> QED
    BY <1>4, <2>1, <2>2 DEF Contract!Cancel, Open
<1> HIDE DEF Kept
<1>5. ASSUME IInv, NEW w \in Workers, WorkerStep(w) \/ Crash(w) \/ Fault(w)
      PROVE  Contract!Next \/ Kept
  <2>1. CASE Reserve(w)
    <3>1. CASE state = "none" /\ state' = "pending"
      BY <2>1, <3>1 DEF Reserve, Contract!Open, Contract!Next, Open
    <3>2. CASE UNCHANGED rowVars
      BY <2>1, <3>2, <1>2 DEF Reserve
    <3> QED
      BY <2>1, <3>1, <3>2 DEF Reserve
  <2>2. CASE Acquire(w)
    <3>1. Same
      BY <2>2 DEF Acquire
    <3>2. state' = state \/ (state \in Open /\ state' \in Open)
      BY <2>2 DEF Acquire, Acquirable, Open
    <3> QED
      BY <3>1, <3>2, <1>2, <1>3
  <2>3. CASE ReadyToSeal(w)
    BY <2>3, <1>2, <1>3 DEF ReadyToSeal, Fenced, Held, Open
  <2>4. CASE BindInputs(w)
    <3>1. state \in Open /\ ~cancel /\ UNCHANGED <<state, published, cancel, revoked>>
      BY <2>4 DEF BindInputs, Fenced, Held
    <3>2. CASE bound = 0
      <4>1. bound' \in Evidence
        BY <1>5, <2>4, <3>2 DEF BindInputs, BindTo, IInv, TypeOK
      <4> QED
        BY <3>1, <3>2, <4>1 DEF Contract!Fix, Contract!Next
    <3>3. CASE bound # 0
      BY <2>4, <3>1, <3>3, <1>2 DEF BindInputs, BindTo
    <3> QED
      BY <3>2, <3>3
  <2>5. CASE HonourCancel(w)
    <3>1. CASE Held(w)
      <4>1. cancel /\ cancel' = cancel
        BY <1>5, <2>5, <3>1 DEF HonourCancel, EndRun, IInv, AttemptInv, Held, Owns, SameRun
      <4>2. cancel' = TRUE
        BY <1>5, <4>1, Zenon DEF IInv, TypeOK
      <4>3. state \in Open /\ state' = "cancelled" /\ UNCHANGED <<bound, published, revoked>>
        BY <2>5, <3>1 DEF HonourCancel, EndRun, Held
      <4> QED
        BY <4>2, <4>3 DEF Contract!Cancel, Contract!Next, Open
    <3>2. CASE ~Held(w)
      BY <2>5, <3>2, <1>2 DEF HonourCancel
    <3> QED
      BY <3>1, <3>2
  <2>6. CASE FailRun(w)
    <3>1. CASE Held(w)
      BY <2>6, <3>1 DEF FailRun, EndRun, Held, Contract!Fail, Contract!Next, Open
    <3>2. CASE ~Held(w)
      BY <2>6, <3>2, <1>2 DEF FailRun
    <3> QED
      BY <3>1, <3>2
  <2>7. CASE FinalizeUnit(w)
    <3>1. PICK u \in Units : PublishUnit(w, u)
      BY <2>7 DEF FinalizeUnit
    <3>2. state \in Open /\ ~cancel /\ UNCHANGED <<bound, revoked, cancel>>
      BY <2>7, <3>1 DEF FinalizeUnit, PublishUnit, EndRun, Fenced, Held
    <3>3. units[u] = "computed" /\ bound \notin revoked
      BY <3>1 DEF PublishUnit, Publishable
    <3>4. results[u] = bound /\ bound \in Evidence /\ tok[w] \in 0..MaxEpoch
      BY <1>5, <3>3 DEF IInv, TypeOK, UnitInv
    <3>5. \A p \in published : p.unit # u
      BY <1>5, <3>3 DEF IInv, UnitInv
    <3>6. published' = published \cup {[unit |-> u, value |-> bound, by |-> tok[w]]}
      BY <3>1, <3>4 DEF PublishUnit
    <3>7. state' = state \/ state' = "completed"
      BY <3>1 DEF PublishUnit, EndRun
    <3> QED
      BY <3>2, <3>3, <3>4, <3>5, <3>6, <3>7 DEF Contract!Publish, Contract!Next, Open
  <2>8. CASE Recover(w)
    <3>1. CASE SameRun(w) /\ state \in Open /\ AskCancel
      BY <2>8, <3>1, <1>4 DEF Recover, Contract!Next
    <3>2. CASE UNCHANGED rowVars
      BY <2>8, <3>2, <1>2 DEF Recover
    <3> QED
      BY <2>8, <3>1, <3>2 DEF Recover
  <2>9. CASE \/ Lookup(w) \/ Release(w) \/ DeclareUnits(w) \/ CheckpointUnit(w)
             \/ ExecutionFenced(w) \/ ListUnits(w) \/ SkipUnit(w)
             \/ FinalizationStops(w) \/ ListRecoverable(w) \/ Crash(w) \/ Fault(w)
    BY <2>9, <1>2 DEF Lookup, Release, DeclareUnits, CheckpointUnit, ExecutionFenced,
       ListUnits, SkipUnit, FinalizationStops, ListRecoverable, Crash, Fault
  <2> QED
    BY <1>5, <2>1, <2>2, <2>3, <2>4, <2>5, <2>6, <2>7, <2>8, <2>9 DEF WorkerStep
<1>6. ASSUME IInv, WorldStep PROVE Contract!Next \/ Kept
  <2>1. CASE OwnerCancels
    BY <2>1, <1>4 DEF OwnerCancels, Contract!Next
  <2>2. CASE LeaseExpires \/ EvidenceArrives \/ ParentChanges
    BY <2>2, <1>2 DEF LeaseExpires, EvidenceArrives, ParentChanges
  <2>3. CASE Withdraw
    <3>1. \E e \in Evidence : revoked' = revoked \cup {e}
      BY <1>6, <2>3 DEF Withdraw, Revoked, Evidence, IInv, TypeOK
    <3> QED
      BY <2>3, <3>1 DEF Withdraw, Contract!Withdraw, Contract!Next
  <2>4. CASE Erase
    <3>1. revoked' = revoked \/ \E e \in Evidence : revoked' = revoked \cup {e}
      BY <1>6, <2>4 DEF Erase, Revoked, IInv, TypeOK
    <3>2. cancel' = FALSE
      BY <2>4, Zenon DEF Erase
    <3> QED
      BY <2>4, <3>1, <3>2 DEF Erase, Contract!Erase, Contract!Next, Open
  <2> QED
    BY <1>6, <2>1, <2>2, <2>3, <2>4 DEF WorldStep
<1>7. UNCHANGED vars => Kept
  BY <1>2 DEF vars
<1>8. IInv /\ [Next]_vars => [Contract!Next]_(Contract!vars)
  BY <1>5, <1>6, <1>7 DEF Next, Kept
<1> QED
  BY <1>1, <1>8, Invariance, PTL DEF Spec, KeepsContract, Contract!Spec

=============================================================================
