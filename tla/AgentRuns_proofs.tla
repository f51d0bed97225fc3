-------------------------- MODULE AgentRuns_proofs --------------------------
(***************************************************************************)
(* Proofs about AgentRuns for every set of handlers, run ids and clusters  *)
(* and every bound: one finding per cluster and none skipped, rows that    *)
(* stay as they ended, and no lost update without a run that outlived its  *)
(* claim.                                                                  *)
(*                                                                         *)
(* The argument: a transaction holds the row of every cluster it made a    *)
(* finding for, so no two make one for the same cluster and none is        *)
(* committed meanwhile (LockInv); what a run has read as processed, or has *)
(* taken into its batch, is covered by a committed finding or by the       *)
(* transaction at hand (CoverInv); and of two runs in progress at most one *)
(* still owns the agent's running row (OwnInv).                            *)
(***************************************************************************)
EXTENDS AgentRuns, TLAPS

Places == {"idle", "claim", "agent", "evidence", "begin", "tx", "complete", "fail"}
Reading == {"evidence", "begin", "tx"}
Working == {"agent"} \cup Reading
Started == Working \cup {"complete", "fail"}

TypeInv ==
    /\ exists \in BOOLEAN
    /\ docs \subseteq Docs /\ watermark \subseteq Docs
    /\ status \in [Runs -> {"none", "running", "completed", "failed"}]
    /\ lapsed \in [Runs -> BOOLEAN]
    /\ pc \in [Handlers -> Places]
    /\ run \in [Handlers -> Runs \cup {NoRun}]
    /\ seen \in [Handlers -> SUBSET Docs] /\ batch \in [Handlers -> SUBSET Docs]
    /\ todo \in [Handlers -> SUBSET Clusters] /\ made \in [Handlers -> SUBSET Clusters]
    /\ held \in [Handlers -> SUBSET Clusters]
    /\ wrote \subseteq Runs /\ swept \subseteq Runs
    /\ \A h \in Handlers : pc[h] # "idle" => run[h] \in Runs

\* A transaction and the cluster rows it has locked.
LockInv ==
    /\ \A h \in Handlers :
          /\ pc[h] = "tx" => exists
          /\ pc[h] # "tx" => todo[h] = {} /\ made[h] = {} /\ held[h] = {}
          /\ made[h] \subseteq held[h]
          /\ \A f \in findings : f[2] \notin made[h]
    /\ \A h, g \in Handlers : h # g => held[h] \cap held[g] = {}
    /\ \A f, g \in findings : f[2] = g[2] => f = g
    /\ alerts = findings

Covered(d) == \E f \in findings : d \in f[2]

\* What is recorded as processed, or is about to be, has its finding.
CoverInv ==
    /\ exists => \A d \in watermark : Covered(d)
    /\ \A h \in Handlers :
          exists /\ pc[h] \in Reading => \A d \in seen[h] : Covered(d)
    /\ \A h \in Handlers : pc[h] = "tx" =>
          \A d \in batch[h] : Covered(d) \/ \E C \in todo[h] \cup made[h] : d \in C

\* Whose the running row is, and what its owner has read.
OwnInv ==
    /\ \A r, s \in Runs : status[r] = "running" /\ status[s] = "running" => r = s
    /\ \A r \in Runs : status[r] = "completed" => r \in wrote
    /\ \A h \in Handlers :
          /\ pc[h] \in Started => status[run[h]] # "none"
          /\ pc[h] \in Working => status[run[h]] = "running" \/ run[h] \in swept
          /\ pc[h] = "complete" => run[h] \in wrote
          /\ pc[h] \in Reading /\ wrote \cap swept = {} /\ run[h] \notin swept =>
                watermark \subseteq seen[h]
    /\ \A h, g \in Handlers :
          pc[h] \in Started /\ pc[g] \in Started /\ run[h] = run[g] => h = g

IInv == TypeInv /\ LockInv /\ CoverInv /\ OwnInv

\* Every action keeps the types.
LEMMA TypeStep ==
    ASSUME TypeInv, [Next]_vars
    PROVE  TypeInv'
<1> USE ConstantsAssumption DEF rows, memory, work, history, bounds, Places, Reading, Working, Started
<1>1. ASSUME NEW h \in Handlers, NEW r \in Runs, Sweep(h, r)
      PROVE  TypeInv'
  BY <1>1 DEF Sweep, Stale, Goto, TypeInv
<1>2. ASSUME NEW h \in Handlers, Insert(h)
      PROVE  TypeInv'
  BY <1>2 DEF Insert, Goto, TypeInv
<1>3. ASSUME NEW h \in Handlers, LoadAgent(h)
      PROVE  TypeInv'
  BY <1>3 DEF LoadAgent, Goto, TypeInv
<1>4. ASSUME NEW h \in Handlers, NEW B \in SUBSET Docs, LoadEvidence(h, B)
      PROVE  TypeInv'
  BY <1>4 DEF LoadEvidence, Goto, TypeInv
<1>5. ASSUME NEW h \in Handlers, Begin(h)
      PROVE  TypeInv'
  BY <1>5 DEF Begin, Goto, TypeInv
<1>6. ASSUME NEW h \in Handlers, NEW C \in Clusters, Cluster(h, C)
      PROVE  TypeInv'
  BY <1>6 DEF Cluster, LockFree, TypeInv
<1>7. ASSUME NEW h \in Handlers, NEW reply \in BOOLEAN, Commit(h, reply)
      PROVE  TypeInv'
  BY <1>7 DEF Commit, Release, Goto, NextWatermark, TypeInv
<1>8. ASSUME NEW h \in Handlers, NEW reply \in BOOLEAN, Complete(h, reply)
      PROVE  TypeInv'
  BY <1>8 DEF Complete, Settle, Leave, Goto, TypeInv
<1>9. ASSUME NEW h \in Handlers, Fail(h)
      PROVE  TypeInv'
  BY <1>9 DEF Fail, Settle, Leave, Goto, TypeInv
<1>10. ASSUME NEW h \in Handlers, StageFails(h) \/ Deadlocked(h) \/ Crash(h)
      PROVE  TypeInv'
  BY <1>10 DEF StageFails, Deadlocked, Crash, Release, Leave, Goto, TypeInv
<1>11. ASSUME NEW d \in Docs, NewEvidence(d)
      PROVE  TypeInv'
  BY <1>11 DEF NewEvidence, TypeInv
<1>12. ASSUME NEW s \in Runs, Lapse(s)
      PROVE  TypeInv'
  BY <1>12 DEF Lapse, TypeInv
<1>13. CASE DeleteAgent
  BY <1>13 DEF DeleteAgent, TypeInv
<1>14. CASE UNCHANGED vars
  BY <1>14 DEF vars, TypeInv
<1> QED
  BY <1>1, <1>2, <1>3, <1>4, <1>5, <1>6, <1>7, <1>8, <1>9, <1>10, <1>11, <1>12, <1>13, <1>14 DEF Next, Environment, Step

\* A finding in the making is protected by its cluster's row.
LEMMA LockStep ==
    ASSUME TypeInv, LockInv, [Next]_vars
    PROVE  LockInv'
<1> USE ConstantsAssumption DEF rows, memory, work, history, bounds, Places, Reading, Working, Started
<1>1. ASSUME NEW h \in Handlers, NEW r \in Runs, Sweep(h, r)
      PROVE  LockInv'
  BY <1>1 DEF Sweep, Stale, Goto, TypeInv, LockInv
<1>2. ASSUME NEW h \in Handlers, Insert(h)
      PROVE  LockInv'
  BY <1>2 DEF Insert, Goto, TypeInv, LockInv
<1>3. ASSUME NEW h \in Handlers, LoadAgent(h)
      PROVE  LockInv'
  BY <1>3 DEF LoadAgent, Goto, TypeInv, LockInv
<1>4. ASSUME NEW h \in Handlers, NEW B \in SUBSET Docs, LoadEvidence(h, B)
      PROVE  LockInv'
  BY <1>4 DEF LoadEvidence, Goto, TypeInv, LockInv
<1>5. ASSUME NEW h \in Handlers, Begin(h)
      PROVE  LockInv'
  BY <1>5 DEF Begin, Goto, TypeInv, LockInv
<1>6. ASSUME NEW h \in Handlers, NEW C \in Clusters, Cluster(h, C)
      PROVE  LockInv'
  BY <1>6 DEF Cluster, LockFree, TypeInv, LockInv
<1>7. ASSUME NEW h \in Handlers, NEW reply \in BOOLEAN, Commit(h, reply)
      PROVE  LockInv'
  BY <1>7 DEF Commit, Release, Goto, NextWatermark, TypeInv, LockInv
<1>8. ASSUME NEW h \in Handlers, NEW reply \in BOOLEAN, Complete(h, reply)
      PROVE  LockInv'
  BY <1>8 DEF Complete, Settle, Leave, Goto, TypeInv, LockInv
<1>9. ASSUME NEW h \in Handlers, Fail(h)
      PROVE  LockInv'
  BY <1>9 DEF Fail, Settle, Leave, Goto, TypeInv, LockInv
<1>10. ASSUME NEW h \in Handlers, StageFails(h) \/ Deadlocked(h) \/ Crash(h)
      PROVE  LockInv'
  BY <1>10 DEF StageFails, Deadlocked, Crash, Release, Leave, Goto, TypeInv, LockInv
<1>11. ASSUME NEW d \in Docs, NewEvidence(d)
      PROVE  LockInv'
  BY <1>11 DEF NewEvidence, TypeInv, LockInv
<1>12. ASSUME NEW s \in Runs, Lapse(s)
      PROVE  LockInv'
  BY <1>12 DEF Lapse, TypeInv, LockInv
<1>13. CASE DeleteAgent
  BY <1>13 DEF DeleteAgent, TypeInv, LockInv
<1>14. CASE UNCHANGED vars
  BY <1>14 DEF vars, TypeInv, LockInv
<1> QED
  BY <1>1, <1>2, <1>3, <1>4, <1>5, <1>6, <1>7, <1>8, <1>9, <1>10, <1>11, <1>12, <1>13, <1>14 DEF Next, Environment, Step

\* Nothing is recorded as processed without its finding.
LEMMA CoverStep ==
    ASSUME TypeInv, LockInv, CoverInv, [Next]_vars
    PROVE  CoverInv'
<1> USE ConstantsAssumption DEF rows, memory, work, history, bounds, Places, Reading, Working, Started
<1>1. ASSUME NEW h \in Handlers, NEW r \in Runs, Sweep(h, r)
      PROVE  CoverInv'
  BY <1>1 DEF Sweep, Stale, Goto, TypeInv, LockInv, CoverInv, Covered
<1>2. ASSUME NEW h \in Handlers, Insert(h)
      PROVE  CoverInv'
  BY <1>2 DEF Insert, Goto, TypeInv, LockInv, CoverInv, Covered
<1>3. ASSUME NEW h \in Handlers, LoadAgent(h)
      PROVE  CoverInv'
  BY <1>3 DEF LoadAgent, Goto, TypeInv, LockInv, CoverInv, Covered
<1>4. ASSUME NEW h \in Handlers, NEW B \in SUBSET Docs, LoadEvidence(h, B)
      PROVE  CoverInv'
  BY <1>4 DEF LoadEvidence, Goto, TypeInv, LockInv, CoverInv, Covered
<1>5. ASSUME NEW h \in Handlers, Begin(h)
      PROVE  CoverInv'
  <2>1. ASSUME exists, NEW d \in batch[h]
        PROVE  \E C \in todo'[h] : d \in C
    <3>1. PICK C \in Clusters : d \in C
      BY <2>1 DEF TypeInv, Docs
    <3>2. C \in todo'[h]
      BY <1>5, <2>1, <3>1 DEF Begin, TypeInv
    <3> QED
      BY <3>1, <3>2
  <2>2. CASE exists
    BY <1>5, <2>1, <2>2 DEF Begin, Goto, TypeInv, LockInv, CoverInv, Covered
  <2>3. CASE ~exists
    BY <1>5, <2>3 DEF Begin, Goto, TypeInv, LockInv, CoverInv, Covered
  <2> QED
    BY <2>2, <2>3
<1>6. ASSUME NEW h \in Handlers, NEW C \in Clusters, Cluster(h, C)
      PROVE  CoverInv'
  BY <1>6 DEF Cluster, LockFree, TypeInv, LockInv, CoverInv, Covered
<1>7. ASSUME NEW h \in Handlers, NEW reply \in BOOLEAN, Commit(h, reply)
      PROVE  CoverInv'
  <2>1. ASSUME NEW d, Covered(d)
        PROVE  Covered(d)'
    BY <1>7, <2>1 DEF Commit, Covered
  <2>2. ASSUME NEW C \in made[h], NEW d \in C
        PROVE  Covered(d)'
    <3>1. <<run[h], C>> \in findings'
      BY <1>7, <2>2 DEF Commit
    <3> QED
      BY <2>2, <3>1 DEF Covered
  <2>3. todo[h] = {} /\ exists /\ exists' = exists /\ pc[h] = "tx"
    BY <1>7 DEF Commit, LockInv
  <2>4. \A d \in batch[h] : Covered(d)'
    BY <2>1, <2>2, <2>3 DEF CoverInv
  <2>5. \A d \in seen[h] : Covered(d)'
    BY <2>1, <2>3 DEF CoverInv
  <2>6. \A d \in watermark' : Covered(d)'
    BY <1>7, <2>4, <2>5 DEF Commit, NextWatermark
  <2>7. ASSUME NEW g \in Handlers, pc'[g] \in Reading
        PROVE  /\ g # h /\ pc'[g] = pc[g] /\ seen'[g] = seen[g] /\ batch'[g] = batch[g]
               /\ todo'[g] = todo[g] /\ made'[g] = made[g]
    BY <1>7, <2>7 DEF Commit, Goto, Release, TypeInv
  <2>8. ASSUME NEW g \in Handlers, pc'[g] \in Reading, NEW d \in seen'[g]
        PROVE  Covered(d)'
    BY <2>1, <2>3, <2>7, <2>8 DEF CoverInv
  <2>9. ASSUME NEW g \in Handlers, pc'[g] = "tx", NEW d \in batch'[g]
        PROVE  Covered(d)' \/ \E C \in todo'[g] \cup made'[g] : d \in C
    BY <2>1, <2>7, <2>9 DEF CoverInv
  <2> QED
    BY <2>6, <2>8, <2>9 DEF CoverInv
<1>8. ASSUME NEW h \in Handlers, NEW reply \in BOOLEAN, Complete(h, reply)
      PROVE  CoverInv'
  BY <1>8 DEF Complete, Settle, Leave, Goto, TypeInv, LockInv, CoverInv, Covered
<1>9. ASSUME NEW h \in Handlers, Fail(h)
      PROVE  CoverInv'
  BY <1>9 DEF Fail, Settle, Leave, Goto, TypeInv, LockInv, CoverInv, Covered
<1>10. ASSUME NEW h \in Handlers, StageFails(h) \/ Deadlocked(h) \/ Crash(h)
      PROVE  CoverInv'
  BY <1>10 DEF StageFails, Deadlocked, Crash, Release, Leave, Goto, TypeInv, LockInv, CoverInv, Covered
<1>11. ASSUME NEW d \in Docs, NewEvidence(d)
      PROVE  CoverInv'
  BY <1>11 DEF NewEvidence, TypeInv, LockInv, CoverInv, Covered
<1>12. ASSUME NEW s \in Runs, Lapse(s)
      PROVE  CoverInv'
  BY <1>12 DEF Lapse, TypeInv, LockInv, CoverInv, Covered
<1>13. CASE DeleteAgent
  BY <1>13 DEF DeleteAgent, TypeInv, LockInv, CoverInv, Covered
<1>14. CASE UNCHANGED vars
  BY <1>14 DEF vars, TypeInv, LockInv, CoverInv, Covered
<1> QED
  BY <1>1, <1>2, <1>3, <1>4, <1>5, <1>6, <1>7, <1>8, <1>9, <1>10, <1>11, <1>12, <1>13, <1>14 DEF Next, Environment, Step

\* The running row has one owner, and the owner has read the latest watermark.
LEMMA OwnStep ==
    ASSUME TypeInv, OwnInv, [Next]_vars
    PROVE  OwnInv'
<1> USE ConstantsAssumption DEF rows, memory, work, history, bounds, Places, Reading, Working, Started
<1>1. ASSUME NEW h \in Handlers, NEW r \in Runs, Sweep(h, r)
      PROVE  OwnInv'
  BY <1>1 DEF Sweep, Stale, Goto, TypeInv, OwnInv
<1>2. ASSUME NEW h \in Handlers, Insert(h)
      PROVE  OwnInv'
  <2>1. CASE Free(run[h])
    <3>1. /\ status' = [status EXCEPT ![run[h]] = "running"]
          /\ pc' = [pc EXCEPT ![h] = "agent"] /\ pc[h] = "claim" /\ run[h] \in Runs
          /\ UNCHANGED <<run, seen, watermark, wrote, swept>>
      BY <1>2, <2>1 DEF Insert, Goto, TypeInv
    <3>2. status[run[h]] = "none" /\ \A s \in Runs : status[s] # "running"
      BY <2>1 DEF Free
    <3>3. \A g \in Handlers : g # h /\ pc[g] \in Started => run[g] # run[h] /\ run[g] \in Runs
      BY <3>2 DEF TypeInv, OwnInv
    <3> QED
      BY <3>1, <3>2, <3>3 DEF TypeInv, OwnInv
  <2>2. CASE ~Free(run[h])
    BY <1>2, <2>2 DEF Insert, Goto, TypeInv, OwnInv
  <2> QED
    BY <2>1, <2>2
<1>3. ASSUME NEW h \in Handlers, LoadAgent(h)
      PROVE  OwnInv'
  BY <1>3 DEF LoadAgent, Goto, TypeInv, OwnInv
<1>4. ASSUME NEW h \in Handlers, NEW B \in SUBSET Docs, LoadEvidence(h, B)
      PROVE  OwnInv'
  BY <1>4 DEF LoadEvidence, Goto, TypeInv, OwnInv
<1>5. ASSUME NEW h \in Handlers, Begin(h)
      PROVE  OwnInv'
  BY <1>5 DEF Begin, Goto, TypeInv, OwnInv
<1>6. ASSUME NEW h \in Handlers, NEW C \in Clusters, Cluster(h, C)
      PROVE  OwnInv'
  BY <1>6 DEF Cluster, LockFree, TypeInv, OwnInv
<1>7. ASSUME NEW h \in Handlers, NEW reply \in BOOLEAN, Commit(h, reply)
      PROVE  OwnInv'
  BY <1>7 DEF Commit, Release, Goto, NextWatermark, TypeInv, OwnInv
<1>8. ASSUME NEW h \in Handlers, NEW reply \in BOOLEAN, Complete(h, reply)
      PROVE  OwnInv'
  BY <1>8 DEF Complete, Settle, Leave, Goto, TypeInv, OwnInv
<1>9. ASSUME NEW h \in Handlers, Fail(h)
      PROVE  OwnInv'
  BY <1>9 DEF Fail, Settle, Leave, Goto, TypeInv, OwnInv
<1>10. ASSUME NEW h \in Handlers, StageFails(h) \/ Deadlocked(h) \/ Crash(h)
      PROVE  OwnInv'
  BY <1>10 DEF StageFails, Deadlocked, Crash, Release, Leave, Goto, TypeInv, OwnInv
<1>11. ASSUME NEW d \in Docs, NewEvidence(d)
      PROVE  OwnInv'
  BY <1>11 DEF NewEvidence, TypeInv, OwnInv
<1>12. ASSUME NEW s \in Runs, Lapse(s)
      PROVE  OwnInv'
  BY <1>12 DEF Lapse, TypeInv, OwnInv
<1>13. CASE DeleteAgent
  BY <1>13 DEF DeleteAgent, TypeInv, OwnInv
<1>14. CASE UNCHANGED vars
  BY <1>14 DEF vars, TypeInv, OwnInv
<1> QED
  BY <1>1, <1>2, <1>3, <1>4, <1>5, <1>6, <1>7, <1>8, <1>9, <1>10, <1>11, <1>12, <1>13, <1>14 DEF Next, Environment, Step

\* The four parts together are inductive.
LEMMA IInvariance == FairSpec => []IInv
<1>1. Init => IInv
  BY ConstantsAssumption DEF Init, IInv, TypeInv, LockInv, CoverInv, OwnInv,
     Places, Reading, Working, Started
<1>2. IInv /\ [Next]_vars => IInv'
  BY TypeStep, LockStep, CoverStep, OwnStep DEF IInv
<1> QED
  BY <1>1, <1>2, PTL DEF FairSpec

\* However runs overlap, a cluster gets one finding and one alert, and every
\* piece of evidence the watermark names is in a cluster that has them.
THEOREM FindingsOnce == FairSpec => []ExactlyOnce
<1>1. IInv => ExactlyOnce
  BY DEF IInv, LockInv, CoverInv, Covered, ExactlyOnce
<1> QED
  BY <1>1, IInvariance, PTL

\* Which operations write the watermark and the run rows.
LEMMA Writers ==
    ASSUME [Next]_vars
    PROVE  /\ \/ watermark' = watermark
              \/ \E h \in Handlers, reply \in BOOLEAN : Commit(h, reply)
           /\ \/ status' = status
              \/ \E h \in Handlers :
                    \/ Insert(h) \/ Fail(h) \/ \E r \in Runs : Sweep(h, r)
                    \/ \E reply \in BOOLEAN : Complete(h, reply)
<1> USE DEF rows, memory, work, history, bounds
<1> DEFINE Same == watermark' = watermark /\ status' = status
<1>1. ASSUME NEW h \in Handlers, LoadAgent(h) \/ Begin(h) \/ StageFails(h) \/ Deadlocked(h) \/ Crash(h)
      PROVE  Same
  BY <1>1 DEF LoadAgent, Begin, StageFails, Deadlocked, Crash
<1>2. ASSUME NEW h \in Handlers, NEW B \in SUBSET Docs, LoadEvidence(h, B)
      PROVE  Same
  BY <1>2 DEF LoadEvidence
<1>3. ASSUME NEW h \in Handlers, NEW C \in Clusters, Cluster(h, C)
      PROVE  Same
  BY <1>3 DEF Cluster
<1>4. ASSUME NEW h \in Handlers, NEW reply \in BOOLEAN, Commit(h, reply)
      PROVE  status' = status
  BY <1>4 DEF Commit
<1>5. ASSUME NEW h \in Handlers, NEW reply \in BOOLEAN, Complete(h, reply)
      PROVE  watermark' = watermark
  BY <1>5 DEF Complete
<1>6. ASSUME NEW h \in Handlers, Insert(h) \/ Fail(h) \/ \E r \in Runs : Sweep(h, r)
      PROVE  watermark' = watermark
  BY <1>6 DEF Insert, Fail, Sweep
<1>7. ASSUME NEW d \in Docs, NewEvidence(d)
      PROVE  Same
  BY <1>7 DEF NewEvidence
<1>8. ASSUME NEW r \in Runs, Lapse(r)
      PROVE  Same
  BY <1>8 DEF Lapse
<1>9. CASE DeleteAgent \/ UNCHANGED vars
  BY <1>9 DEF DeleteAgent, vars
<1> QED
  BY <1>1, <1>2, <1>3, <1>4, <1>5, <1>6, <1>7, <1>8, <1>9 DEF Next, Environment, Step

\* While no run that outlived its claim has written, the watermark only grows:
\* of two runs in progress one has been failed by the sweep.
THEOREM UpdatesKept == FairSpec => NoLostUpdate
<1>1. ASSUME IInv, [Next]_vars, wrote' \cap swept' = {}
      PROVE  watermark \subseteq watermark'
  <2>1. ASSUME NEW h \in Handlers, NEW reply \in BOOLEAN, Commit(h, reply)
        PROVE  watermark \subseteq watermark'
    <3>1. run[h] \notin swept /\ wrote \cap swept = {} /\ pc[h] = "tx"
      BY <1>1, <2>1 DEF Commit
    <3>2. watermark \subseteq seen[h]
      BY <1>1, <3>1 DEF IInv, OwnInv, Reading
    <3> QED
      BY <2>1, <3>2 DEF Commit, NextWatermark
  <2> QED
    BY <1>1, <2>1, Writers
<1>2. IInv /\ [Next]_vars => [wrote' \cap swept' = {} => watermark \subseteq watermark']_vars
  BY <1>1
<1> QED
  BY <1>2, IInvariance, PTL DEF FairSpec, NoLostUpdate

\* A row that has ended is written no more, and completed means committed.
THEOREM EndsKept == FairSpec => RowsFinal
<1>1. ASSUME IInv, [Next]_vars, NEW r \in Runs, status[r] \in {"completed", "failed"}
      PROVE  status'[r] = status[r]
  <2>1. ASSUME NEW h \in Handlers, Insert(h)
        PROVE  status'[r] = status[r]
    BY <1>1, <2>1 DEF Insert, Free, IInv, TypeInv
  <2>2. ASSUME NEW h \in Handlers, Fail(h)
        PROVE  status'[r] = status[r]
    BY <1>1, <2>2 DEF Fail, StillRunning, Settle, IInv, TypeInv
  <2>3. ASSUME NEW h \in Handlers, NEW s \in Runs, Sweep(h, s)
        PROVE  status'[r] = status[r]
    BY <1>1, <2>3 DEF Sweep, Stale, IInv, TypeInv
  <2>4. ASSUME NEW h \in Handlers, NEW reply \in BOOLEAN, Complete(h, reply)
        PROVE  status'[r] = status[r]
    BY <1>1, <2>4 DEF Complete, StillRunning, Settle, IInv, TypeInv
  <2> QED
    BY <1>1, <2>1, <2>2, <2>3, <2>4, Writers
<1>2. ASSUME IInv, [Next]_vars, NEW r \in Runs, status'[r] = "completed"
      PROVE  r \in wrote
  <2>1. ASSUME NEW h \in Handlers, Insert(h) \/ Fail(h)
        PROVE  r \in wrote
    BY <1>2, <2>1 DEF Insert, Fail, Settle, IInv, TypeInv, OwnInv
  <2>2. ASSUME NEW h \in Handlers, NEW s \in Runs, Sweep(h, s)
        PROVE  r \in wrote
    BY <1>2, <2>2 DEF Sweep, Stale, IInv, TypeInv, OwnInv
  <2>3. ASSUME NEW h \in Handlers, NEW reply \in BOOLEAN, Complete(h, reply)
        PROVE  r \in wrote
    BY <1>2, <2>3 DEF Complete, Settle, IInv, TypeInv, OwnInv
  <2>4. CASE status' = status
    BY <1>2, <2>4 DEF IInv, OwnInv
  <2> QED
    BY <1>2, <2>1, <2>2, <2>3, <2>4, Writers
<1>3. IInv /\ [Next]_vars =>
        [\A r \in Runs :
            /\ status[r] \in {"completed", "failed"} => status'[r] = status[r]
            /\ status'[r] = "completed" => r \in wrote]_vars
  BY <1>1, <1>2
<1> QED
  BY <1>3, IInvariance, PTL DEF FairSpec, RowsFinal

-----------------------------------------------------------------------------
(* The agent implements its contract.                                      *)

Unseen == UNCHANGED <<exists, status, findings, watermark, wrote, swept>>

\* A commit publishes what the transaction made, all of it new, and covers all
\* that its watermark names.
LEMMA CommitPublishes ==
    ASSUME IInv, IInv', NEW h \in Handlers, NEW reply \in BOOLEAN, Commit(h, reply)
    PROVE  Contract!Publish(run[h])
<1> DEFINE r == run[h]
<1>1. r \in Runs /\ exists /\ made[h] \in SUBSET Clusters
  BY DEF Commit, IInv, TypeInv, LockInv
<1>2. status[r] # "none"
  BY DEF Commit, IInv, OwnInv, Started, Working, Reading
<1>3. findings' = findings \cup ({r} \X made[h])
  <2>1. {<<r, C>> : C \in made[h]} = {r} \X made[h]
    OBVIOUS
  <2> QED
    BY <2>1 DEF Commit
<1>4. \A C \in made[h] : ~Contract!Told(C)
  BY DEF IInv, LockInv, Contract!Told
<1>5. \A d \in watermark' : \E f \in findings' : d \in f[2]
  <2>1. exists'
    BY <1>1 DEF Commit
  <2> QED
    BY <2>1 DEF IInv, CoverInv, Covered
<1>6. wrote' = wrote \cup {r} /\ UNCHANGED <<exists, status, swept>>
  BY DEF Commit, rows
<1>7. ASSUME wrote' \cap swept = {} PROVE watermark \subseteq watermark'
  <2>1. wrote \cap swept = {} /\ r \notin swept
    BY <1>6, <1>7
  <2>2. watermark \subseteq seen[h]
    BY <2>1 DEF Commit, IInv, OwnInv, Reading
  <2> QED
    BY <2>2 DEF Commit, NextWatermark
<1> QED
  BY <1>1, <1>2, <1>3, <1>4, <1>5, <1>6, <1>7 DEF Contract!Publish

\* The sweep overtakes the run whose row is running, if there is one.
LEMMA SweepOvertakes ==
    ASSUME IInv, NEW h \in Handlers, NEW r \in Runs, Sweep(h, r)
    PROVE  (\E s \in Runs : Contract!Fail(s)) \/ Unseen
<1>1. /\ status' = [s \in Runs |-> IF s \in Stale THEN "failed" ELSE status[s]]
      /\ swept' = swept \cup Stale
      /\ UNCHANGED <<exists, findings, watermark, wrote>>
  BY DEF Sweep
<1>2. status \in [Runs -> {"none", "running", "completed", "failed"}]
  BY DEF IInv, TypeInv
<1>3. CASE Stale = {}
  <2>1. status' = status
    BY <1>1, <1>2, <1>3
  <2> QED
    BY <1>1, <1>3, <2>1 DEF Unseen
<1>4. CASE Stale # {}
  <2>1. PICK s \in Runs : s \in Stale
    BY <1>4 DEF Stale
  <2>2. Stale = {s} /\ status[s] = "running"
    BY <2>1 DEF Stale, IInv, OwnInv
  <2>3. status' = [status EXCEPT ![s] = "failed"]
    BY <1>1, <1>2, <2>2
  <2>4. swept' = swept \cup {s}
    BY <1>1, <2>2
  <2> QED
    BY <1>1, <2>2, <2>3, <2>4 DEF Contract!Fail
<1> QED
  BY <1>3, <1>4

\* However its runs overlap, are redelivered, swept, rolled back or killed,
\* every step of the agent is a step of AgentContract or one it does not see.
THEOREM Refinement == FairSpec => KeepsContract
<1> USE DEF rows, memory, work, history, bounds
<1>1. Init => Contract!Init
  BY DEF Init, Contract!Init
<1>2. Unseen => UNCHANGED Contract!vars
  BY DEF Unseen, Contract!vars
<1>3. ASSUME IInv, IInv', [Next]_vars
      PROVE  Contract!Next \/ Unseen
  <2>1. ASSUME NEW h \in Handlers, LoadAgent(h) \/ Begin(h) \/ StageFails(h) \/ Deadlocked(h) \/ Crash(h)
        PROVE  Unseen
    BY <2>1 DEF LoadAgent, Begin, StageFails, Deadlocked, Crash, Unseen
  <2>2. ASSUME NEW h \in Handlers, NEW B \in SUBSET Docs, LoadEvidence(h, B)
        PROVE  Unseen
    BY <2>2 DEF LoadEvidence, Unseen
  <2>3. ASSUME NEW h \in Handlers, NEW C \in Clusters, Cluster(h, C)
        PROVE  Unseen
    BY <2>3 DEF Cluster, Unseen
  <2>4. ASSUME NEW h \in Handlers, NEW reply \in BOOLEAN, Commit(h, reply)
        PROVE  Contract!Next
    <3>1. run[h] \in Runs
      BY <1>3, <2>4 DEF Commit, IInv, TypeInv
    <3> QED
      BY <1>3, <2>4, <3>1, CommitPublishes DEF Contract!Next
  <2>5. ASSUME NEW h \in Handlers, NEW reply \in BOOLEAN, Complete(h, reply)
        PROVE  Contract!Next \/ Unseen
    <3>1. run[h] \in Runs /\ run[h] \in wrote
      BY <1>3, <2>5 DEF Complete, IInv, TypeInv, OwnInv
    <3>2. CASE StillRunning(run[h])
      BY <2>5, <3>1, <3>2 DEF Complete, StillRunning, Settle, Contract!Complete, Contract!Next
    <3>3. CASE ~StillRunning(run[h])
      BY <2>5, <3>3 DEF Complete, Unseen
    <3> QED
      BY <3>2, <3>3
  <2>6. ASSUME NEW h \in Handlers, Fail(h)
        PROVE  Contract!Next \/ Unseen
    <3>1. run[h] \in Runs
      BY <1>3, <2>6 DEF Fail, IInv, TypeInv
    <3>2. CASE StillRunning(run[h])
      BY <2>6, <3>1, <3>2 DEF Fail, StillRunning, Settle, Contract!Fail, Contract!Next
    <3>3. CASE ~StillRunning(run[h])
      BY <2>6, <3>3 DEF Fail, Unseen
    <3> QED
      BY <3>2, <3>3
  <2>7. ASSUME NEW h \in Handlers, Insert(h)
        PROVE  Contract!Next \/ Unseen
    <3>1. run[h] \in Runs
      BY <1>3, <2>7 DEF Insert, IInv, TypeInv
    <3>2. CASE Free(run[h])
      BY <2>7, <3>1, <3>2 DEF Insert, Free, Contract!Start, Contract!Next
    <3>3. CASE ~Free(run[h])
      BY <2>7, <3>3 DEF Insert, Unseen
    <3> QED
      BY <3>2, <3>3
  <2>8. ASSUME NEW h \in Handlers, NEW r \in Runs, Sweep(h, r)
        PROVE  Contract!Next \/ Unseen
    BY <1>3, <2>8, SweepOvertakes DEF Contract!Next
  <2>9. ASSUME NEW d \in Docs, NewEvidence(d)
        PROVE  Unseen
    BY <2>9 DEF NewEvidence, Unseen
  <2>10. ASSUME NEW r \in Runs, Lapse(r)
        PROVE  Unseen
    BY <2>10 DEF Lapse, Unseen
  <2>11. CASE DeleteAgent
    BY <2>11 DEF DeleteAgent, Contract!Delete, Contract!Next
  <2>12. CASE UNCHANGED vars
    BY <2>12 DEF vars, Unseen
  <2> QED
    BY <1>3, <2>1, <2>2, <2>3, <2>4, <2>5, <2>6, <2>7, <2>8, <2>9, <2>10, <2>11, <2>12
    DEF Next, Environment, Step
<1>4. IInv /\ IInv' /\ [Next]_vars => [Contract!Next]_Contract!vars
  BY <1>2, <1>3
<1> QED
  BY <1>1, <1>4, IInvariance, PTL DEF FairSpec, KeepsContract, Contract!Spec
=============================================================================
