----------------------------- MODULE AgentRuns -----------------------------
(***************************************************************************)
(* The runs of one research agent (services/agents/src, with the route and *)
(* the stages of services/dev-api/src): a run is claimed by inserting its  *)
(* row, reads the evidence its watermark does not name, and commits        *)
(* findings, alerts and the new watermark in one transaction.              *)
(*                                                                         *)
(* A claim is a row with a deadline and nothing more: no statement of the  *)
(* loop looks at it.  A run that outlives its claim is failed by the next  *)
(* one and goes on writing beside it.                                      *)
(***************************************************************************)
EXTENDS Naturals, FiniteSets

CONSTANTS Handlers,   \* requests and queue messages in progress
          Runs,       \* run ids; a message redelivered brings the same one
          Clusters,   \* evidence claims grouped by canonical signature
          NoRun,
          MaxCrashes, MaxFaults   \* bounds on the environment

Docs == UNION Clusters

ASSUME ConstantsAssumption ==
    /\ NoRun \notin Runs
    /\ \A C, D \in Clusters : C # {} /\ (C = D \/ C \cap D = {})

VARIABLES
    exists,           \* the agent's row
    docs,             \* evidence claims in the database
    watermark,        \* agents.watermarks: processed_claim_ids
    status, lapsed,   \* agent_run_logs: status; claim_expires_at has passed
    findings, alerts, \* committed rows, <<run, cluster>>
    pc, run, seen, batch, todo, made, \* per handler: its place and its memory
    held,             \* per handler: cluster rows its transaction has locked
    wrote, swept,     \* history: runs that committed, runs failed by the sweep
    crashes, faults

rows == <<status, lapsed>>
memory == <<run, seen, batch>>
work == <<todo, made, held>>
history == <<wrote, swept>>
bounds == <<crashes, faults>>
vars == <<exists, docs, watermark, rows, findings, alerts, pc, memory, work, history, bounds>>

Init ==
    /\ exists = TRUE /\ docs = {} /\ watermark = {}
    /\ status = [r \in Runs |-> "none"] /\ lapsed = [r \in Runs |-> FALSE]
    /\ findings = {} /\ alerts = {}
    /\ pc = [h \in Handlers |-> "idle"] /\ run = [h \in Handlers |-> NoRun]
    /\ seen = [h \in Handlers |-> {}] /\ batch = [h \in Handlers |-> {}]
    /\ todo = [h \in Handlers |-> {}] /\ made = [h \in Handlers |-> {}]
    /\ held = [h \in Handlers |-> {}]
    /\ wrote = {} /\ swept = {} /\ crashes = 0 /\ faults = 0

Goto(h, place) == pc' = [pc EXCEPT ![h] = place]

-----------------------------------------------------------------------------
(* agent-run-repo.ts: the claim and the two ends of a run.                 *)

\* Mutant: the claim's deadline is never enforced.
NoneStale == {}

Stale == {s \in Runs : status[s] = "running" /\ lapsed[s]}

\* claimAgentRun, first statement (expireStaleAgentRuns): runs whose claim
\* has passed are failed, by whoever asks next.
Sweep(h, r) ==
    /\ pc[h] = "idle" /\ exists
    /\ status' = [s \in Runs |-> IF s \in Stale THEN "failed" ELSE status[s]]
    /\ swept' = swept \cup Stale
    /\ run' = [run EXCEPT ![h] = r]
    /\ Goto(h, "claim")
    /\ UNCHANGED <<exists, docs, watermark, lapsed, findings, alerts, seen, batch, work, wrote, bounds>>

\* Mutant: any run id that is new gets its row.
FreeForAnyNew(r) == status[r] = "none"

\* The primary key, and the unique index on the agent's running row.
Free(r) == status[r] = "none" /\ \A s \in Runs : status[s] # "running"

\* claimAgentRun, second statement.  A refused insert is answered duplicate,
\* concurrency_limit or, when the conflict is gone meanwhile, an error.
Insert(h) ==
    LET r == run[h] IN
    /\ pc[h] = "claim"
    /\ IF Free(r)
       THEN status' = [status EXCEPT ![r] = "running"] /\ run' = run /\ Goto(h, "agent")
       ELSE status' = status /\ run' = [run EXCEPT ![h] = NoRun] /\ Goto(h, "idle")
    /\ UNCHANGED <<exists, docs, watermark, lapsed, findings, alerts, seen, batch, work, history, bounds>>

\* Mutant: the end of a run is written whatever the row says.
WhateverItSays(r) == status[r] # "none"

\* where status='running' and ended_at is null
StillRunning(r) == status[r] = "running"

Settle(h, s) == status' = [status EXCEPT ![run[h]] = s]

Leave(h) ==
    /\ run' = [run EXCEPT ![h] = NoRun] /\ Goto(h, "idle")
    /\ seen' = [seen EXCEPT ![h] = {}] /\ batch' = [batch EXCEPT ![h] = {}]

\* completeAgentRun: no row updated throws, which the caller turns into fail.
\* So does a reply that is lost.
Complete(h, reply) ==
    /\ pc[h] = "complete"
    /\ reply \in BOOLEAN /\ (reply \/ faults < MaxFaults)
    /\ faults' = IF reply THEN faults ELSE faults + 1
    /\ IF StillRunning(run[h]) THEN Settle(h, "completed") ELSE status' = status
    /\ IF StillRunning(run[h]) /\ reply
       THEN Leave(h) ELSE Goto(h, "fail") /\ UNCHANGED memory
    /\ UNCHANGED <<exists, docs, watermark, lapsed, findings, alerts, work, history, crashes>>

\* failAgentRun: when no row is updated it throws out of the handler.
Fail(h) ==
    /\ pc[h] = "fail"
    /\ IF StillRunning(run[h]) THEN Settle(h, "failed") ELSE status' = status
    /\ Leave(h)
    /\ UNCHANGED <<exists, docs, watermark, lapsed, findings, alerts, work, history, bounds>>

-----------------------------------------------------------------------------
(* agent-loop.ts and watermarks.ts, with the stages of local-runtime.ts.   *)

\* The route reads the agent after the claim: its watermark is the run's.
LoadAgent(h) ==
    /\ pc[h] = "agent"
    /\ seen' = [seen EXCEPT ![h] = watermark]
    /\ Goto(h, IF exists THEN "evidence" ELSE "fail")
    /\ UNCHANGED <<exists, docs, watermark, rows, findings, alerts, run, batch, work, history, bounds>>

\* readDeltas and extractEvidence: claims the watermark does not name (the
\* query has a limit); clusterEvidence groups them.
LoadEvidence(h, B) ==
    /\ pc[h] = "evidence"
    /\ B \subseteq docs \ seen[h]
    /\ batch' = [batch EXCEPT ![h] = B]
    /\ Goto(h, "begin")
    /\ UNCHANGED <<exists, docs, watermark, rows, findings, alerts, run, seen, work, history, bounds>>

\* begin, and the first row applySideEffects writes: it refers to the agent,
\* which cannot be deleted from here to the end of the transaction.
Begin(h) ==
    /\ pc[h] = "begin"
    /\ todo' = [todo EXCEPT ![h] = {C \in Clusters : exists /\ C \cap batch[h] # {}}]
    /\ Goto(h, IF exists THEN "tx" ELSE "fail")
    /\ UNCHANGED <<exists, docs, watermark, rows, findings, alerts, memory, made, held, history, bounds>>

\* Mutant: nobody waits for the cluster's row.
NobodyWaits(h, C) == C \in todo[h]

\* upsertClaimCluster keeps the cluster's row locked until the transaction ends.
LockFree(h, C) == C \in todo[h] /\ \A g \in Handlers \ {h} : C \notin held[g]

\* One cluster: lock its row, and create a finding unless one is committed.
Cluster(h, C) ==
    /\ pc[h] = "tx" /\ LockFree(h, C)
    /\ todo' = [todo EXCEPT ![h] = @ \ {C}]
    /\ held' = [held EXCEPT ![h] = @ \cup {C}]
    /\ made' = IF \E f \in findings : f[2] = C THEN made
               ELSE [made EXCEPT ![h] = @ \cup {C}]
    /\ UNCHANGED <<exists, docs, watermark, rows, findings, alerts, pc, memory, history, bounds>>

\* nextWatermarks: what the run read joins what its own watermark named.
NextWatermark(h) == seen[h] \cup batch[h]

Release(h) == /\ todo' = [todo EXCEPT ![h] = {}] /\ made' = [made EXCEPT ![h] = {}]
              /\ held' = [held EXCEPT ![h] = {}]

\* evaluateAgentAlerts (alerts are modelled for the findings a rule matches),
\* the watermark, commit; the reply may be lost, and the handler then fails a
\* run whose work is done.
Commit(h, reply) ==
    LET new == {<<run[h], C>> : C \in made[h]} IN
    /\ pc[h] = "tx" /\ todo[h] = {}
    /\ reply \in BOOLEAN /\ (reply \/ faults < MaxFaults)
    /\ faults' = IF reply THEN faults ELSE faults + 1
    /\ findings' = findings \cup new
    /\ alerts' = alerts \cup new
    /\ watermark' = NextWatermark(h)
    /\ wrote' = wrote \cup {run[h]}
    /\ Release(h)
    /\ Goto(h, IF reply THEN "complete" ELSE "fail")
    /\ UNCHANGED <<exists, docs, rows, memory, swept, crashes>>

\* A stage throws, or a statement fails and the transaction is rolled back;
\* two transactions that wait for each other's cluster end here too.
StageFails(h) ==
    /\ pc[h] \in {"agent", "evidence", "begin", "tx"}
    /\ faults < MaxFaults /\ faults' = faults + 1
    /\ Release(h) /\ Goto(h, "fail")
    /\ UNCHANGED <<exists, docs, watermark, rows, findings, alerts, memory, history, crashes>>

Deadlocked(h) ==
    /\ pc[h] = "tx" /\ todo[h] # {}
    /\ \A C \in todo[h] : ~LockFree(h, C)
    /\ \E g \in Handlers \ {h} : \E C \in held[h] : C \in todo[g]
    /\ Release(h) /\ Goto(h, "fail")
    /\ UNCHANGED <<exists, docs, watermark, rows, findings, alerts, memory, history, bounds>>

-----------------------------------------------------------------------------
(* The environment.                                                        *)

NewEvidence(d) ==
    /\ docs' = docs \cup {d} /\ d \notin docs
    /\ UNCHANGED <<exists, watermark, rows, findings, alerts, pc, memory, work, history, bounds>>

\* Fifteen minutes pass on a running row.
Lapse(r) ==
    /\ status[r] = "running" /\ ~lapsed[r]
    /\ lapsed' = [lapsed EXCEPT ![r] = TRUE]
    /\ UNCHANGED <<exists, docs, watermark, status, findings, alerts, pc, memory, work, history, bounds>>

\* The process dies; its transaction is rolled back, its row stays running.
Crash(h) ==
    /\ pc[h] # "idle" /\ crashes < MaxCrashes
    /\ crashes' = crashes + 1
    /\ Release(h) /\ Leave(h)
    /\ UNCHANGED <<exists, docs, watermark, rows, findings, alerts, history, faults>>

\* The owner deletes the agent: findings and alerts go, the run log stays.
DeleteAgent ==
    /\ exists /\ \A h \in Handlers : pc[h] # "tx"
    /\ exists' = FALSE /\ findings' = {} /\ alerts' = {}
    /\ UNCHANGED <<docs, watermark, rows, pc, memory, work, history, bounds>>

Step(h) ==
    \/ Insert(h) \/ LoadAgent(h) \/ Begin(h) \/ Fail(h) \/ Deadlocked(h)
    \/ \E B \in SUBSET Docs : LoadEvidence(h, B)
    \/ \E C \in Clusters : Cluster(h, C)
    \/ \E reply \in BOOLEAN : Commit(h, reply) \/ Complete(h, reply)

Environment ==
    \/ \E d \in Docs : NewEvidence(d)
    \/ \E r \in Runs : Lapse(r)
    \/ \E h \in Handlers : Crash(h) \/ StageFails(h)
    \/ DeleteAgent

Next ==
    \/ Environment
    \/ \E h \in Handlers : Step(h) \/ \E r \in Runs : Sweep(h, r)

\* Handlers go on, deadlines pass, and while the agent exists somebody asks
\* for it again (nothing else ends the row of a process that died).
FairSpec ==
    /\ Init /\ [][Next]_vars
    /\ \A h \in Handlers : WF_vars(Step(h))
    /\ \A r \in Runs : WF_vars(Lapse(r))
    /\ WF_vars(\E h \in Handlers, r \in Runs : Sweep(h, r))

-----------------------------------------------------------------------------
(* Properties.                                                             *)

\* Whatever overlaps, a cluster gets one finding and one alert of this agent,
\* and evidence the watermark names is in a cluster that has them: nothing is
\* skipped and nothing is told twice, though late runs rewind the watermark.
ExactlyOnce ==
    /\ \A f, g \in findings : f[2] = g[2] => f = g
    /\ alerts = findings
    /\ exists => \A d \in watermark : \E f \in findings : d \in f[2]

\* Only a run that outlived its claim can take evidence off the watermark: as
\* long as none has written, every run adds to what the others recorded.
NoLostUpdate ==
    [][wrote' \cap swept' = {} => watermark \subseteq watermark']_vars

\* A run that ended stays as it ended, and one that is called completed has
\* committed its findings, whichever of its replies was lost.
RowsFinal ==
    [][\A r \in Runs :
        /\ status[r] \in {"completed", "failed"} => status'[r] = status[r]
        /\ status'[r] = "completed" => r \in wrote]_vars

\* The agent keeps its promise to its owner, however its runs overlap, die or
\* fail: findings and what is counted as processed appear together.
Contract == INSTANCE AgentContract WITH
    alive <- exists, log <- status, processed <- watermark,
    published <- wrote, overtaken <- swept

KeepsContract == Contract!Spec

\* No row stays running for ever, not even that of a process that died, so
\* the agent can be run again.
NotStuck == \A r \in Runs : status[r] = "running" ~> (status[r] # "running" \/ ~exists)
=============================================================================
