------------------------- MODULE DiscoveryCampaigns ------------------------
(***************************************************************************)
(* The campaigns of one user (services/discovery/src): versions of the     *)
(* brief, drafts a model proposes under a lock of 90 seconds, the start of *)
(* runs, the queue workers claim them from, and deletion.                  *)
(*                                                                         *)
(* Starting and deleting lock the user's row first and a claim skips a     *)
(* run whose user is locked; saving a brief and the draft lock take only   *)
(* the campaign's row.  So at most one of the long transactions is open:   *)
(* `open`, shown between its checks and its writes.                        *)
(***************************************************************************)
EXTENDS Naturals

CONSTANTS Campaigns, Keys,   \* request keys clients choose
          Drafts,            \* draft requests; each has a fresh token
          None,
          MaxVersion         \* bound: versions of a brief

ASSUME ConstantsAssumption == None \notin Campaigns \cup Drafts

VARIABLES
    exists, version, approved,   \* discovery_campaigns, discovery_briefs
    runs,                        \* discovery_runs, by campaign and request key
    lock, fresh,                 \* per campaign: draft_lock_token, not yet over
    open,                        \* the start or deletion in progress
    step, at, base, drafted,     \* per draft: its place, campaign, base version, outcome
    overtaken                    \* history: drafts whose lock another draft took

campaigns == <<exists, version, approved>>
locks == <<lock, fresh>>
drafts == <<step, at, base, drafted, overtaken>>
vars == <<campaigns, runs, locks, open, drafts>>

Requests == Campaigns \X Keys
NoRun == [status |-> "none", brief |-> 0, leased |-> FALSE]
NoTx == [op |-> "none"]

Init ==
    /\ exists = [c \in Campaigns |-> TRUE] /\ version = [c \in Campaigns |-> 0]
    /\ approved = [c \in Campaigns |-> {}]
    /\ runs = [q \in Requests |-> NoRun]
    /\ lock = [c \in Campaigns |-> None] /\ fresh = [c \in Campaigns |-> FALSE]
    /\ open = NoTx
    /\ step = [d \in Drafts |-> "idle"] /\ at = [d \in Drafts |-> None]
    /\ base = [d \in Drafts |-> 0] /\ drafted = [d \in Drafts |-> "none"]
    /\ overtaken = {}

Active(q) == runs[q].status \in {"queued", "running"}
Live(q) == runs[q].status = "running" /\ runs[q].leased

\* Mutant: the campaign is read without a lock.
NeverLocked(c) == FALSE

\* select ... from discovery_campaigns ... for update, by the open transaction
CampaignLocked(c) == open # NoTx /\ open.campaign = c

-----------------------------------------------------------------------------
(* campaign-repo.ts saveBrief; run-repo.ts startRun.                       *)

SaveBrief(c) ==
    /\ exists[c] /\ ~CampaignLocked(c) /\ version[c] < MaxVersion
    /\ version' = [version EXCEPT ![c] = @ + 1]
    /\ UNCHANGED <<exists, approved, runs, locks, open, drafts>>

\* A known key returns its run, or request_conflict; a brief that is not the
\* current one is stale.  Neither changes anything.  A new key approves the brief.
StartCheck(c, k, v) ==
    /\ open = NoTx /\ exists[c]
    /\ runs[<<c, k>>].status = "none" /\ v = version[c] /\ v > 0
    /\ open' = [op |-> "start", campaign |-> c, key |-> k, brief |-> v]
    /\ UNCHANGED <<campaigns, runs, locks, drafts>>

\* The insert; the index on the user's active run refuses it (active_run), and
\* the approval is rolled back with it.
StartInsert ==
    LET q == <<open.campaign, open.key>> IN
    /\ open.op = "start" /\ open' = NoTx
    /\ IF \A p \in Requests : ~Active(p)
       THEN /\ runs' = [runs EXCEPT ![q] = [status |-> "queued", brief |-> open.brief, leased |-> FALSE]]
            /\ approved' = [approved EXCEPT ![open.campaign] = @ \cup {open.brief}]
       ELSE UNCHANGED <<runs, approved>>
    /\ UNCHANGED <<exists, version, locks, drafts>>

-----------------------------------------------------------------------------
(* run-repo.ts claimNextRun, requestCancel, and the end of a claimed run.  *)

\* Mutant: the claim locks the run alone.
Whoever == TRUE

\* for update of r,u skip locked
UserFree == open = NoTx

Claim(q) ==
    /\ UserFree
    /\ runs[q].status = "queued" \/ (runs[q].status = "running" /\ ~runs[q].leased)
    /\ runs' = [runs EXCEPT ![q].status = "running", ![q].leased = TRUE]
    /\ UNCHANGED <<campaigns, locks, open, drafts>>

\* Everything a worker writes locks the user and asks for its lease.
Finalize(q) ==
    /\ UserFree /\ Live(q)
    /\ runs' = [runs EXCEPT ![q].status = "ended", ![q].leased = FALSE]
    /\ UNCHANGED <<campaigns, locks, open, drafts>>

\* A queued run is cancelled at once (a running one by its worker).
CancelQueued(q) ==
    /\ runs[q].status = "queued"
    /\ runs' = [runs EXCEPT ![q].status = "ended"]
    /\ UNCHANGED <<campaigns, locks, open, drafts>>

LeaseExpires(q) ==
    /\ Live(q)
    /\ runs' = [runs EXCEPT ![q].leased = FALSE]
    /\ UNCHANGED <<campaigns, locks, open, drafts>>

-----------------------------------------------------------------------------
(* lifecycle.ts deleteCampaignWithLifecycle.                               *)

DeleteCheck(c) ==
    /\ open = NoTx /\ exists[c]
    /\ \A k \in Keys : ~Live(<<c, k>>)
    /\ open' = [op |-> "delete", campaign |-> c]
    /\ UNCHANGED <<campaigns, runs, locks, drafts>>

Delete ==
    LET c == open.campaign IN
    /\ open.op = "delete" /\ open' = NoTx
    /\ exists' = [exists EXCEPT ![c] = FALSE]
    /\ version' = [version EXCEPT ![c] = 0] /\ approved' = [approved EXCEPT ![c] = {}]
    /\ runs' = [q \in Requests |-> IF q[1] = c THEN NoRun ELSE runs[q]]
    /\ lock' = [lock EXCEPT ![c] = None] /\ fresh' = [fresh EXCEPT ![c] = FALSE]
    /\ UNCHANGED drafts

-----------------------------------------------------------------------------
(* service.ts draftBrief; attempt-repo.ts acquireDraft, releaseDraft.      *)

DraftEnds(d, outcome) ==
    /\ step' = [step EXCEPT ![d] = "done"]
    /\ drafted' = [drafted EXCEPT ![d] = outcome]

DraftReads(d, c) ==
    /\ step[d] = "idle" /\ exists[c]
    /\ step' = [step EXCEPT ![d] = "acquire"]
    /\ at' = [at EXCEPT ![d] = c] /\ base' = [base EXCEPT ![d] = version[c]]
    /\ UNCHANGED <<campaigns, runs, locks, open, drafted, overtaken>>

\* Refused while another draft's lock lasts, and when the ledger holds three
\* requests of the last hour (spent).
DraftAcquires(d, spent) ==
    LET c == at[d] IN
    /\ step[d] = "acquire" /\ ~CampaignLocked(c)
    /\ IF exists[c] /\ ~fresh[c] /\ ~spent
       THEN /\ lock' = [lock EXCEPT ![c] = d] /\ fresh' = [fresh EXCEPT ![c] = TRUE]
            /\ overtaken' = overtaken \cup ({lock[c]} \ {None})
            /\ step' = [step EXCEPT ![d] = "call"] /\ UNCHANGED drafted
       ELSE DraftEnds(d, "refused") /\ UNCHANGED <<locks, overtaken>>
    /\ UNCHANGED <<campaigns, runs, open, at, base>>

\* The model answers and finishAttempt records it under the lock, or one of
\* the two fails.
DraftCall(d, answered) ==
    LET c == at[d] IN
    /\ step[d] = "call" /\ ~CampaignLocked(c)
    /\ step' = [step EXCEPT ![d] = IF answered /\ lock[c] = d /\ fresh[c] THEN "check" ELSE "release"]
    /\ UNCHANGED <<campaigns, runs, locks, open, at, base, drafted, overtaken>>

\* The brief may have been saved meanwhile.
DraftChecks(d) ==
    /\ step[d] = "check"
    /\ step' = [step EXCEPT ![d] = "release"]
    /\ drafted' = [drafted EXCEPT ![d] = IF version[at[d]] = base[d] THEN "ready" ELSE "none"]
    /\ UNCHANGED <<campaigns, runs, locks, open, at, base, overtaken>>

\* Mutant: the lock is released whoever holds it.
AnyLock(d) == exists[at[d]]

\* where draft_lock_token=$3
OwnLock(d) == lock[at[d]] = d

\* finally: a lock that is no longer ours throws, and takes the answer with it.
DraftReleases(d) ==
    LET c == at[d] IN
    /\ step[d] = "release" /\ ~CampaignLocked(c)
    /\ IF OwnLock(d)
       THEN /\ lock' = [lock EXCEPT ![c] = None] /\ fresh' = [fresh EXCEPT ![c] = FALSE]
            /\ DraftEnds(d, IF drafted[d] = "ready" THEN "proposal" ELSE "failed")
       ELSE /\ DraftEnds(d, "failed") /\ UNCHANGED <<lock, fresh>>
    /\ UNCHANGED <<campaigns, runs, open, at, base, overtaken>>

\* The request's process dies: the lock stays until it is over.
DraftDies(d) ==
    /\ step[d] \in {"acquire", "call", "check", "release"}
    /\ DraftEnds(d, "failed")
    /\ UNCHANGED <<campaigns, runs, locks, open, at, base, overtaken>>

DraftLockExpires(c) ==
    /\ fresh[c] /\ fresh' = [fresh EXCEPT ![c] = FALSE]
    /\ UNCHANGED <<campaigns, runs, lock, open, drafts>>

Next ==
    \/ \E c \in Campaigns : SaveBrief(c) \/ DeleteCheck(c) \/ DraftLockExpires(c)
    \/ \E c \in Campaigns, k \in Keys, v \in 1..MaxVersion : StartCheck(c, k, v)
    \/ StartInsert \/ Delete
    \/ \E q \in Requests : Claim(q) \/ Finalize(q) \/ CancelQueued(q) \/ LeaseExpires(q)
    \/ \E d \in Drafts : DraftChecks(d) \/ DraftReleases(d) \/ DraftDies(d)
    \/ \E d \in Drafts, b \in BOOLEAN : DraftAcquires(d, b) \/ DraftCall(d, b)
    \/ \E d \in Drafts, c \in Campaigns : DraftReads(d, c)

Spec == Init /\ [][Next]_vars

-----------------------------------------------------------------------------
(* Properties.                                                             *)

\* A run that appears is of the brief that is current as it appears, approved
\* with it, and no other run of the user is active: no brief is saved, no run
\* started and nothing deleted between the checks of a start and its insert.
StartsCurrent ==
    [][\A q \in Requests :
        runs[q].status = "none" /\ runs'[q].status # "none" =>
            /\ exists'[q[1]] /\ runs'[q].brief = version'[q[1]]
            /\ runs'[q].brief \in approved'[q[1]]
            /\ \A p \in Requests : ~Active(p)]_vars

\* A campaign never disappears under a worker whose lease is live.
DeleteRespectsLease ==
    [][\A c \in Campaigns : exists[c] /\ ~exists'[c] => \A k \in Keys : ~Live(<<c, k>>)]_vars

\* A draft that was overtaken after its lock ran out returns no proposal and
\* leaves the lock of the other alone.
DraftsApart ==
    [][\A c \in Campaigns, d \in Drafts :
        /\ drafted'[d] = "proposal" => d \notin overtaken'
        /\ lock[c] = d /\ fresh[c] /\ lock'[c] # d /\ exists'[c] =>
              step[d] = "release" /\ step'[d] = "done"]_vars
=============================================================================
