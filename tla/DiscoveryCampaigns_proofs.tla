---------------------- MODULE DiscoveryCampaigns_proofs ----------------------
(***************************************************************************)
(* Proofs about DiscoveryCampaigns for every set of campaigns, request     *)
(* keys and drafts: what a start inserts, that a deletion waits for the    *)
(* lease, and that drafts of one campaign keep apart.                      *)
(*                                                                         *)
(* The argument: what an open transaction has checked stays true until it  *)
(* writes (OpenInv), because everything else that could change it needs a  *)
(* row the transaction holds; and the draft whose token is in the row is   *)
(* past its acquisition, has no outcome yet and was never overtaken        *)
(* (DraftInv).                                                             *)
(***************************************************************************)
EXTENDS DiscoveryCampaigns, TLAPS

Run == [status : {"none", "queued", "running", "ended"}, brief : Nat, leased : BOOLEAN]
StartTx == [op : {"start"}, campaign : Campaigns, key : Keys, brief : Nat]
DeleteTx == [op : {"delete"}, campaign : Campaigns]

TypeInv ==
    /\ exists \in [Campaigns -> BOOLEAN]
    /\ version \in [Campaigns -> Nat]
    /\ approved \in [Campaigns -> SUBSET Nat]
    /\ runs \in [Requests -> Run]
    /\ lock \in [Campaigns -> Drafts \cup {None}]
    /\ fresh \in [Campaigns -> BOOLEAN]
    /\ open \in {NoTx} \cup StartTx \cup DeleteTx
    /\ step \in [Drafts -> {"idle", "acquire", "call", "check", "release", "done"}]
    /\ at \in [Drafts -> Campaigns \cup {None}]
    /\ base \in [Drafts -> Nat]
    /\ drafted \in [Drafts -> {"none", "ready", "proposal", "refused", "failed"}]
    /\ overtaken \subseteq Drafts

\* What the open transaction has checked.
OpenInv ==
    /\ open.op = "start" =>
          /\ exists[open.campaign] /\ open.brief = version[open.campaign]
          /\ runs[<<open.campaign, open.key>>].status = "none"
    /\ open.op = "delete" => \A k \in Keys : ~Live(<<open.campaign, k>>)

Holding == {"call", "check", "release"}

\* Whose token the row holds, and who was overtaken.
DraftInv ==
    /\ \A d \in Drafts :
          /\ step[d] \in {"acquire"} \cup Holding => at[d] \in Campaigns
          /\ drafted[d] = "proposal" => step[d] = "done"
    /\ \A c \in Campaigns, d \in Drafts : lock[c] = d =>
          /\ at[d] = c /\ d \notin overtaken
          /\ step[d] \in Holding \cup {"done"} /\ drafted[d] # "proposal"
    /\ \A d \in overtaken : step[d] \in Holding \cup {"done"} /\ drafted[d] # "proposal"

IInv == TypeInv /\ OpenInv /\ DraftInv

\* Every action keeps the types.
LEMMA TypeStep ==
    ASSUME TypeInv, DraftInv, [Next]_vars
    PROVE  TypeInv'
<1> USE ConstantsAssumption
<1>1. ASSUME NEW c \in Campaigns, SaveBrief(c) \/ DraftLockExpires(c)
      PROVE  TypeInv'
  <2>1. version' \in [Campaigns -> Nat]
    BY <1>1 DEF SaveBrief, DraftLockExpires, TypeInv, campaigns
  <2>2. fresh' \in [Campaigns -> BOOLEAN]
    BY <1>1 DEF SaveBrief, DraftLockExpires, TypeInv, locks
  <2> QED
    BY <1>1, <2>1, <2>2 DEF SaveBrief, DraftLockExpires, TypeInv, campaigns, locks, drafts
<1>2. ASSUME NEW c \in Campaigns, DeleteCheck(c)
      PROVE  TypeInv'
  <2>1. open' \in DeleteTx
    BY <1>2 DEF DeleteCheck, DeleteTx
  <2> QED
    BY <1>2, <2>1 DEF DeleteCheck, TypeInv, campaigns, locks, drafts
<1>3. ASSUME NEW c \in Campaigns, NEW k \in Keys, NEW v \in 1..MaxVersion, StartCheck(c, k, v)
      PROVE  TypeInv'
  <2>1. v \in Nat
    BY <1>3 DEF StartCheck, TypeInv
  <2>2. open' \in StartTx
    BY <1>3, <2>1 DEF StartCheck, StartTx
  <2> QED
    BY <1>3, <2>2 DEF StartCheck, TypeInv, campaigns, locks, drafts
<1>4. CASE StartInsert
  <2> DEFINE q == <<open.campaign, open.key>>
  <2>1. open \in StartTx
    BY <1>4 DEF StartInsert, TypeInv, NoTx, DeleteTx
  <2>2. q \in Requests /\ open.campaign \in Campaigns /\ open.brief \in Nat
    BY <2>1 DEF StartTx, Requests
  <2>3. [status |-> "queued", brief |-> open.brief, leased |-> FALSE] \in Run
    BY <2>2 DEF Run
  <2>4. runs' \in [Requests -> Run]
    BY <1>4, <2>2, <2>3 DEF StartInsert, TypeInv
  <2>5. approved' \in [Campaigns -> SUBSET Nat]
    BY <1>4, <2>2 DEF StartInsert, TypeInv
  <2> QED
    BY <1>4, <2>4, <2>5 DEF StartInsert, TypeInv, locks, drafts
<1>5. CASE Delete
  <2>1. NoRun \in Run
    BY DEF NoRun, Run
  <2>2. runs' \in [Requests -> Run]
    BY <1>5, <2>1 DEF Delete, TypeInv
  <2> QED
    BY <1>5, <2>2 DEF Delete, TypeInv, drafts
<1>6. ASSUME NEW q \in Requests, Claim(q) \/ Finalize(q) \/ CancelQueued(q) \/ LeaseExpires(q)
      PROVE  TypeInv'
  <2>1. runs[q] \in Run
    BY DEF TypeInv
  <2>2. \A s \in {"running", "ended"}, b \in BOOLEAN :
            /\ [runs[q] EXCEPT !.status = s, !.leased = b] \in Run
            /\ [runs[q] EXCEPT !.status = s] \in Run
            /\ [runs[q] EXCEPT !.leased = b] \in Run
    BY <2>1 DEF Run
  <2>3. runs' \in [Requests -> Run]
    BY <1>6, <2>1, <2>2 DEF Claim, Finalize, CancelQueued, LeaseExpires, TypeInv
  <2> QED
    BY <1>6, <2>3 DEF Claim, Finalize, CancelQueued, LeaseExpires, TypeInv, campaigns, locks, drafts
<1>7. ASSUME NEW d \in Drafts, DraftChecks(d) \/ DraftReleases(d) \/ DraftDies(d)
      PROVE  TypeInv'
  BY <1>7 DEF DraftChecks, DraftReleases, DraftDies, DraftEnds, TypeInv, campaigns, locks
<1>8. ASSUME NEW d \in Drafts, NEW b \in BOOLEAN, DraftAcquires(d, b) \/ DraftCall(d, b)
      PROVE  TypeInv'
  <2>1. CASE DraftCall(d, b)
    BY <2>1 DEF DraftCall, TypeInv, campaigns, locks
  <2>2. CASE DraftAcquires(d, b)
    <3>1. at[d] \in Campaigns
      BY <2>2 DEF DraftAcquires, DraftInv
    <3>2. overtaken' \subseteq Drafts
      <4>1. lock[at[d]] \in Drafts \cup {None} /\ overtaken \subseteq Drafts
        BY <3>1 DEF TypeInv
      <4>2. overtaken' = overtaken \/ overtaken' = overtaken \cup ({lock[at[d]]} \ {None})
        BY <2>2 DEF DraftAcquires
      <4> QED
        BY <4>1, <4>2
    <3>3. step' \in [Drafts -> {"idle", "acquire", "call", "check", "release", "done"}]
      BY <2>2 DEF DraftAcquires, DraftEnds, TypeInv
    <3>4. lock' \in [Campaigns -> Drafts \cup {None}] /\ fresh' \in [Campaigns -> BOOLEAN]
      <4>1. CASE UNCHANGED locks
        BY <4>1 DEF locks, TypeInv
      <4>2. CASE /\ lock' = [lock EXCEPT ![at[d]] = d]
                 /\ fresh' = [fresh EXCEPT ![at[d]] = TRUE]
        BY <3>1, <4>2 DEF TypeInv
      <4> QED
        BY <2>2, <4>1, <4>2, Zenon DEF DraftAcquires
    <3>5. drafted' \in [Drafts -> {"none", "ready", "proposal", "refused", "failed"}]
      BY <2>2 DEF DraftAcquires, DraftEnds, TypeInv
    <3> QED
      BY <2>2, <3>2, <3>3, <3>4, <3>5 DEF DraftAcquires, TypeInv, campaigns
  <2> QED
    BY <1>8, <2>1, <2>2
<1>9. ASSUME NEW d \in Drafts, NEW c \in Campaigns, DraftReads(d, c)
      PROVE  TypeInv'
  BY <1>9 DEF DraftReads, TypeInv, campaigns, locks
<1>10. CASE UNCHANGED vars
  BY <1>10 DEF TypeInv, vars, campaigns, locks, drafts
<1> QED
  BY <1>1, <1>2, <1>3, <1>4, <1>5, <1>6, <1>7, <1>8, <1>9, <1>10 DEF Next

\* What an open transaction has checked, nothing else undoes.
LEMMA OpenStep ==
    ASSUME TypeInv, OpenInv, [Next]_vars
    PROVE  OpenInv'
<1>1. ASSUME NEW c \in Campaigns, SaveBrief(c)
      PROVE  OpenInv'
  BY <1>1 DEF SaveBrief, CampaignLocked, OpenInv, Live, NoTx, TypeInv
<1>2. ASSUME NEW c \in Campaigns, DeleteCheck(c)
      PROVE  OpenInv'
  BY <1>2 DEF DeleteCheck, OpenInv, Live
<1>3. ASSUME NEW c \in Campaigns, NEW k \in Keys, NEW v \in 1..MaxVersion, StartCheck(c, k, v)
      PROVE  OpenInv'
  BY <1>3 DEF StartCheck, OpenInv, campaigns
<1>4. CASE StartInsert \/ Delete
  BY <1>4 DEF StartInsert, Delete, OpenInv, NoTx
<1>5. ASSUME NEW q \in Requests, Claim(q) \/ Finalize(q)
      PROVE  OpenInv'
  BY <1>5 DEF Claim, Finalize, UserFree, OpenInv, NoTx
<1>6. ASSUME NEW q \in Requests, CancelQueued(q) \/ LeaseExpires(q)
      PROVE  OpenInv'
  <2>1. ASSUME NEW p \in Requests
        PROVE  /\ runs[p].status = "none" => runs'[p].status = "none"
               /\ ~Live(p) => ~(Live(p)')
    BY <1>6 DEF CancelQueued, LeaseExpires, Live, TypeInv, Run
  <2>2. CASE open.op = "start"
    <3>1. open \in StartTx
      BY <2>2 DEF TypeInv, NoTx, DeleteTx
    <3>2. <<open.campaign, open.key>> \in Requests
      BY <3>1 DEF StartTx, Requests
    <3> QED
      BY <1>6, <2>1, <2>2, <3>2 DEF CancelQueued, LeaseExpires, OpenInv, campaigns
  <2>3. CASE open.op = "delete"
    <3>1. open \in DeleteTx
      BY <2>3 DEF TypeInv, NoTx, StartTx
    <3>2. \A k \in Keys : <<open.campaign, k>> \in Requests
      BY <3>1 DEF DeleteTx, Requests
    <3> QED
      BY <1>6, <2>1, <2>3, <3>2 DEF CancelQueued, LeaseExpires, OpenInv, campaigns
  <2> QED
    BY <1>6, <2>2, <2>3 DEF CancelQueued, LeaseExpires, OpenInv
<1>7. CASE UNCHANGED <<campaigns, runs, open>>
  BY <1>7 DEF OpenInv, campaigns, Live
<1>8. ASSUME NEW c \in Campaigns, DraftLockExpires(c)
      PROVE  OpenInv'
  BY <1>7, <1>8 DEF DraftLockExpires
<1>9. ASSUME NEW d \in Drafts, DraftChecks(d) \/ DraftReleases(d) \/ DraftDies(d)
      PROVE  OpenInv'
  BY <1>7, <1>9 DEF DraftChecks, DraftReleases, DraftDies
<1>10. ASSUME NEW d \in Drafts, NEW b \in BOOLEAN, DraftAcquires(d, b) \/ DraftCall(d, b)
       PROVE  OpenInv'
  BY <1>7, <1>10 DEF DraftAcquires, DraftCall
<1>11. ASSUME NEW d \in Drafts, NEW c \in Campaigns, DraftReads(d, c)
       PROVE  OpenInv'
  BY <1>7, <1>11 DEF DraftReads
<1>12. CASE UNCHANGED vars
  BY <1>7, <1>12 DEF vars
<1> QED
  BY <1>1, <1>2, <1>3, <1>4, <1>5, <1>6, <1>8, <1>9, <1>10, <1>11, <1>12 DEF Next

\* The token in the row is that of a draft past its acquisition.
LEMMA DraftStep ==
    ASSUME TypeInv, DraftInv, [Next]_vars
    PROVE  DraftInv'
<1> USE ConstantsAssumption DEF Holding
<1>1. CASE UNCHANGED <<lock, drafts>>
  BY <1>1 DEF DraftInv, drafts
<1>2. ASSUME NEW c \in Campaigns, SaveBrief(c) \/ DeleteCheck(c) \/ DraftLockExpires(c)
      PROVE  DraftInv'
  BY <1>1, <1>2 DEF SaveBrief, DeleteCheck, DraftLockExpires, locks
<1>3. ASSUME NEW c \in Campaigns, NEW k \in Keys, NEW v \in 1..MaxVersion, StartCheck(c, k, v)
      PROVE  DraftInv'
  BY <1>1, <1>3 DEF StartCheck, locks
<1>4. CASE StartInsert
  BY <1>1, <1>4 DEF StartInsert, locks
<1>5. CASE Delete
  BY <1>5 DEF Delete, drafts, DraftInv, TypeInv
<1>6. ASSUME NEW q \in Requests, Claim(q) \/ Finalize(q) \/ CancelQueued(q) \/ LeaseExpires(q)
      PROVE  DraftInv'
  BY <1>1, <1>6 DEF Claim, Finalize, CancelQueued, LeaseExpires, locks
<1>7. ASSUME NEW d \in Drafts, DraftChecks(d) \/ DraftDies(d)
      PROVE  DraftInv'
  BY <1>7 DEF DraftChecks, DraftDies, DraftEnds, DraftInv, TypeInv, locks
<1>8. ASSUME NEW d \in Drafts, DraftReleases(d)
      PROVE  DraftInv'
  <2>1. at[d] \in Campaigns
    BY <1>8 DEF DraftReleases, DraftInv
  <2>2. CASE OwnLock(d)
    BY <1>8, <2>1, <2>2 DEF DraftReleases, DraftEnds, OwnLock, DraftInv, TypeInv
  <2>3. CASE ~OwnLock(d)
    BY <1>8, <2>3 DEF DraftReleases, DraftEnds, DraftInv, TypeInv
  <2> QED
    BY <2>2, <2>3
<1>9. ASSUME NEW d \in Drafts, NEW b \in BOOLEAN, DraftAcquires(d, b)
      PROVE  DraftInv'
  <2>1. at[d] \in Campaigns /\ d \notin overtaken /\ \A c \in Campaigns : lock[c] # d
    BY <1>9 DEF DraftAcquires, DraftInv
  <2>2. CASE exists[at[d]] /\ ~fresh[at[d]] /\ ~b /\ drafted[d] # "proposal"
    BY <1>9, <2>1, <2>2 DEF DraftAcquires, DraftInv, TypeInv
  <2>3. CASE ~(exists[at[d]] /\ ~fresh[at[d]] /\ ~b)
    BY <1>9, <2>1, <2>3 DEF DraftAcquires, DraftEnds, DraftInv, TypeInv, locks
  <2>4. drafted[d] # "proposal"
    BY <1>9 DEF DraftAcquires, DraftInv
  <2> QED
    BY <2>2, <2>3, <2>4
<1>10. ASSUME NEW d \in Drafts, NEW b \in BOOLEAN, DraftCall(d, b)
       PROVE  DraftInv'
  BY <1>10 DEF DraftCall, DraftInv, TypeInv, locks
<1>11. ASSUME NEW d \in Drafts, NEW c \in Campaigns, DraftReads(d, c)
       PROVE  DraftInv'
  BY <1>11 DEF DraftReads, DraftInv, TypeInv, locks
<1>12. CASE UNCHANGED vars
  BY <1>1, <1>12 DEF vars, locks
<1> QED
  BY <1>2, <1>3, <1>4, <1>5, <1>6, <1>7, <1>8, <1>9, <1>10, <1>11, <1>12 DEF Next

\* Which operations write the runs, the campaigns' rows and the draft locks.
LEMMA Writers ==
    ASSUME [Next]_vars
    PROVE  /\ runs' = runs \/ StartInsert \/ Delete
                \/ \E q \in Requests : Claim(q) \/ Finalize(q) \/ CancelQueued(q) \/ LeaseExpires(q)
           /\ exists' = exists \/ Delete
           /\ <<drafted, overtaken>>' = <<drafted, overtaken>>
                \/ \E d \in Drafts : \/ DraftChecks(d) \/ DraftReleases(d) \/ DraftDies(d)
                                     \/ \E b \in BOOLEAN : DraftAcquires(d, b)
           /\ lock' = lock \/ Delete
                \/ \E d \in Drafts : DraftReleases(d) \/ \E b \in BOOLEAN : DraftAcquires(d, b)
<1>1. ASSUME NEW c \in Campaigns, SaveBrief(c) \/ DeleteCheck(c) \/ DraftLockExpires(c)
      PROVE  <<runs, exists, lock, drafted, overtaken>>' = <<runs, exists, lock, drafted, overtaken>>
  BY <1>1 DEF SaveBrief, DeleteCheck, DraftLockExpires, campaigns, locks, drafts
<1>2. ASSUME NEW c \in Campaigns, NEW k \in Keys, NEW v \in 1..MaxVersion, StartCheck(c, k, v)
      PROVE  <<runs, exists, lock, drafted, overtaken>>' = <<runs, exists, lock, drafted, overtaken>>
  BY <1>2 DEF StartCheck, campaigns, locks, drafts
<1>3. CASE StartInsert
  BY <1>3 DEF StartInsert, locks, drafts
<1>4. CASE Delete
  BY <1>4 DEF Delete, drafts
<1>5. ASSUME NEW q \in Requests, Claim(q) \/ Finalize(q) \/ CancelQueued(q) \/ LeaseExpires(q)
      PROVE  <<exists, lock, drafted, overtaken>>' = <<exists, lock, drafted, overtaken>>
  BY <1>5 DEF Claim, Finalize, CancelQueued, LeaseExpires, campaigns, locks, drafts
<1>6. ASSUME NEW d \in Drafts, DraftChecks(d) \/ DraftDies(d)
      PROVE  <<runs, exists, lock>>' = <<runs, exists, lock>>
  BY <1>6 DEF DraftChecks, DraftDies, campaigns, locks
<1>7. ASSUME NEW d \in Drafts, NEW b \in BOOLEAN, DraftAcquires(d, b) \/ DraftReleases(d)
      PROVE  <<runs, exists>>' = <<runs, exists>>
  BY <1>7 DEF DraftAcquires, DraftReleases, campaigns
<1>8. ASSUME NEW d \in Drafts, NEW b \in BOOLEAN, NEW c \in Campaigns, DraftCall(d, b) \/ DraftReads(d, c)
      PROVE  <<runs, exists, lock, drafted, overtaken>>' = <<runs, exists, lock, drafted, overtaken>>
  BY <1>8 DEF DraftCall, DraftReads, campaigns, locks
<1>9. CASE UNCHANGED vars
  BY <1>9 DEF vars, campaigns, locks, drafts
<1>10. ASSUME NEW d \in Drafts, NEW b \in BOOLEAN, DraftCall(d, b)
       PROVE  <<runs, exists, lock, drafted, overtaken>>' = <<runs, exists, lock, drafted, overtaken>>
  BY <1>10 DEF DraftCall, campaigns, locks
<1>11. PICK b \in BOOLEAN : TRUE
  OBVIOUS
<1> QED
  BY <1>1, <1>2, <1>3, <1>4, <1>5, <1>6, <1>7, <1>8, <1>9, <1>10, <1>11 DEF Next

\* The three parts together are inductive.
LEMMA IInvariance == Spec => []IInv
<1>1. Init => IInv
  BY ConstantsAssumption DEF Init, IInv, TypeInv, OpenInv, DraftInv, Holding, NoTx, NoRun, Run, Requests
<1>2. IInv /\ [Next]_vars => IInv'
  BY TypeStep, OpenStep, DraftStep DEF IInv
<1> QED
  BY <1>1, <1>2, PTL DEF Spec

\* A run that appears is of the current brief, approved with it, and the only
\* active run of the user: what startRun checked still holds at its insert.
THEOREM CurrentStart == Spec => StartsCurrent
<1>1. ASSUME IInv, [Next]_vars, NEW q \in Requests,
             runs[q].status = "none", runs'[q].status # "none"
      PROVE  /\ exists'[q[1]] /\ runs'[q].brief = version'[q[1]]
             /\ runs'[q].brief \in approved'[q[1]]
             /\ \A p \in Requests : ~Active(p)
  <2>1. CASE StartInsert
    <3>1. /\ q = <<open.campaign, open.key>> /\ \A p \in Requests : ~Active(p)
          /\ runs'[q].brief = open.brief
          /\ approved' = [approved EXCEPT ![open.campaign] = @ \cup {open.brief}]
      BY <1>1, <2>1 DEF StartInsert, IInv, TypeInv
    <3>2. open.op = "start" /\ exists' = exists /\ version' = version
      BY <2>1 DEF StartInsert
    <3>3. q[1] = open.campaign /\ q[1] \in Campaigns
      BY <3>1 DEF Requests
    <3> QED
      BY <1>1, <3>1, <3>2, <3>3 DEF IInv, OpenInv, TypeInv
  <2>2. ASSUME NEW p \in Requests, Claim(p) \/ Finalize(p) \/ CancelQueued(p) \/ LeaseExpires(p)
        PROVE  FALSE
    BY <1>1, <2>2 DEF Claim, Finalize, CancelQueued, LeaseExpires, Live, IInv, TypeInv, Run
  <2>3. CASE Delete
    BY <1>1, <2>3 DEF Delete, NoRun
  <2> QED
    BY <1>1, <2>1, <2>2, <2>3, Writers
<1>2. IInv /\ [Next]_vars =>
        [\A q \in Requests :
            runs[q].status = "none" /\ runs'[q].status # "none" =>
                /\ exists'[q[1]] /\ runs'[q].brief = version'[q[1]]
                /\ runs'[q].brief \in approved'[q[1]]
                /\ \A p \in Requests : ~Active(p)]_vars
  BY <1>1
<1> QED
  BY <1>2, IInvariance, PTL DEF Spec, StartsCurrent

\* Between the deletion's check and its delete no worker obtains a lease.
THEOREM LeaseRespected == Spec => DeleteRespectsLease
<1>1. ASSUME IInv, [Next]_vars, NEW c \in Campaigns, exists[c], ~exists'[c]
      PROVE  \A k \in Keys : ~Live(<<c, k>>)
  <2>1. Delete /\ c = open.campaign
    BY <1>1, Writers DEF Delete, IInv, TypeInv
  <2> QED
    BY <1>1, <2>1 DEF Delete, IInv, OpenInv
<1>2. IInv /\ [Next]_vars =>
        [\A c \in Campaigns : exists[c] /\ ~exists'[c] => \A k \in Keys : ~Live(<<c, k>>)]_vars
  BY <1>1
<1> QED
  BY <1>2, IInvariance, PTL DEF Spec, DeleteRespectsLease

\* An overtaken draft returns no proposal, and a draft's lock is ended by its
\* own release, its time or the campaign's deletion and by nothing else.
THEOREM DraftsKeptApart == Spec => DraftsApart
<1>1. ASSUME IInv, [Next]_vars, NEW d \in Drafts, drafted'[d] = "proposal"
      PROVE  d \notin overtaken'
  BY <1>1, DraftStep DEF IInv, DraftInv, Holding
<1>2. ASSUME IInv, [Next]_vars, NEW c \in Campaigns, NEW d \in Drafts,
             lock[c] = d, fresh[c], lock'[c] # d, exists'[c]
      PROVE  step[d] = "release" /\ step'[d] = "done"
  <2>1. ~Delete
    BY <1>2 DEF Delete, IInv, TypeInv
  <2>2. ASSUME NEW e \in Drafts, NEW b \in BOOLEAN, DraftAcquires(e, b)
        PROVE  FALSE
    BY <1>2, <2>2 DEF DraftAcquires, locks, IInv, TypeInv
  <2>3. ASSUME NEW e \in Drafts, DraftReleases(e)
        PROVE  e = d /\ step[d] = "release" /\ step'[d] = "done"
    BY <1>2, <2>3 DEF DraftReleases, DraftEnds, OwnLock, IInv, TypeInv
  <2> QED
    BY <1>2, <2>1, <2>2, <2>3, Writers
<1>3. IInv /\ [Next]_vars =>
        [\A c \in Campaigns, d \in Drafts :
            /\ drafted'[d] = "proposal" => d \notin overtaken'
            /\ lock[c] = d /\ fresh[c] /\ lock'[c] # d /\ exists'[c] =>
                  step[d] = "release" /\ step'[d] = "done"]_vars
  BY <1>1, <1>2
<1> QED
  BY <1>3, IInvariance, PTL DEF Spec, DraftsApart
=============================================================================
