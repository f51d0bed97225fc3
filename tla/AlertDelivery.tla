--------------------------- MODULE AlertDelivery ---------------------------
(***************************************************************************)
(* The delivery of fired alerts (services/notifications/src): a pass takes *)
(* pending alerts, and alerts whose claim is too old, sends each over its  *)
(* channels and writes how that ended; the alerts that also ask for the    *)
(* digest share one message at the end.                                    *)
(*                                                                         *)
(* A claim is a time stamp without a token.  A pass that outlives it goes  *)
(* on sending beside the pass that took its alerts over.  The alerts here  *)
(* belong to one agent, so there is one digest group.  The worker passes   *)
(* neither preferences nor a throttle, and neither is modelled.            *)
(***************************************************************************)
EXTENDS Naturals, FiniteSets

CONSTANTS Alerts, Workers, NoAlert,
          Immediate,   \* alert rows' channels that are sent at once: <<alert, channel>>
          Digested,    \* alerts whose channels include the digest
          Unreadable,  \* alerts with a channel the processor does not know
          Older,       \* <<alert, alert>>: the first one fired before the second
          Withheld,    \* <<alert, egress>>: a fact it cites may not leave that way
          Limit,       \* rows a pass takes
          MaxLapses, MaxCrashes   \* bounds: claims outlived per alert, passes that die

Channels == {p[2] : p \in Immediate}
Routes == Immediate \cup (Alerts \X {"digest"})

\* egressChannelFor: everything but email leaves as a push.
Egress(c) == IF c = "email" THEN "email" ELSE "push"
Barred == {p \in Routes : <<p[1], Egress(p[2])>> \in Withheld}

ASSUME ConstantsAssumption ==
    /\ NoAlert \notin Alerts /\ Limit >= 1 /\ IsFiniteSet(Workers)
    /\ Digested \subseteq Alerts /\ "digest" \notin Channels
    /\ \A p \in Immediate : p = <<p[1], p[2]>> /\ p[1] \in Alerts
    /\ \A a \in Alerts : <<a, a>> \notin Older
    /\ \A a, b, c \in Alerts : <<a, b>> \in Older /\ <<b, c>> \in Older => <<a, c>> \in Older

VARIABLES
    status, stale,          \* alerts_fired: status; claimed_at is too old
    todo, cur, left,        \* per pass: alerts to do, the one at hand, its channels
    group, ok, place,       \* per pass: the digest group, delivered receipts, where it is
    accepted, dropped,      \* history: messages a provider took; alerts whose last
                            \* claim no pass was handed
    lapses, crashes         \* history: claims too old after a pass was handed them; bounds

rows == <<status, stale>>
pass == <<todo, cur, left, group, ok, place>>
vars == <<rows, pass, accepted, dropped, lapses, crashes>>

Init ==
    /\ status = [a \in Alerts |-> "none"] /\ stale = [a \in Alerts |-> FALSE]
    /\ todo = [w \in Workers |-> {}] /\ cur = [w \in Workers |-> NoAlert]
    /\ left = [w \in Workers |-> {}] /\ group = [w \in Workers |-> {}]
    /\ ok = [w \in Workers |-> {}] /\ place = [w \in Workers |-> "idle"]
    /\ accepted = [p \in Routes |-> 0] /\ dropped = {}
    /\ lapses = [a \in Alerts |-> 0] /\ crashes = 0

Settled(a) == status[a] \in {"notified", "failed"}

\* evaluateAgentAlerts committed the row.
Fire(a) ==
    /\ status[a] = "none"
    /\ status' = [status EXCEPT ![a] = "pending_notification"]
    /\ UNCHANGED <<stale, pass, accepted, dropped, lapses, crashes>>

-----------------------------------------------------------------------------
(* claimPendingAlerts                                                      *)

\* Mutant: a claim protects nothing.
AnyUnsettled(a) == status[a] \in {"pending_notification", "delivering"}

Claimable(a) == status[a] = "pending_notification" \/ (status[a] = "delivering" /\ stale[a])

\* The oldest claimable rows, as many as fit.  Claims at the same moment skip
\* each other's rows, as if one had come after the other.
ClaimRows(w, B) ==
    LET rest == {a \in Alerts \ B : Claimable(a)} IN
    /\ place[w] = "idle" /\ B # {} /\ \A a \in B : Claimable(a)
    /\ Cardinality(B) <= Limit /\ (rest # {} => Cardinality(B) = Limit)
    /\ \A a \in B, b \in rest : <<b, a>> \notin Older
    /\ status' = [a \in Alerts |-> IF a \in B THEN "delivering" ELSE status[a]]
    /\ stale' = [a \in Alerts |-> stale[a] /\ a \notin B]
    /\ UNCHANGED <<cur, left, group, ok, accepted, lapses, crashes>>

Claim(w, B) ==
    /\ ClaimRows(w, B)
    /\ B \cap Unreadable = {}
    /\ todo' = [todo EXCEPT ![w] = B]
    /\ place' = [place EXCEPT ![w] = "alerts"]
    /\ dropped' = dropped \ B

\* rowFromDb throws for one of the rows after their claim is committed: the
\* pass ends, and all of them stay delivering.
ClaimThrows(w, B) ==
    /\ ClaimRows(w, B)
    /\ B \cap Unreadable # {}
    /\ dropped' = dropped \cup B
    /\ UNCHANGED <<todo, place>>

Take(w, a) ==
    /\ place[w] = "alerts" /\ cur[w] = NoAlert /\ a \in todo[w]
    /\ todo' = [todo EXCEPT ![w] = @ \ {a}]
    /\ cur' = [cur EXCEPT ![w] = a]
    /\ left' = [left EXCEPT ![w] = {p[2] : p \in {q \in Immediate : q[1] = a}}]
    /\ UNCHANGED <<rows, group, ok, place, accepted, dropped, lapses, crashes>>

-----------------------------------------------------------------------------
(* deliverOne and deliverDigest: blocked by a fact, or handed to the       *)
(* adapter, whose answer may be an error although the message was taken    *)
(* (the request is given up after ten seconds).                            *)

Deliver(w, routes, members) ==
    \/ /\ routes \cap Barred # {}
       /\ UNCHANGED <<accepted, ok>>
    \/ /\ routes \cap Barred = {}
       /\ \E taken, told \in BOOLEAN :
            /\ told => taken
            /\ accepted' = [p \in Routes |-> IF p \in routes /\ taken THEN accepted[p] + 1 ELSE accepted[p]]
            /\ ok' = IF told THEN [ok EXCEPT ![w] = @ \cup members] ELSE ok

Send(w, c) ==
    /\ c \in left[w]
    /\ left' = [left EXCEPT ![w] = @ \ {c}]
    /\ Deliver(w, {<<cur[w], c>>}, {cur[w]})
    /\ UNCHANGED <<rows, todo, cur, group, place, dropped, lapses, crashes>>

Digest(w) ==
    /\ place[w] = "alerts" /\ cur[w] = NoAlert /\ todo[w] = {} /\ group[w] # {}
    /\ place' = [place EXCEPT ![w] = "digest"]
    /\ Deliver(w, group[w] \X {"digest"}, group[w])
    /\ UNCHANGED <<rows, todo, cur, left, group, dropped, lapses, crashes>>

-----------------------------------------------------------------------------
(* terminalStatusFor and updateAlertDelivery                               *)

\* Mutant: the row is written whatever has become of it.
WhateverBecame(a) == TRUE

\* where status = 'delivering', whoever claimed it last
StillDelivering(a) == status[a] = "delivering"

Update(w, a) ==
    /\ status' = IF StillDelivering(a)
                 THEN [status EXCEPT ![a] = IF a \in ok[w] THEN "notified" ELSE "failed"]
                 ELSE status
    /\ stale' = IF StillDelivering(a) THEN [stale EXCEPT ![a] = FALSE] ELSE stale

\* An alert without digest is settled at once, the others wait for it.
Finish(w) ==
    LET a == cur[w] IN
    /\ a # NoAlert /\ left[w] = {}
    /\ cur' = [cur EXCEPT ![w] = NoAlert]
    /\ IF a \in Digested
       THEN group' = [group EXCEPT ![w] = @ \cup {a}] /\ UNCHANGED rows
       ELSE Update(w, a) /\ UNCHANGED group
    /\ UNCHANGED <<todo, left, ok, place, accepted, dropped, lapses, crashes>>

FinishDigest(w, a) ==
    /\ place[w] = "digest" /\ a \in group[w]
    /\ group' = [group EXCEPT ![w] = @ \ {a}]
    /\ Update(w, a)
    /\ UNCHANGED <<todo, cur, left, ok, place, accepted, dropped, lapses, crashes>>

\* A pass forgets what it held when it returns, and when it dies of a crash
\* or a failed statement: its alerts stay delivering.
Forget(w) ==
    /\ todo' = [todo EXCEPT ![w] = {}] /\ cur' = [cur EXCEPT ![w] = NoAlert]
    /\ left' = [left EXCEPT ![w] = {}] /\ group' = [group EXCEPT ![w] = {}]
    /\ ok' = [ok EXCEPT ![w] = {}] /\ place' = [place EXCEPT ![w] = "idle"]

Return(w) ==
    /\ place[w] # "idle" /\ todo[w] = {} /\ cur[w] = NoAlert /\ group[w] = {}
    /\ Forget(w)
    /\ UNCHANGED <<rows, accepted, dropped, lapses, crashes>>

Crash(w) ==
    /\ place[w] # "idle" /\ crashes < MaxCrashes
    /\ crashes' = crashes + 1
    /\ Forget(w)
    /\ UNCHANGED <<rows, accepted, dropped, lapses>>

\* Mutant: a claim never gets too old.
NeverOld(a) == FALSE

AtWork(a) == \E w \in Workers : a \in todo[w] \cup {cur[w]} \cup group[w]
MayLapse(a) == AtWork(a) => lapses[a] < MaxLapses

\* The claim timeout passes: on a pass at work, or on one that has ended
\* without settling the alert.
Lapse(a) ==
    /\ status[a] = "delivering" /\ ~stale[a] /\ MayLapse(a)
    /\ stale' = [stale EXCEPT ![a] = TRUE]
    /\ lapses' = [lapses EXCEPT ![a] = IF a \in dropped THEN @ ELSE @ + 1]
    /\ UNCHANGED <<status, pass, accepted, dropped, crashes>>

Step(w) ==
    \/ Digest(w) \/ Finish(w) \/ Return(w)
    \/ \E c \in Channels : Send(w, c)
    \/ \E a \in Alerts : Take(w, a) \/ FinishDigest(w, a)

Claims == \E w \in Workers, B \in SUBSET Alerts : Claim(w, B) \/ ClaimThrows(w, B)

Next ==
    \/ Claims
    \/ \E a \in Alerts : Fire(a) \/ Lapse(a)
    \/ \E w \in Workers : Step(w) \/ Crash(w)

\* The worker is started again and again, a pass at work goes on (every
\* request it makes is given up after ten seconds), and time passes.
FairSpec ==
    /\ Init /\ [][Next]_vars
    /\ \A w \in Workers : WF_vars(Step(w))
    /\ WF_vars(Claims)
    /\ \A a \in Alerts : WF_vars(Lapse(a))

-----------------------------------------------------------------------------
(* Properties.                                                             *)

\* A message goes out again only for a claim that got too old after a pass was
\* handed it: a provider takes an alert at most once per channel and such a
\* claim, and a claim that threw costs no message.  None goes out over a
\* channel a fact is barred from, not even in a digest shared with others.
SentPerClaim ==
    \A p \in Routes :
        /\ accepted[p] <= 1 + lapses[p[1]]
        /\ p \in Barred => accepted[p] = 0

\* The first pass to end an alert has the last word, though another may still
\* be sending it; and it says notified only if a provider took the alert.
SettledOnce ==
    [][\A a \in Alerts :
        /\ Settled(a) => status'[a] = status[a]
        /\ status'[a] = "notified" => \E p \in Routes : p[1] = a /\ accepted[p] > 0]_vars

\* Until a claim has met a row it cannot read, every alert that fires is settled,
\* through crashes, stale claims and passes that overtake each other.
SettledWhileReadable ==
    \A a \in Alerts : status[a] # "none" ~> (Settled(a) \/ dropped \cap Unreadable # {})

\* What the README of the package says: the worker updates each alert it claims
\* to notified or failed.  Not so: an alert that is claimed together with an
\* unreadable one is claimed again with it, and thrown away again, for ever.
EveryAlertSettles == \A a \in Alerts \ Unreadable : status[a] # "none" ~> Settled(a)
=============================================================================
