---------------------------- MODULE ThreadContract ----------------------------
(***************************************************************************)
(* What the chat service promises about the turns of one thread, with no   *)
(* promise chain, turns map, tombstone or stream in sight: turns run in    *)
(* the order in which they were asked for and never two at once, each is   *)
(* answered at most once, also when a restart has it asked for again, and  *)
(* none is reported as completed before its answer is saved.  ChatTurns    *)
(* implements this specification.                                          *)
(***************************************************************************)
CONSTANT Turns

VARIABLES phase,     \* per turn: "idle" | "waiting" | "running"
          ahead,     \* <<t, u>>: open turns, t was asked for before u
          answered,  \* turns whose answer is saved
          reported   \* turns the clients were told are completed

vars == <<phase, ahead, answered, reported>>

Open == {t \in Turns : phase[t] # "idle"}

Init ==
    /\ phase = [t \in Turns |-> "idle"]
    /\ ahead = {} /\ answered = {} /\ reported = {}

\* Asked for once more, after it was forgotten, a turn starts from nothing but
\* its answer.
Ask(t) ==
    /\ phase[t] = "idle"
    /\ phase' = [phase EXCEPT ![t] = "waiting"]
    /\ ahead' = ahead \cup (Open \X {t})
    /\ reported' = reported \ {t}
    /\ UNCHANGED answered

\* Of two open turns one is ahead of the other, so no two ever run.
Start(t) ==
    /\ phase[t] = "waiting"
    /\ \A u \in Turns : <<u, t>> \notin ahead
    /\ phase' = [phase EXCEPT ![t] = "running"]
    /\ UNCHANGED <<ahead, answered, reported>>

Answer(t) ==
    /\ phase[t] = "running"
    /\ t \notin answered
    /\ answered' = answered \cup {t}
    /\ UNCHANGED <<phase, ahead, reported>>

Report(t) ==
    /\ phase[t] = "running"
    /\ t \in answered \ reported
    /\ reported' = reported \cup {t}
    /\ UNCHANGED <<phase, ahead, answered>>

\* Answered, reported or not: the next turn may go on.
End(t) ==
    /\ phase[t] = "running"
    /\ phase' = [phase EXCEPT ![t] = "idle"]
    /\ ahead' = {p \in ahead : p[1] # t /\ p[2] # t}
    /\ UNCHANGED <<answered, reported>>

\* The process dies, and with it all but the answers.
Forget ==
    /\ phase' = [t \in Turns |-> "idle"]
    /\ ahead' = {} /\ reported' = {}
    /\ UNCHANGED answered

Next ==
    \/ \E t \in Turns : Ask(t) \/ Start(t) \/ Answer(t) \/ Report(t) \/ End(t)
    \/ Forget

Spec == Init /\ [][Next]_vars
==============================================================================
