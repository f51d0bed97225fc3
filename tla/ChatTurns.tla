----------------------------- MODULE ChatTurns ------------------------------
(***************************************************************************)
(* The turns of one chat thread (services/chat/src): the queue that runs   *)
(* them one after another, the event history clients stream and resume,    *)
(* the tombstones of turns that were evicted, the answer each turn saves,  *)
(* and the read that tells a reloading client which turn to attach to.     *)
(*                                                                         *)
(* The coordinator is one JavaScript process: what runs without an await   *)
(* is one action.  Turns outlive their clients and the answers outlive the *)
(* process, so a restart forgets everything but `answers`.                 *)
(***************************************************************************)
EXTENDS Naturals, Sequences, FiniteSets

CONSTANTS Turns, Clients, NoTurn,
          MaxEvents,    \* events of a turn, turn.started and the last included
          HighWater,    \* frames a socket buffers before write returns false
          MaxPending,   \* maxPendingFrames
          MaxStarts,    \* bound: runs of one turn
          MaxRestarts, MaxExpired, MaxBeats, MaxFaults  \* bounds on the environment

ASSUME ConstantsAssumption ==
    /\ NoTurn \notin Turns
    /\ HighWater \in Nat \ {0} /\ MaxPending \in Nat \ {0}
    /\ MaxEvents \in Nat /\ MaxEvents >= 2 /\ MaxStarts \in Nat \ {0}
    /\ MaxRestarts \in Nat /\ MaxExpired \in Nat /\ MaxBeats \in Nat /\ MaxFaults \in Nat

VARIABLES
    retained, older,           \* the turns map, and <<t, u>>: t entered it before u
    stage, events, terminal,   \* per turn: its handle
    committed,                 \* the turn's answer is in the database
    after, tail,               \* the promise a turn waits for; threadQueues
    tombs,                     \* completedTurnTombstones
    starts,                    \* how often the turn was started
    answers,                   \* rows of chat_messages: <<turn, start>>
    conn, heard, wrote, writer, \* per client: the stream route
    goal, last,                \* per client: the turn it follows, its last event id
    read,                      \* the messages request under way
    restarts, expired, beats, faults

turnVars == <<retained, older, stage, events, terminal, committed, after, tail, tombs, starts>>
streamVars == <<conn, heard, wrote, writer, goal, last>>
bounds == <<restarts, expired, beats, faults>>
vars == <<turnVars, answers, streamVars, read, bounds>>

Closed == [open |-> FALSE, wire |-> <<>>, pend |-> <<>>, blocked |-> FALSE]
Fresh == [open |-> TRUE, wire |-> <<>>, pend |-> <<>>, blocked |-> FALSE]
NoRead == [at |-> "none", before |-> {}, order |-> {}, ids |-> {}, active |-> NoTurn]

Init ==
    /\ retained = {} /\ older = {} /\ tombs = {} /\ tail = NoTurn /\ answers = {}
    /\ stage = [t \in Turns |-> "none"] /\ events = [t \in Turns |-> 0]
    /\ terminal = [t \in Turns |-> "none"] /\ committed = [t \in Turns |-> FALSE]
    /\ after = [t \in Turns |-> NoTurn] /\ starts = [t \in Turns |-> 0]
    /\ conn = [c \in Clients |-> NoTurn] /\ heard = [c \in Clients |-> 0]
    /\ wrote = [c \in Clients |-> 0] /\ writer = [c \in Clients |-> Closed]
    /\ goal = [c \in Clients |-> NoTurn] /\ last = [c \in Clients |-> 0]
    /\ read = NoRead
    /\ restarts = 0 /\ expired = 0 /\ beats = 0 /\ faults = 0

-----------------------------------------------------------------------------
(* The frame writer (http.ts createSseFrameWriter).                        *)

\* Mutant: a full queue loses the frame instead of the client.
WriteOrDrop(w, f) ==
    CASE ~w.open -> w
      [] w.open /\ w.blocked /\ Len(w.pend) >= MaxPending -> w
      [] w.open /\ w.blocked /\ Len(w.pend) < MaxPending -> [w EXCEPT !.pend = Append(@, f)]
      [] OTHER -> [w EXCEPT !.wire = Append(@, f), !.blocked = Len(w.wire) + 1 >= HighWater]

\* A client too slow for the queue is destroyed, with all that was queued.
Write(w, f) ==
    CASE ~w.open -> w
      [] w.open /\ w.blocked /\ Len(w.pend) >= MaxPending -> Closed
      [] w.open /\ w.blocked /\ Len(w.pend) < MaxPending -> [w EXCEPT !.pend = Append(@, f)]
      [] OTHER -> [w EXCEPT !.wire = Append(@, f), !.blocked = Len(w.wire) + 1 >= HighWater]

\* drain: the socket took everything, the queue follows until it is full again.
Drained(w) ==
    LET n == IF Len(w.pend) < HighWater THEN Len(w.pend) ELSE HighWater IN
    [w EXCEPT !.wire = SubSeq(w.pend, 1, n),
              !.pend = SubSeq(w.pend, n + 1, Len(w.pend)), !.blocked = n = HighWater]

Listens(c, t) == conn[c] = t /\ heard[c] = starts[t]

\* append: every subscriber gets the event it has not been written yet.
Publish(t, e) ==
    /\ events' = [events EXCEPT ![t] = e]
    /\ writer' = [c \in Clients |-> IF Listens(c, t) /\ e > wrote[c]
                                    THEN Write(writer[c], e) ELSE writer[c]]
    /\ wrote' = [c \in Clients |-> IF Listens(c, t) /\ e > wrote[c] THEN e ELSE wrote[c]]
    /\ UNCHANGED <<conn, heard, goal, last>>

-----------------------------------------------------------------------------
(* The coordinator's maps (coordinator.ts createChatCoordinator).          *)

Done == {t \in retained : stage[t] = "done"}

\* pruneCompletedTurns, at the head of every call: the retention and the cap
\* on completed turns take the oldest of them (E), and tombstones run out (X).
Prunes(E, X, completed) ==
    /\ \A t \in completed, u \in E : <<t, u>> \in older => t \in E
    /\ expired + Cardinality(X) <= MaxExpired
    /\ read.at \in {"reading", "read"} => X = {}

\* Mutant: an evicted turn leaves nothing behind.
NoTombstones(E, X) == tombs \ X

Tombstones(E, X) == (tombs \ X) \cup E

\* What is left of the turns map without E: its turns and their order.
Without(E) == {p \in older : p[1] \notin E /\ p[2] \notin E}

Remembers(E, X) ==
    /\ tombs' = Tombstones(E, X)
    /\ expired' = expired + Cardinality(X)

Pruned(E, X) ==
    /\ retained' = retained \ E /\ older' = Without(E)
    /\ Remembers(E, X)

\* getOrCreateTurn for a turn the process does not know: the turn joins the
\* end of the thread's promise chain.
Create(t, E) ==
    /\ starts[t] < MaxStarts
    /\ retained' = (retained \ E) \cup {t}
    /\ older' = Without(E) \cup ((retained \ E) \X {t})
    /\ stage' = [stage EXCEPT ![t] = "queued"]
    /\ events' = [events EXCEPT ![t] = 0] /\ terminal' = [terminal EXCEPT ![t] = "none"]
    /\ committed' = [committed EXCEPT ![t] = FALSE]
    /\ after' = [after EXCEPT ![t] = tail] /\ tail' = t
    /\ starts' = [starts EXCEPT ![t] = @ + 1]

-----------------------------------------------------------------------------
(* The stream route (http.ts).                                             *)

\* The history after the event `from`, frame by frame, into a fresh writer.
Replay(from, n) ==
    LET w[k \in 0..n] == IF k = 0 THEN Fresh
                         ELSE Write(w[k - 1], from + k)
    IN w[n]

\* Subscribe, then replay what the client's last event id leaves out.
Subscribe(c, t, from) ==
    /\ conn' = [conn EXCEPT ![c] = t] /\ heard' = [heard EXCEPT ![c] = starts'[t]]
    /\ wrote' = [wrote EXCEPT ![c] = events'[t]]
    /\ writer' = [writer EXCEPT ![c] = Replay(from, events'[t] - from)]

\* A stream request: without an event id it finds or starts the turn, with
\* one (or with attach) it only finds it; anything else is refused.
Connect(c, t, attach) ==
    LET from == IF goal[c] = t THEN last[c] ELSE 0 IN
    \E E \in SUBSET Done, X \in SUBSET tombs :
       LET found == t \in retained \ E
           refused == t \in Tombstones(E, X)
           creates == ~found /\ ~refused /\ ~attach /\ from = 0
       IN
       /\ ~writer[c].open
       /\ Prunes(E, X, Done)
       /\ IF creates THEN Create(t, E) /\ Remembers(E, X)
          ELSE Pruned(E, X) /\ UNCHANGED <<stage, events, terminal, committed, after,
                                           tail, starts>>
       /\ IF creates \/ (found /\ from <= events[t])
          THEN Subscribe(c, t, from)
          ELSE UNCHANGED <<conn, heard, wrote, writer>>
       /\ goal' = [goal EXCEPT ![c] = t] /\ last' = [last EXCEPT ![c] = from]
       /\ UNCHANGED <<answers, read, restarts, beats, faults>>

\* The client hears the next frame; an emptied socket drains the queue.
Deliver(c) ==
    /\ writer[c].open /\ writer[c].wire # <<>>
    /\ LET w == [writer[c] EXCEPT !.wire = Tail(@)] IN
       writer' = [writer EXCEPT ![c] =
                    IF w.wire = <<>> /\ w.blocked THEN Drained(w) ELSE w]
    /\ last' = [last EXCEPT ![c] =
                  IF Head(writer[c].wire) = 0 THEN @ ELSE Head(writer[c].wire)]
    /\ UNCHANGED <<turnVars, answers, conn, heard, wrote, goal, read, bounds>>

\* A heartbeat takes a place in the queue but carries no event id.
Heartbeat(c) ==
    /\ writer[c].open /\ beats < MaxBeats
    /\ writer' = [writer EXCEPT ![c] = Write(@, 0)]
    /\ beats' = beats + 1
    /\ UNCHANGED <<turnVars, answers, conn, heard, wrote, goal, last, read, restarts,
                   expired, faults>>

Disconnect(c) ==
    /\ writer[c].open
    /\ writer' = [writer EXCEPT ![c] = Closed]
    /\ conn' = [conn EXCEPT ![c] = NoTurn] /\ heard' = [heard EXCEPT ![c] = 0]
    /\ wrote' = [wrote EXCEPT ![c] = 0]
    /\ UNCHANGED <<turnVars, answers, goal, last, read, bounds>>

-----------------------------------------------------------------------------
(* A turn (coordinator.ts MutableChatTurnHandle, toolBackedAnalystTurnRunner; *)
(* messages.ts persistSealedChatMessage).                                  *)

Run(t) ==
    /\ stage[t] = "queued" /\ after[t] = NoTurn
    /\ stage' = [stage EXCEPT ![t] = "running"]
    /\ Publish(t, 1)
    /\ UNCHANGED <<retained, older, terminal, committed, after, tail, tombs, starts, answers,
                   read, bounds>>

Running(t) == stage[t] = "running" /\ terminal[t] = "none"

\* Tool calls, blocks: one more event, the last one is kept for the end.
Emit(t) ==
    /\ Running(t) /\ events[t] < MaxEvents - 1
    /\ Publish(t, events[t] + 1)
    /\ UNCHANGED <<retained, older, stage, terminal, committed, after, tail, tombs, starts,
                   answers, read, bounds>>

\* Mutant: every start saves its answer under an id of its own.
SaveNew(t) == answers \cup {<<t, starts[t]>>}

\* The answer's id is the turn's: a turn run again keeps the first answer.
Saved(t) == IF \E a \in answers : a[1] = t THEN answers ELSE answers \cup {<<t, starts[t]>>}

Save(t) ==
    /\ Running(t) /\ ~committed[t]
    /\ answers' = Saved(t)
    /\ committed' = [committed EXCEPT ![t] = TRUE]
    /\ UNCHANGED <<retained, older, stage, events, terminal, after, tail, tombs, starts,
                   streamVars, read, bounds>>

End(t, how) ==
    /\ terminal' = [terminal EXCEPT ![t] = how]
    /\ Publish(t, events[t] + 1)
    /\ UNCHANGED <<retained, older, stage, committed, after, tail, tombs, starts, answers, read>>

\* Mutant: a turn without a saved answer is reported as completed.
CompleteAnyway(t) == Running(t) /\ End(t, "completed") /\ UNCHANGED bounds

\* turn.completed with the saved message, also when it could not be read back;
\* or, unverified, with nothing saved.
Complete(t) ==
    /\ Running(t)
    /\ End(t, IF committed[t] THEN "completed" ELSE "unverified")
    /\ UNCHANGED bounds

\* turn.error: the runner failed, or the reply to its commit was lost.
Fail(t) ==
    /\ Running(t) /\ faults < MaxFaults
    /\ faults' = faults + 1
    /\ End(t, "error")
    /\ UNCHANGED <<restarts, expired, beats>>

\* Mutant: a failed turn stops the queue.
WaitersOfSuccess(t) == {u \in Turns : after[u] = t /\ terminal[t] # "error"}

\* Who waits for the turn goes on, whatever became of it.
Waiters(t) == {u \in Turns : after[u] = t}

\* Mutant: whichever turn ends takes the thread's queue entry away.
NextTail(t) == NoTurn

\* The entry goes with the last turn of the queue only.
TailAfter(t) == IF tail = t THEN NoTurn ELSE tail

\* run() settled: completed resolves, which prunes, and the queue moves on.
Settle(t) ==
    /\ stage[t] = "running" /\ terminal[t] # "none"
    /\ stage' = [stage EXCEPT ![t] = "done"]
    /\ after' = [u \in Turns |-> IF u \in Waiters(t) THEN NoTurn ELSE after[u]]
    /\ tail' = TailAfter(t)
    /\ \E E \in SUBSET (Done \cup {t}), X \in SUBSET tombs :
          Prunes(E, X, Done \cup {t}) /\ Pruned(E, X)
    /\ UNCHANGED <<events, terminal, committed, starts, answers, streamVars, read,
                   restarts, beats, faults>>

-----------------------------------------------------------------------------
(* Reading the thread (coordinator.ts readThread).                         *)

InFlight == {t \in retained : stage[t] \in {"queued", "running"} /\ terminal[t] = "none"}

Prune == \E E \in SUBSET Done, X \in SUBSET tombs : Prunes(E, X, Done) /\ Pruned(E, X)

\* What is in flight before the messages are read, oldest first.
StartRead ==
    /\ read.at \in {"none", "told"}
    /\ Prune
    /\ read' = [NoRead EXCEPT !.at = "reading", !.before = InFlight,
                              !.order = {p \in older : p[1] \in InFlight /\ p[2] \in InFlight}]
    /\ UNCHANGED <<stage, events, terminal, committed, after, tail, starts, answers,
                   streamVars, restarts, beats, faults>>

ReadMessages ==
    /\ read.at = "reading"
    /\ read' = [read EXCEPT !.at = "read", !.ids = {a[1] : a \in answers}]
    /\ UNCHANGED <<turnVars, answers, streamVars, bounds>>

\* runStatus is completed by an answer that is in the read.
Answered(t) == terminal[t] \in {"none", "completed"} /\ t \in read.ids

Unanswered(S) == {t \in S : ~Answered(t)}

\* The first of S, or NoTurn.
Oldest(S, order) ==
    IF S = {} THEN NoTurn ELSE CHOOSE t \in S : \A u \in S : <<u, t>> \notin order

\* Mutant: only what is in flight after the read is looked at.
SuspectAfter == Oldest(Unanswered(InFlight), older)

\* A turn may have ended during the read, after its messages were read, so
\* those in flight before it come first.
Suspect ==
    IF Unanswered(read.before) # {} THEN Oldest(Unanswered(read.before), read.order)
    ELSE Oldest(Unanswered(InFlight), older)

\* The client is told the oldest turn that was or is in flight and that the
\* messages do not answer.
EndRead ==
    /\ read.at = "read"
    /\ Prune
    /\ read' = [NoRead EXCEPT !.at = "told", !.active = Suspect]
    /\ UNCHANGED <<stage, events, terminal, committed, after, tail, starts, answers,
                   streamVars, restarts, beats, faults>>

-----------------------------------------------------------------------------
\* The process dies: only the database and the clients' event ids remain.
Restart ==
    /\ restarts < MaxRestarts
    /\ restarts' = restarts + 1
    /\ retained' = {} /\ older' = {} /\ tombs' = {} /\ tail' = NoTurn
    /\ stage' = [t \in Turns |-> "none"] /\ events' = [t \in Turns |-> 0]
    /\ terminal' = [t \in Turns |-> "none"] /\ committed' = [t \in Turns |-> FALSE]
    /\ after' = [t \in Turns |-> NoTurn]
    /\ conn' = [c \in Clients |-> NoTurn] /\ heard' = [c \in Clients |-> 0]
    /\ wrote' = [c \in Clients |-> 0] /\ writer' = [c \in Clients |-> Closed]
    /\ read' = NoRead
    /\ UNCHANGED <<starts, answers, goal, last, expired, beats, faults>>

TurnStep(t) == Run(t) \/ Emit(t) \/ Save(t) \/ Complete(t) \/ Fail(t) \/ Settle(t)

ClientStep(c) ==
    \/ \E t \in Turns, attach \in BOOLEAN : Connect(c, t, attach)
    \/ Deliver(c) \/ Heartbeat(c) \/ Disconnect(c)

Next ==
    \/ \E t \in Turns : TurnStep(t)
    \/ \E c \in Clients : ClientStep(c)
    \/ StartRead \/ ReadMessages \/ EndRead \/ Restart

Spec == Init /\ [][Next]_vars

\* A turn's runner makes progress whether or not a client listens.
FairSpec == Spec /\ \A t \in Turns : WF_vars(TurnStep(t))

-----------------------------------------------------------------------------
(* Properties.                                                             *)

Frames(w) == w.wire \o w.pend

\* Every variable has its type; a socket and its queue stay within their
\* limits, so a slow client cannot fill the process (http.ts
\* maxPendingFrames).
TypeOK ==
    /\ retained \in SUBSET Turns /\ older \in SUBSET (retained \X retained)
    /\ stage \in [Turns -> {"none", "queued", "running", "done"}]
    /\ events \in [Turns -> 0..MaxEvents]
    /\ terminal \in [Turns -> {"none", "completed", "unverified", "error"}]
    /\ committed \in [Turns -> BOOLEAN]
    /\ after \in [Turns -> Turns \cup {NoTurn}] /\ tail \in Turns \cup {NoTurn}
    /\ tombs \in SUBSET Turns /\ starts \in [Turns -> 0..MaxStarts]
    /\ answers \in SUBSET (Turns \X (1..MaxStarts))
    /\ conn \in [Clients -> Turns \cup {NoTurn}] /\ goal \in [Clients -> Turns \cup {NoTurn}]
    /\ heard \in [Clients -> Nat] /\ wrote \in [Clients -> Nat] /\ last \in [Clients -> Nat]
    /\ writer \in [Clients -> [open : BOOLEAN, wire : Seq(Nat), pend : Seq(Nat),
                               blocked : BOOLEAN]]
    /\ \A c \in Clients : Len(writer[c].wire) <= HighWater /\ Len(writer[c].pend) <= MaxPending
    /\ read \in [at : {"none", "reading", "read", "told"}, before : SUBSET Turns,
                 order : SUBSET (Turns \X Turns), ids : SUBSET Turns,
                 active : Turns \cup {NoTurn}]
    /\ restarts \in Nat /\ expired \in Nat /\ beats \in Nat /\ faults \in Nat

\* The turns of a thread run one at a time, in the order they were asked for:
\* a turn starts only when every older one has settled, however many were
\* queued, failed or evicted meanwhile (README "serializes turn execution").
OneAtATime ==
    /\ \A t, u \in Turns : stage[t] = "running" /\ stage[u] = "running" => t = u
    /\ \A t, u \in retained :
          <<t, u>> \in older /\ stage[u] # "queued" => stage[t] = "done"

\* What a client hears of a turn has no gap and no repetition, across
\* disconnects, back pressure and resumes by event id (README "SSE reconnect
\* with Last-Event-ID").
StreamInOrder ==
    [][\A c \in Clients :
          (goal'[c] = goal[c] /\ last'[c] # last[c]) => last'[c] = last[c] + 1]_vars

\* While the process lives and remembers, no request starts a turn again
\* (README "instead of rerunning tool calls or snapshot sealing").
RunOnce == \A t \in Turns : starts[t] <= 1 + restarts + expired

\* A turn has at most one answer, however often it was started, and one that
\* was reported as completed has one (messages.ts "A turn re-run after a
\* restart keeps the answer its first attempt saved").
AnswerOnce ==
    \A t \in Turns :
        LET rows == {a \in answers : a[1] = t} IN
        Cardinality(rows) <= 1 /\ (terminal[t] = "completed" => rows # {})

\* A reload that is told of no active turn has the answers of all turns that
\* were in flight when it started (coordinator.ts readThread).
ReadFindsAnswer ==
    [][EndRead /\ read'.active = NoTurn => read.before \subseteq read.ids]_vars

\* README: "A turn whose saved answer is in `messages` is never reported".
AnsweredNotReported == [][EndRead => read'.active \notin read.ids]_vars

Unsettled == {t \in Turns : stage[t] \in {"queued", "running"}}

Phase == [t \in Turns |-> CASE stage[t] = "queued" -> "waiting"
                          [] stage[t] = "running" -> "running"
                          [] OTHER -> "idle"]

Ahead == {p \in older : p[1] \in Unsettled /\ p[2] \in Unsettled}

\* The thread keeps its promise: turns run in the order they were asked for,
\* are answered once and are reported only with their answer, whatever is
\* pruned, forgotten, resumed or restarted.
Contract == INSTANCE ThreadContract WITH
    phase <- Phase,
    ahead <- Ahead,
    answered <- {a[1] : a \in answers},
    reported <- {t \in Turns : terminal[t] = "completed"}

KeepsContract == Contract!Spec

\* Every turn that was asked for ends, unless the process dies first, also
\* behind a turn that failed.
QueueMoves ==
    \A t \in Turns : stage[t] = "queued" ~> stage[t] \in {"done", "none"}
=============================================================================
