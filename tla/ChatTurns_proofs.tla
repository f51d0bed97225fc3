-------------------------- MODULE ChatTurns_proofs --------------------------
(***************************************************************************)
(* Proofs about ChatTurns, for any number of turns and clients, any limits *)
(* of the frame writer and any number of restarts, evictions and faults.   *)
(*                                                                         *)
(* The argument has three independent parts.  QueueInv: the promise chain  *)
(* links the unsettled turns in the order of the turns map, and threadQueues*)
(* points at the last of them.  MemoryInv: a turn is started again only    *)
(* when neither the map nor a tombstone remembers it.  StreamInv: what an  *)
(* open writer holds is exactly what its client has not heard of the       *)
(* events it was written.                                                  *)
(***************************************************************************)
EXTENDS ChatTurns, FiniteSetTheorems, SequenceTheorems, WellFoundedInduction, TLAPS

USE ConstantsAssumption

\* `older` is a strict total order of the retained turns.
OrderInv ==
    /\ \A t \in retained : <<t, t>> \notin older
    /\ \A t, u \in retained : t = u \/ <<t, u>> \in older \/ <<u, t>> \in older
    /\ \A t, u, v \in retained :
          <<t, u>> \in older /\ <<u, v>> \in older => <<t, v>> \in older

\* The chain: an unsettled turn waits for the youngest older unsettled one.
ChainInv ==
    /\ Unsettled \subseteq retained
    /\ \A u \in Turns : after[u] # NoTurn =>
          /\ stage[u] = "queued"
          /\ after[u] \in Unsettled
          /\ <<after[u], u>> \in older
          /\ \A v \in Unsettled : <<v, u>> \in older => v = after[u] \/ <<v, after[u]>> \in older
    /\ \A u \in Unsettled : after[u] = NoTurn => \A v \in Unsettled : <<v, u>> \notin older
    /\ tail = NoTurn => Unsettled = {}
    /\ tail # NoTurn => tail \in Unsettled /\ \A v \in Unsettled : v = tail \/ <<v, tail>> \in older

\* What the stage of a turn says of it and of the older ones.
StageInv ==
    /\ \A t \in retained : stage[t] # "none"
    /\ \A t, u \in retained : <<t, u>> \in older /\ stage[u] = "done" => stage[t] = "done"
    /\ \A t \in Turns : stage[t] = "queued" => events[t] = 0
    /\ \A t \in Turns : stage[t] = "running" /\ terminal[t] = "none" => events[t] \in 1..(MaxEvents - 1)

QueueInv == OrderInv /\ ChainInv /\ StageInv

Remembered == retained \cup tombs

MemoryInv ==
    /\ IsFiniteSet(retained) /\ IsFiniteSet(tombs)
    /\ \A t \in Turns : starts[t] <= restarts + expired + (IF t \in Remembered THEN 1 ELSE 0)

AnswerInv ==
    /\ \A a, b \in answers : a[1] = b[1] => a = b
    /\ \A t \in Turns : committed[t] \/ terminal[t] = "completed" => \E a \in answers : a[1] = t
    /\ \A t \in retained : starts[t] >= 1

\* The event frames in f are exactly those after `from` up to `to`, in order.
Carries(f, from, to) ==
    /\ from <= to
    /\ \A i \in 1..Len(f) : f[i] # 0 => f[i] \in (from + 1)..to
    /\ \A i, j \in 1..Len(f) : i < j /\ f[i] # 0 /\ f[j] # 0 => f[i] < f[j]
    /\ \A e \in (from + 1)..to : \E i \in 1..Len(f) : f[i] = e

\* A writer that is not blocked has room on the wire and nothing pending.
WriterOK(w) == ~w.blocked => w.pend = <<>> /\ Len(w.wire) < HighWater

StreamInv ==
    /\ \A c \in Clients :
          /\ writer[c].open => WriterOK(writer[c]) /\ Carries(Frames(writer[c]), last[c], wrote[c])
          /\ conn[c] # NoTurn => heard[c] <= starts[conn[c]]
    /\ \A c \in Clients, t \in Turns : Listens(c, t) => wrote[c] = events[t]

\* The turns a read found in flight are in the order of the queue.
ReadInv ==
    /\ IsFiniteSet(read.before)
    /\ \A t \in read.before : <<t, t>> \notin read.order
    /\ \A t, u, v \in read.before :
          <<t, u>> \in read.order /\ <<u, v>> \in read.order => <<t, v>> \in read.order

IInv == TypeOK /\ QueueInv /\ MemoryInv /\ AnswerInv /\ StreamInv /\ ReadInv

-----------------------------------------------------------------------------
(* Induction over numbers and finite sets, stated over sets.               *)

\* A set of numbers that holds 0 and every successor holds all numbers.
LEMMA NatInduct ==
    ASSUME NEW T \in SUBSET Nat, 0 \in T, \A n \in T : n + 1 \in T
    PROVE  T = Nat
<1> DEFINE R == {p \in Nat \X Nat : p[1] < p[2]}
           B == Nat \ T
<1>1. IsWellFoundedOn(R, Nat)
  BY NatLessThanWellFounded DEF OpToRel
<1> HIDE DEF R
<1>2. SUFFICES ASSUME B # {} PROVE FALSE
  OBVIOUS
<1>3. PICK x \in B : \A y \in B : ~(<<y, x>> \in R)
  <2>1. \E x \in B : \A y \in B : ~(<<y, x>> \in R)
    BY <1>1, <1>2, WFMin
  <2> QED
    BY <2>1
<1>4. x # 0 /\ x - 1 \in Nat /\ x - 1 < x
  BY <1>3
<1>5. <<x - 1, x>> \in R
  BY <1>4 DEF R
<1>6. x - 1 \in T
  BY <1>3, <1>4, <1>5
<1> QED
  BY <1>4, <1>6

\* A strict order has a least element in every finite set that is not empty.
LEMMA FiniteMin ==
    ASSUME NEW S, IsFiniteSet(S), S # {}, NEW R,
           \A t \in S : <<t, t>> \notin R,
           \A t, u, v \in S : <<t, u>> \in R /\ <<u, v>> \in R => <<t, v>> \in R
    PROVE  \E t \in S : \A u \in S : <<u, t>> \notin R
<1> DEFINE HasMin(A) == \E t \in A : \A u \in A : <<u, t>> \notin R
           Small(n) == {A \in SUBSET S : IsFiniteSet(A) /\ Cardinality(A) = n /\ A # {}}
           T == {n \in Nat : \A A \in Small(n) : HasMin(A)}
<1>1. 0 \in T
  BY FS_EmptySet
<1>2. ASSUME NEW n \in T PROVE n + 1 \in T
  <2> SUFFICES ASSUME NEW A \in Small(n + 1) PROVE HasMin(A)
    OBVIOUS
  <2>1. PICK x \in A : TRUE
    OBVIOUS
  <2> DEFINE C == A \ {x}
  <2>2. IsFiniteSet(C) /\ Cardinality(C) = n
    <3>1. IsFiniteSet(A) /\ Cardinality(A) = n + 1 /\ n \in Nat
      OBVIOUS
    <3>2. IsFiniteSet(C) /\ Cardinality(C) = Cardinality(A) - 1
      BY <3>1, <2>1, FS_RemoveElement
    <3> QED
      BY <3>1, <3>2
  <2>3. CASE C = {}
    <3>1. A = {x}
      BY <2>1, <2>3
    <3> QED
      BY <3>1
  <2>4. CASE C # {}
    <3>1. C \in Small(n)
      BY <2>2, <2>4
    <3>2. PICK m \in C : \A u \in C : <<u, m>> \notin R
      BY <3>1
    <3>3. CASE <<x, m>> \in R
      <4>1. \A u \in A : <<u, x>> \notin R
        BY <3>2, <3>3
      <4> QED
        BY <4>1
    <3>4. CASE <<x, m>> \notin R
      BY <3>2, <3>4
    <3> QED
      BY <3>3, <3>4
  <2> QED
    BY <2>3, <2>4
<1> HIDE DEF T
<1>3. T = Nat
  <2>1. T \in SUBSET Nat
    BY DEF T
  <2> QED
    BY <1>1, <1>2, <2>1, NatInduct
<1>4. Cardinality(S) \in Nat /\ S \in Small(Cardinality(S))
  BY FS_CardinalityType
<1> QED
  BY <1>3, <1>4 DEF T

-----------------------------------------------------------------------------
(* The frame writer.                                                       *)

Writers == [open : BOOLEAN, wire : Seq(Nat), pend : Seq(Nat), blocked : BOOLEAN]

Fits(w) == Len(w.wire) <= HighWater /\ Len(w.pend) <= MaxPending

\* A frame joins the end of what the writer holds, or the client is cut off.
LEMMA WriteFrames ==
    ASSUME NEW w \in Writers, Fits(w), w.open => WriterOK(w), NEW f \in Nat
    PROVE  /\ Write(w, f) \in Writers /\ Fits(Write(w, f))
           /\ Write(w, f).open => w.open
           /\ Write(w, f).open =>
                 WriterOK(Write(w, f)) /\ Frames(Write(w, f)) = Append(Frames(w), f)
<1>1. CASE ~w.open
  BY <1>1 DEF Write
<1>2. CASE w.open /\ w.blocked /\ Len(w.pend) >= MaxPending
  BY <1>2 DEF Write, Closed, Writers, Fits
<1>3. CASE w.open /\ w.blocked /\ Len(w.pend) < MaxPending
  <2>1. Write(w, f) = [w EXCEPT !.pend = Append(w.pend, f)]
    BY <1>3 DEF Write
  <2>2. w.wire \o Append(w.pend, f) = Append(w.wire \o w.pend, f)
    BY DEF Writers
  <2>3. Len(Append(w.pend, f)) = Len(w.pend) + 1 /\ Append(w.pend, f) \in Seq(Nat)
    BY DEF Writers
  <2>4. Write(w, f) \in Writers /\ Write(w, f).blocked /\ Write(w, f).wire = w.wire
        /\ Write(w, f).pend = Append(w.pend, f) /\ Write(w, f).open = w.open
    BY <1>3, <2>1, <2>3 DEF Writers
  <2> QED
    BY <1>3, <2>2, <2>3, <2>4 DEF Fits, WriterOK, Frames, Writers
<1>4. CASE w.open /\ ~w.blocked
  <2>1. Write(w, f) = [w EXCEPT !.wire = Append(w.wire, f), !.blocked = Len(w.wire) + 1 >= HighWater]
    BY <1>4 DEF Write
  <2>2. w.pend = <<>> => Append(w.wire, f) \o w.pend = Append(w.wire \o w.pend, f)
    BY DEF Writers
  <2>3. Len(Append(w.wire, f)) = Len(w.wire) + 1 /\ Append(w.wire, f) \in Seq(Nat)
    BY DEF Writers
  <2> DEFINE full == Len(w.wire) + 1 >= HighWater
             x == [w EXCEPT !.wire = Append(w.wire, f), !.blocked = full]
  <2>4. x \in Writers /\ x.blocked = full /\ x.wire = Append(w.wire, f) /\ x.pend = w.pend
        /\ x.open = w.open
    <3>1. full \in BOOLEAN
      OBVIOUS
    <3> HIDE DEF full
    <3> QED
      BY <2>3, <3>1 DEF Writers
  <2>5. Len(w.wire) \in Nat /\ w.pend = <<>> /\ Len(w.wire) < HighWater
    BY <1>4 DEF Writers, WriterOK
  <2>6. x = Write(w, f)
    BY <2>1
  <2> HIDE DEF x
  <2>7. ~x.blocked => ~full
    BY <2>4
  <2>8. (~x.blocked => Len(x.wire) < HighWater) /\ Len(x.wire) <= HighWater
    BY <2>3, <2>4, <2>5, <2>7
  <2> HIDE DEF full
  <2> QED
    BY <1>4, <2>2, <2>4, <2>5, <2>6, <2>7, <2>8 DEF Fits, WriterOK, Frames
<1> QED
  BY <1>1, <1>2, <1>3, <1>4 DEF Writers

LEMMA AppendCarries ==
    ASSUME NEW s \in Seq(Nat), NEW f \in Nat,
           NEW from \in Nat, NEW to \in Nat, Carries(s, from, to)
    PROVE  /\ f = to + 1 => Carries(Append(s, f), from, to + 1)
           /\ f = 0 => Carries(Append(s, f), from, to)
<1> DEFINE r == Append(s, f)
           n == Len(s)
<1>1. /\ n \in Nat /\ Len(r) = n + 1 /\ r[n + 1] = f
      /\ \A i \in 1..n : r[i] = s[i] /\ s[i] \in Nat
  OBVIOUS
<1>2. /\ from <= to
      /\ \A i \in 1..n : s[i] # 0 => s[i] \in (from + 1)..to
      /\ \A i, j \in 1..n : i < j /\ s[i] # 0 /\ s[j] # 0 => s[i] < s[j]
      /\ \A e \in (from + 1)..to : \E i \in 1..n : s[i] = e
  BY DEF Carries
<1> HIDE DEF r, n
<1>3. \A i \in 1..(n + 1) : i \in 1..n \/ i = n + 1
  BY <1>1
<1>4. ASSUME f = to + 1 PROVE Carries(r, from, to + 1)
  <2>1. \A i \in 1..(n + 1) : r[i] # 0 => r[i] \in (from + 1)..(to + 1)
    <3> SUFFICES ASSUME NEW i \in 1..(n + 1), r[i] # 0 PROVE r[i] \in (from + 1)..(to + 1)
      OBVIOUS
    <3>1. CASE i = n + 1
      BY <1>1, <1>2, <1>4, <3>1
    <3>2. CASE i \in 1..n
      <4>1. s[i] \in (from + 1)..to /\ r[i] = s[i]
        BY <1>1, <1>2, <3>2
      <4> QED
        BY <4>1
    <3> QED
      BY <1>3, <3>1, <3>2
  <2>2. \A i, j \in 1..(n + 1) : i < j /\ r[i] # 0 /\ r[j] # 0 => r[i] < r[j]
    <3> SUFFICES ASSUME NEW i \in 1..(n + 1), NEW j \in 1..(n + 1), i < j, r[i] # 0, r[j] # 0
                 PROVE  r[i] < r[j]
      OBVIOUS
    <3>1. i \in 1..n /\ s[i] \in (from + 1)..to
      BY <1>1, <1>2
    <3>2. CASE j \in 1..n
      BY <1>1, <1>2, <3>1, <3>2
    <3>3. CASE j = n + 1
      BY <1>1, <1>4, <3>1, <3>3
    <3> QED
      BY <1>3, <3>2, <3>3
  <2>3. \A e \in (from + 1)..(to + 1) : \E i \in 1..(n + 1) : r[i] = e
    <3> SUFFICES ASSUME NEW e \in (from + 1)..(to + 1) PROVE \E i \in 1..(n + 1) : r[i] = e
      OBVIOUS
    <3>1. CASE e = to + 1
      BY <1>1, <1>4, <3>1
    <3>2. CASE e \in (from + 1)..to
      BY <1>1, <1>2, <3>2
    <3> QED
      BY <3>1, <3>2
  <2> QED
    BY <1>1, <1>2, <2>1, <2>2, <2>3 DEF Carries
<1>5. ASSUME f = 0 PROVE Carries(r, from, to)
  <2>1. \A i \in 1..(n + 1) : r[i] # 0 => i \in 1..n
    BY <1>1, <1>3, <1>5
  <2>2. \A e \in (from + 1)..to : \E i \in 1..(n + 1) : r[i] = e
    <3> SUFFICES ASSUME NEW e \in (from + 1)..to PROVE \E i \in 1..(n + 1) : r[i] = e
      OBVIOUS
    <3>1. PICK i \in 1..n : s[i] = e
      BY <1>2
    <3> QED
      BY <1>1, <3>1
  <2>3. \A i \in 1..(n + 1) : r[i] # 0 => r[i] \in (from + 1)..to
    BY <1>1, <1>2, <2>1
  <2>4. \A i, j \in 1..(n + 1) : i < j /\ r[i] # 0 /\ r[j] # 0 => r[i] < r[j]
    BY <1>1, <1>2, <2>1
  <2> QED
    BY <1>1, <1>2, <2>2, <2>3, <2>4 DEF Carries
<1> QED
  BY <1>4, <1>5 DEF r

\* What a client hears next is a heartbeat or the event after its last one.
LEMMA TailCarries ==
    ASSUME NEW s \in Seq(Nat), s # <<>>,
           NEW from \in Nat, NEW to \in Nat, Carries(s, from, to)
    PROVE  /\ Head(s) = 0 => Carries(Tail(s), from, to)
           /\ Head(s) # 0 => Head(s) = from + 1 /\ Carries(Tail(s), from + 1, to)
<1> DEFINE r == Tail(s)
           n == Len(s)
           h == Head(s)
<1>1. /\ n \in Nat /\ n >= 1 /\ Len(r) = n - 1 /\ h = s[1]
      /\ \A i \in 1..(n - 1) : r[i] = s[i + 1]
      /\ \A i \in 1..n : s[i] \in Nat
  OBVIOUS
<1>2. /\ from <= to
      /\ \A i \in 1..n : s[i] # 0 => s[i] \in (from + 1)..to
      /\ \A i, j \in 1..n : i < j /\ s[i] # 0 /\ s[j] # 0 => s[i] < s[j]
      /\ \A e \in (from + 1)..to : \E i \in 1..n : s[i] = e
  BY DEF Carries
<1> HIDE DEF r, n, h
<1>3. \A i \in 1..(n - 1) : i + 1 \in 1..n
  BY <1>1
<1>4. \A i, j \in 1..(n - 1) : i < j /\ r[i] # 0 /\ r[j] # 0 => r[i] < r[j]
  <2> SUFFICES ASSUME NEW i \in 1..(n - 1), NEW j \in 1..(n - 1), i < j, r[i] # 0, r[j] # 0
               PROVE  r[i] < r[j]
    OBVIOUS
  <2>1. i + 1 < j + 1 /\ r[i] = s[i + 1] /\ r[j] = s[j + 1]
    BY <1>1
  <2> QED
    BY <1>2, <1>3, <2>1
<1>5. \A i \in 2..n : i - 1 \in 1..(n - 1) /\ r[i - 1] = s[i]
  BY <1>1
<1>6. ASSUME h = 0 PROVE Carries(r, from, to)
  <2>1. \A i \in 1..(n - 1) : r[i] # 0 => r[i] \in (from + 1)..to
    BY <1>1, <1>2, <1>3
  <2>2. \A e \in (from + 1)..to : \E i \in 1..(n - 1) : r[i] = e
    <3> SUFFICES ASSUME NEW e \in (from + 1)..to PROVE \E i \in 1..(n - 1) : r[i] = e
      OBVIOUS
    <3>1. PICK i \in 1..n : s[i] = e
      BY <1>2
    <3>2. e \in Nat /\ e # 0
      OBVIOUS
    <3>3. i # 1
      <4>1. ASSUME i = 1 PROVE FALSE
        <5>1. s[i] = h
          BY <1>1, <4>1
        <5> QED
          BY <1>6, <3>1, <3>2, <5>1
      <4> QED
        BY <4>1
    <3>4. i \in 2..n
      BY <1>1, <3>3
    <3> QED
      BY <1>5, <3>1, <3>4
  <2> QED
    BY <1>1, <1>2, <1>4, <2>1, <2>2 DEF Carries
<1>7. ASSUME h # 0 PROVE h = from + 1 /\ Carries(r, from + 1, to)
  <2>1. 1 \in 1..n /\ h \in (from + 1)..to
    BY <1>1, <1>2, <1>7
  <2>2. PICK i \in 1..n : s[i] = from + 1
    BY <1>2, <2>1
  <2>3. i = 1
    <3>1. ASSUME i # 1 PROVE FALSE
      <4>1. 1 < i /\ s[1] # 0 /\ s[i] # 0
        BY <1>1, <1>7, <2>2, <3>1
      <4>2. s[1] < s[i]
        BY <1>2, <2>1, <4>1
      <4> QED
        BY <1>1, <2>1, <2>2, <4>2
    <3> QED
      BY <3>1
  <2>4. h = from + 1
    BY <1>1, <2>2, <2>3
  <2>5. \A j \in 1..(n - 1) : r[j] # 0 => r[j] \in (from + 1 + 1)..to
    <3> SUFFICES ASSUME NEW j \in 1..(n - 1), r[j] # 0 PROVE r[j] \in (from + 1 + 1)..to
      OBVIOUS
    <3>1. j + 1 \in 1..n /\ 1 < j + 1 /\ r[j] = s[j + 1]
      BY <1>1, <1>3
    <3>2. s[j + 1] \in (from + 1)..to /\ s[1] < s[j + 1]
      BY <1>1, <1>2, <1>7, <2>1, <3>1
    <3> QED
      BY <1>1, <2>4, <3>1, <3>2
  <2>6. \A e \in (from + 1 + 1)..to : \E j \in 1..(n - 1) : r[j] = e
    <3> SUFFICES ASSUME NEW e \in (from + 1 + 1)..to PROVE \E j \in 1..(n - 1) : r[j] = e
      OBVIOUS
    <3>1. PICK j \in 1..n : s[j] = e
      BY <1>2
    <3>2. j # 1
      <4>1. ASSUME j = 1 PROVE FALSE
        <5>1. s[j] = h
          BY <1>1, <4>1
        <5> QED
          BY <2>4, <3>1, <5>1
      <4> QED
        BY <4>1
    <3>3. j \in 2..n
      BY <1>1, <3>2
    <3> QED
      BY <1>5, <3>1, <3>3
  <2>7. from + 1 <= to
    BY <2>1
  <2> QED
    BY <1>1, <1>4, <2>4, <2>5, <2>6, <2>7 DEF Carries
<1> QED
  BY <1>6, <1>7 DEF r, h

LEMMA TailConcat ==
    ASSUME NEW a \in Seq(Nat), NEW b \in Seq(Nat), a # <<>>
    PROVE  /\ a \o b \in Seq(Nat) /\ a \o b # <<>> /\ Head(a \o b) = Head(a)
           /\ Tail(a \o b) = Tail(a) \o b
<1> DEFINE s == a \o b
           r == Tail(a)
           m == Len(a)
           n == Len(b)
<1>1. /\ s \in Seq(Nat) /\ Len(s) = m + n /\ m \in Nat /\ n \in Nat /\ m >= 1
      /\ \A i \in 1..(m + n) : s[i] = IF i <= m THEN a[i] ELSE b[i - m]
  BY ConcatProperties
<1>2. r \in Seq(Nat) /\ Len(r) = m - 1 /\ \A i \in 1..(m - 1) : r[i] = a[i + 1]
  OBVIOUS
<1>3. Head(s) = s[1] /\ s[1] = a[1] /\ a[1] = Head(a) /\ s # <<>>
  BY <1>1
<1>4. /\ Tail(s) \in Seq(Nat) /\ Len(Tail(s)) = m + n - 1
      /\ \A i \in 1..(m + n - 1) : Tail(s)[i] = s[i + 1]
  BY <1>1, <1>3
<1>5. /\ r \o b \in Seq(Nat) /\ Len(r \o b) = m - 1 + n
      /\ \A i \in 1..(m - 1 + n) : (r \o b)[i] = IF i <= m - 1 THEN r[i] ELSE b[i - (m - 1)]
  BY <1>2, ConcatProperties
<1> DEFINE x == Tail(s)
           y == r \o b
<1>6. x = y
  <2> HIDE DEF x, y
  <2>1. x \in Seq(Nat) /\ y \in Seq(Nat) /\ Len(x) = m + n - 1 /\ Len(y) = Len(x)
    BY <1>1, <1>4, <1>5 DEF x, y
  <2>2. ASSUME NEW i \in 1..Len(x) PROVE x[i] = y[i]
    <3>1. i \in 1..(m + n - 1) /\ i + 1 \in 1..(m + n)
      BY <1>1, <2>1
    <3>2. x[i] = s[i + 1] /\ y[i] = IF i <= m - 1 THEN r[i] ELSE b[i - (m - 1)]
      BY <1>1, <1>4, <1>5, <3>1 DEF x, y
    <3>3. CASE i <= m - 1
      <4>1. s[i + 1] = a[i + 1] /\ r[i] = a[i + 1]
        BY <1>1, <1>2, <3>1, <3>3
      <4> QED
        BY <3>2, <3>3, <4>1
    <3>4. CASE ~(i <= m - 1)
      <4>1. s[i + 1] = b[(i + 1) - m] /\ (i + 1) - m = i - (m - 1)
        BY <1>1, <3>1, <3>4
      <4> QED
        BY <3>2, <3>4, <4>1
    <3> QED
      BY <3>3, <3>4
  <2> QED
    BY <2>1, <2>2, SeqEqual
<1> QED
  BY <1>1, <1>3, <1>6

LEMMA SplitSeq ==
    ASSUME NEW p \in Seq(Nat), NEW n \in 0..Len(p)
    PROVE  SubSeq(p, 1, n) \o SubSeq(p, n + 1, Len(p)) = p
<1> DEFINE l == Len(p)
<1>1. l \in Nat
  OBVIOUS
<1>2. SubSeq(p, 1, n) \o SubSeq(p, n + 1, l) = SubSeq(p, 1, l)
  <2>1. \A m \in 1..(l + 1) : \A k \in (m - 1)..l : \A j \in k..l :
           SubSeq(p, m, k) \o SubSeq(p, k + 1, j) = SubSeq(p, m, j)
    BY ConcatAdjacentSubSeq
  <2> HIDE DEF l
  <2>2. \A k \in (1 - 1)..l : \A j \in k..l :
           SubSeq(p, 1, k) \o SubSeq(p, k + 1, j) = SubSeq(p, 1, j)
    <3>1. 1 \in 1..(l + 1)
      BY <1>1
    <3> QED
      BY <2>1, <3>1, Zenon
  <2>3. n \in (1 - 1)..l /\ l \in n..l
    BY <1>1 DEF l
  <2> QED
    BY <2>2, <2>3
<1> QED
  BY <1>2, SubSeqFull

\* Draining moves frames from the queue to the wire and loses none.
LEMMA DrainedFrames ==
    ASSUME NEW w \in Writers, Fits(w), w.wire = <<>>
    PROVE  /\ Drained(w) \in Writers /\ Fits(Drained(w)) /\ WriterOK(Drained(w))
           /\ Drained(w).open = w.open
           /\ Frames(Drained(w)) = Frames(w)
<1> DEFINE n == IF Len(w.pend) < HighWater THEN Len(w.pend) ELSE HighWater
           x == [w EXCEPT !.wire = SubSeq(w.pend, 1, n),
                          !.pend = SubSeq(w.pend, n + 1, Len(w.pend)),
                          !.blocked = n = HighWater]
<1>1. Drained(w) = x
  BY DEF Drained
<1>2. w.pend \in Seq(Nat) /\ Len(w.pend) \in Nat /\ n \in 0..Len(w.pend) /\ n <= HighWater
      /\ (n # HighWater => n = Len(w.pend))
  BY DEF Writers
<1> HIDE DEF n
<1>3. /\ SubSeq(w.pend, 1, n) \in Seq(Nat) /\ Len(SubSeq(w.pend, 1, n)) = n
      /\ SubSeq(w.pend, n + 1, Len(w.pend)) \in Seq(Nat)
      /\ Len(SubSeq(w.pend, n + 1, Len(w.pend))) = Len(w.pend) - n
  BY <1>2
<1>4. SubSeq(w.pend, 1, n) \o SubSeq(w.pend, n + 1, Len(w.pend)) = w.pend
  BY <1>2, SplitSeq
<1>5. <<>> \o w.pend = w.pend
  BY <1>2
<1>6. /\ x \in Writers /\ x.wire = SubSeq(w.pend, 1, n)
      /\ x.pend = SubSeq(w.pend, n + 1, Len(w.pend))
      /\ x.open = w.open
      /\ x.blocked = (n = HighWater)
  <2> DEFINE full == n = HighWater
  <2>1. full \in BOOLEAN
    OBVIOUS
  <2> HIDE DEF full
  <2>2. [w EXCEPT !.wire = SubSeq(w.pend, 1, n), !.pend = SubSeq(w.pend, n + 1, Len(w.pend)),
                  !.blocked = full] \in Writers
    BY <1>3, <2>1 DEF Writers
  <2> QED
    BY <2>2 DEF full, Writers
<1> HIDE DEF x
<1>7. WriterOK(x)
  <2>1. ASSUME ~x.blocked PROVE n # HighWater
    BY <1>6, <2>1
  <2>2. ASSUME ~x.blocked PROVE x.pend = <<>> /\ Len(x.wire) < HighWater
    <3>1. n # HighWater /\ n = Len(w.pend) /\ n < HighWater
      BY <1>2, <2>1, <2>2
    <3> QED
      BY <1>2, <1>3, <1>6, <3>1
  <2> QED
    BY <2>2 DEF WriterOK
<1>8. Fits(x)
  BY <1>2, <1>3, <1>6 DEF Fits, Writers
<1>9. Frames(x) = Frames(w)
  BY <1>4, <1>5, <1>6 DEF Frames
<1> QED
  BY <1>1, <1>6, <1>7, <1>8, <1>9

-----------------------------------------------------------------------------
(* The replay of the history.                                              *)

ReplayLoop(w, from, n) == w = [k \in 0..n |-> IF k = 0 THEN Fresh ELSE Write(w[k - 1], from + k)]

\* The loop has a result after every number of frames.
LEMMA ReplayExists ==
    ASSUME NEW from \in Nat, NEW n \in Nat
    PROVE  \E w : ReplayLoop(w, from, n)
<1> DEFINE T == {k \in Nat : \E w : ReplayLoop(w, from, k)}
<1>1. 0 \in T
  <2> DEFINE w == [k \in 0..0 |-> Fresh]
  <2>1. ReplayLoop(w, from, 0)
    BY DEF ReplayLoop
  <2> QED
    BY <2>1
<1>2. ASSUME NEW k \in T PROVE k + 1 \in T
  <2>1. PICK w : ReplayLoop(w, from, k)
    OBVIOUS
  <2> DEFINE x == [j \in 0..(k + 1) |-> IF j <= k THEN w[j] ELSE Write(w[k], from + (k + 1))]
             y == [j \in 0..(k + 1) |-> IF j = 0 THEN Fresh ELSE Write(x[j - 1], from + j)]
  <2>2. ASSUME NEW j \in 0..(k + 1) PROVE x[j] = y[j]
    <3>0. k \in Nat
      OBVIOUS
    <3>1. CASE j = 0
      BY <2>1, <3>0, <3>1 DEF ReplayLoop
    <3>2. CASE j \in 1..k
      <4>1. w[j] = Write(w[j - 1], from + j)
        BY <2>1, <3>0, <3>2 DEF ReplayLoop
      <4>2. x[j] = w[j] /\ x[j - 1] = w[j - 1] /\ y[j] = Write(x[j - 1], from + j)
        BY <3>0, <3>2
      <4> QED
        BY <4>1, <4>2
    <3>3. CASE j = k + 1
      <4>1. x[j] = Write(w[k], from + j) /\ x[j - 1] = w[k] /\ y[j] = Write(x[j - 1], from + j)
        BY <3>0, <3>3
      <4> QED
        BY <4>1
    <3> QED
      BY <3>0, <3>1, <3>2, <3>3
  <2>3. x = y
    <3> HIDE DEF x
    <3>1. x = [j \in 0..(k + 1) |-> x[j]] /\ y = [j \in 0..(k + 1) |-> y[j]]
      BY DEF x
    <3> QED
      BY <2>2, <3>1
  <2>4. ReplayLoop(x, from, k + 1)
    BY <2>3 DEF ReplayLoop
  <2> QED
    BY <2>4
<1> HIDE DEF T
<1>3. T = Nat
  <2>1. T \in SUBSET Nat
    BY DEF T
  <2> QED
    BY <1>1, <1>2, <2>1, NatInduct
<1> QED
  BY <1>3 DEF T

\* The client is written exactly the events after its last one, in order, or
\* it is cut off.
LEMMA ReplayCarries ==
    ASSUME NEW from \in Nat, NEW n \in Nat
    PROVE  LET w == Replay(from, n) IN
           /\ w \in Writers /\ Fits(w)
           /\ w.open => WriterOK(w) /\ Carries(Frames(w), from, from + n)
<1> DEFINE r == CHOOSE w : ReplayLoop(w, from, n)
           Good(w, k) == /\ w \in Writers /\ Fits(w)
                         /\ w.open => WriterOK(w) /\ Carries(Frames(w), from, from + k)
           T == {k \in Nat : k <= n => Good(r[k], k)}
<1>1. Replay(from, n) = r[n]
  BY DEF Replay, ReplayLoop
<1>2. ReplayLoop(r, from, n)
  BY ReplayExists
<1> HIDE DEF r
<1>3. r[0] = Fresh /\ \A k \in 0..n : k # 0 => r[k] = Write(r[k - 1], from + k)
  BY <1>2 DEF ReplayLoop
<1>4. 0 \in T
  <2>2. Fresh \in Writers /\ Fits(Fresh) /\ WriterOK(Fresh) /\ Frames(Fresh) = <<>>
    BY DEF Fresh, Writers, Fits, WriterOK, Frames
  <2>3. Carries(<<>>, from, from + 0)
    BY DEF Carries
  <2> QED
    BY <1>3, <2>2, <2>3
<1>5. ASSUME NEW k \in T PROVE k + 1 \in T
  <2> SUFFICES ASSUME k + 1 <= n PROVE Good(r[k + 1], k + 1)
    OBVIOUS
  <2>1. k \in Nat /\ Good(r[k], k) /\ r[k + 1] = Write(r[k], from + (k + 1))
    BY <1>3
  <2> DEFINE w == r[k]
             x == r[k + 1]
  <2> HIDE DEF w, x
  <2>2. w \in Writers /\ Fits(w) /\ (w.open => WriterOK(w) /\ Carries(Frames(w), from, from + k))
        /\ x = Write(w, from + (k + 1)) /\ from + (k + 1) \in Nat
    BY <2>1 DEF w, x
  <2>3. /\ x \in Writers /\ Fits(x)
        /\ x.open => w.open /\ WriterOK(x) /\ Frames(x) = Append(Frames(w), from + (k + 1))
    BY <2>2, WriteFrames
  <2>4. ASSUME x.open PROVE Carries(Frames(x), from, from + (k + 1))
    <3>1. Frames(w) \in Seq(Nat)
      BY <2>2 DEF Frames, Writers
    <3>2. from + (k + 1) = (from + k) + 1 /\ from + k \in Nat
      BY <2>1
    <3> QED
      BY <2>2, <2>3, <2>4, <3>1, <3>2, AppendCarries
  <2> QED
    BY <2>3, <2>4 DEF x
<1> HIDE DEF T
<1>6. T = Nat
  <2>1. T \in SUBSET Nat
    BY DEF T
  <2> QED
    BY <1>4, <1>5, <2>1, NatInduct
<1>7. Good(r[n], n)
  BY <1>6 DEF T
<1> QED
  BY <1>1, <1>7

-----------------------------------------------------------------------------
(* The queue.                                                              *)

\* What eviction leaves of the order.
LEMMA OrderKept ==
    ASSUME TypeOK, OrderInv, NEW E, retained' = retained \ E, older' = Without(E)
    PROVE  /\ older' \subseteq retained' \X retained'
           /\ \A t, u \in Turns : <<t, u>> \in older' <=> <<t, u>> \in older /\ t \notin E /\ u \notin E
           /\ OrderInv'
<1>1. older \subseteq retained \X retained /\ retained \subseteq Turns
  BY DEF TypeOK
<1>2. \A t, u : <<t, u>> \in older' <=> <<t, u>> \in older /\ t \notin E /\ u \notin E
  BY DEF Without
<1>3. older' \subseteq retained' \X retained'
  BY <1>1 DEF Without
<1>4. OrderInv'
  BY <1>2 DEF OrderInv
<1> QED
  BY <1>2, <1>3, <1>4

\* Eviction of settled turns does not disturb the chain.
LEMMA ChainKept ==
    ASSUME TypeOK, QueueInv, NEW E, E \cap Unsettled = {},
           retained' = retained \ E, older' = Without(E),
           UNCHANGED <<stage, events, terminal, after, tail>>
    PROVE  QueueInv'
<1>1. /\ \A t, u \in Turns : <<t, u>> \in older' <=> <<t, u>> \in older /\ t \notin E /\ u \notin E
      /\ OrderInv'
  BY OrderKept DEF QueueInv
<1>2. Unsettled' = Unsettled /\ Unsettled \subseteq Turns
  BY DEF Unsettled
<1>3. ChainInv'
  <2>1. \A u, v \in Unsettled : <<u, v>> \in older' <=> <<u, v>> \in older
    BY <1>1, <1>2
  <2>2. Unsettled \subseteq retained'
    BY DEF QueueInv, ChainInv
  <2>3. ASSUME NEW u \in Turns, after[u] # NoTurn
        PROVE  /\ stage[u] = "queued" /\ after[u] \in Unsettled
               /\ <<after[u], u>> \in older'
               /\ \A v \in Unsettled :
                     <<v, u>> \in older' => v = after[u] \/ <<v, after[u]>> \in older'
    <3>1. /\ stage[u] = "queued" /\ after[u] \in Unsettled
          /\ <<after[u], u>> \in older
          /\ \A v \in Unsettled : <<v, u>> \in older => v = after[u] \/ <<v, after[u]>> \in older
      BY <2>3 DEF QueueInv, ChainInv
    <3>2. u \in Unsettled
      BY <3>1 DEF Unsettled
    <3> QED
      BY <2>1, <3>1, <3>2
  <2>4. \A u \in Unsettled : after[u] = NoTurn => \A v \in Unsettled : <<v, u>> \notin older'
    BY <2>1 DEF QueueInv, ChainInv
  <2>5. /\ tail = NoTurn => Unsettled = {}
        /\ tail # NoTurn =>
              tail \in Unsettled /\ \A v \in Unsettled : v = tail \/ <<v, tail>> \in older'
    BY <2>1 DEF QueueInv, ChainInv
  <2> QED
    BY <1>2, <2>2, <2>3, <2>4, <2>5 DEF ChainInv
<1>4. StageInv'
  BY <1>1 DEF QueueInv, StageInv, TypeOK
<1> QED
  BY <1>1, <1>3, <1>4 DEF QueueInv

\* A new turn waits for the last of the chain and becomes it.
LEMMA CreateQueue ==
    ASSUME TypeOK, QueueInv, NEW t \in Turns, NEW E, E \cap Unsettled = {},
           t \notin retained, Create(t, E)
    PROVE  QueueInv'
<1> USE DEF Create
<1> DEFINE kept == retained \ E
<1>1. \A u, v \in Turns : <<u, v>> \in older' <=>
         \/ <<u, v>> \in older /\ u \notin E /\ v \notin E
         \/ u \in kept /\ v = t
  BY DEF Without
<1>2. retained' = kept \cup {t} /\ t \notin kept /\ kept \subseteq retained /\ retained \subseteq Turns
  BY DEF TypeOK
<1>3. \A u, v \in Turns : <<u, v>> \in older => u \in retained /\ v \in retained /\ u # t /\ v # t
  BY DEF TypeOK
<1>4. OrderInv'
  BY <1>1, <1>2, <1>3 DEF QueueInv, OrderInv
<1>5. stage' = [stage EXCEPT ![t] = "queued"] /\ stage'[t] = "queued"
      /\ \A u \in Turns \ {t} : stage'[u] = stage[u]
  BY DEF TypeOK
<1>6. t \notin Unsettled /\ Unsettled \subseteq kept /\ Unsettled' = Unsettled \cup {t}
  BY <1>2, <1>5 DEF QueueInv, ChainInv, Unsettled
<1>7. after'[t] = tail /\ tail' = t /\ \A u \in Turns \ {t} : after'[u] = after[u]
  BY DEF TypeOK
<1>8. \A v \in Unsettled : <<v, t>> \in older'
  BY <1>1, <1>2, <1>6
<1>9. \A u, v \in Unsettled : <<u, v>> \in older' <=> <<u, v>> \in older
  BY <1>1, <1>2, <1>3, <1>6
<1>10. \A v \in Unsettled' : <<t, v>> \notin older'
  BY <1>1, <1>2, <1>3, <1>6
<1>11. ChainInv'
  <2>1. Unsettled' \subseteq retained'
    BY <1>2, <1>6
  <2>2. ASSUME NEW u \in Turns, after'[u] # NoTurn
        PROVE  /\ stage'[u] = "queued" /\ after'[u] \in Unsettled'
               /\ <<after'[u], u>> \in older'
               /\ \A v \in Unsettled' :
                     <<v, u>> \in older' => v = after'[u] \/ <<v, after'[u]>> \in older'
    <3>1. CASE u = t
      <4>1. after'[u] = tail /\ tail \in Unsettled
            /\ \A v \in Unsettled : v = tail \/ <<v, tail>> \in older
        BY <1>7, <2>2, <3>1 DEF QueueInv, ChainInv
      <4> QED
        BY <1>5, <1>6, <1>8, <1>9, <1>10, <3>1, <4>1
    <3>2. CASE u # t
      <4>1. /\ after'[u] = after[u] /\ stage[u] = "queued" /\ after[u] \in Unsettled
            /\ <<after[u], u>> \in older
            /\ \A v \in Unsettled : <<v, u>> \in older => v = after[u] \/ <<v, after[u]>> \in older
        BY <1>7, <2>2, <3>2 DEF QueueInv, ChainInv
      <4>2. u \in Unsettled
        BY <4>1 DEF Unsettled
      <4> QED
        BY <1>5, <1>6, <1>9, <1>10, <3>2, <4>1, <4>2
    <3> QED
      BY <3>1, <3>2
  <2>3. ASSUME NEW u \in Unsettled', after'[u] = NoTurn, NEW v \in Unsettled'
        PROVE  <<v, u>> \notin older'
    <3>1. CASE u = t
      <4>1. Unsettled = {}
        BY <1>7, <2>3, <3>1 DEF QueueInv, ChainInv
      <4> QED
        BY <1>6, <1>10, <3>1, <4>1
    <3>2. CASE u # t
      <4>1. u \in Unsettled /\ u \in Turns /\ after[u] = NoTurn
        BY <1>2, <1>6, <1>7, <2>3, <3>2
      <4>2. \A x \in Unsettled : <<x, u>> \notin older
        BY <4>1 DEF QueueInv, ChainInv
      <4> QED
        BY <1>6, <1>9, <1>10, <3>2, <4>1, <4>2
    <3> QED
      BY <3>1, <3>2
  <2>4. tail' # NoTurn /\ tail' \in Unsettled'
        /\ \A v \in Unsettled' : v = tail' \/ <<v, tail'>> \in older'
    BY <1>6, <1>7, <1>8
  <2> QED
    BY <2>1, <2>2, <2>3, <2>4 DEF ChainInv
<1>12. StageInv'
  <2>1. \A u \in Turns : events'[u] = IF u = t THEN 0 ELSE events[u]
    BY DEF TypeOK
  <2>2. \A u \in Turns \ {t} : terminal'[u] = terminal[u]
    BY DEF TypeOK
  <2>3. \A u \in retained' : stage'[u] # "none"
    BY <1>2, <1>5 DEF QueueInv, StageInv
  <2>4. ASSUME NEW u \in retained', NEW v \in retained', <<u, v>> \in older', stage'[v] = "done"
        PROVE  stage'[u] = "done"
    BY <1>1, <1>2, <1>3, <1>5, <2>4 DEF QueueInv, StageInv
  <2> QED
    BY <1>5, <2>1, <2>2, <2>3, <2>4 DEF QueueInv, StageInv
<1> QED
  BY <1>4, <1>11, <1>12 DEF QueueInv

\* A turn that settles leaves the chain at its head.
LEMMA SettleQueue ==
    ASSUME TypeOK, QueueInv, NEW t \in Turns, Settle(t)
    PROVE  QueueInv'
<1> PICK E \in SUBSET (Done \cup {t}), X \in SUBSET tombs : Pruned(E, X)
  BY DEF Settle
<1>1. /\ stage[t] = "running" /\ terminal[t] # "none"
      /\ stage' = [stage EXCEPT ![t] = "done"]
      /\ after' = [u \in Turns |-> IF after[u] = t THEN NoTurn ELSE after[u]]
      /\ tail' = IF tail = t THEN NoTurn ELSE tail
      /\ retained' = retained \ E /\ older' = Without(E)
      /\ events' = events /\ terminal' = terminal
  BY DEF Settle, Pruned, Waiters, TailAfter
<1>2. stage'[t] = "done" /\ \A u \in Turns \ {t} : stage'[u] = stage[u]
  BY <1>1 DEF TypeOK
<1>3. /\ older' \subseteq retained' \X retained'
      /\ \A u, v \in Turns : <<u, v>> \in older' <=> <<u, v>> \in older /\ u \notin E /\ v \notin E
      /\ OrderInv'
  BY <1>1, OrderKept DEF QueueInv
<1>4. t \in Unsettled /\ Unsettled' = Unsettled \ {t} /\ Unsettled \subseteq Turns
  BY <1>1, <1>2 DEF Unsettled
<1>5. after[t] = NoTurn /\ \A v \in Unsettled : <<v, t>> \notin older
  BY <1>1, <1>4 DEF QueueInv, ChainInv
<1>6. E \cap Unsettled' = {}
  BY <1>4 DEF Done, Unsettled
<1>7. \A u, v \in Unsettled' : <<u, v>> \in older' <=> <<u, v>> \in older
  BY <1>3, <1>4, <1>6
<1>8. \A u \in Unsettled' : u = t \/ <<t, u>> \in older
  BY <1>4, <1>5 DEF QueueInv, ChainInv, OrderInv
<1>9. ChainInv'
  <2>1. Unsettled' \subseteq retained'
    BY <1>1, <1>4, <1>6 DEF QueueInv, ChainInv
  <2>2. ASSUME NEW u \in Turns, after'[u] # NoTurn
        PROVE  /\ stage'[u] = "queued" /\ after'[u] \in Unsettled'
               /\ <<after'[u], u>> \in older'
               /\ \A v \in Unsettled' :
                     <<v, u>> \in older' => v = after'[u] \/ <<v, after'[u]>> \in older'
    <3>1. after'[u] = after[u] /\ after[u] # t
      BY <1>1, <2>2
    <3>2. /\ stage[u] = "queued" /\ after[u] \in Unsettled
          /\ <<after[u], u>> \in older
          /\ \A v \in Unsettled : <<v, u>> \in older => v = after[u] \/ <<v, after[u]>> \in older
      BY <2>2, <3>1 DEF QueueInv, ChainInv
    <3>3. u # t /\ u \in Unsettled'
      BY <1>1, <1>4, <3>2 DEF Unsettled
    <3> QED
      BY <1>2, <1>4, <1>7, <3>1, <3>2, <3>3
  <2>3. ASSUME NEW u \in Unsettled', after'[u] = NoTurn, NEW v \in Unsettled'
        PROVE  <<v, u>> \notin older'
    <3>1. u \in Unsettled /\ v \in Unsettled /\ v # t
      BY <1>4
    <3>2. CASE after[u] = NoTurn
      BY <1>7, <3>1, <3>2 DEF QueueInv, ChainInv
    <3>3. CASE after[u] # NoTurn
      <4>1. after[u] = t
        BY <1>1, <1>4, <2>3, <3>1, <3>3
      <4>2. <<v, u>> \in older => v = t \/ <<v, t>> \in older
        BY <1>4, <3>1, <3>3, <4>1 DEF QueueInv, ChainInv
      <4> QED
        BY <1>5, <1>7, <3>1, <4>2
    <3> QED
      BY <3>2, <3>3
  <2>4. ASSUME tail' = NoTurn PROVE Unsettled' = {}
    <3>1. CASE tail = t
      <4>1. \A v \in Unsettled : v = t \/ <<v, t>> \in older
        BY <3>1 DEF QueueInv, ChainInv, TypeOK
      <4> QED
        BY <1>4, <1>5, <4>1
    <3>2. CASE tail # t
      BY <1>1, <1>4, <2>4, <3>2 DEF QueueInv, ChainInv
    <3> QED
      BY <3>1, <3>2
  <2>5. ASSUME tail' # NoTurn
        PROVE  tail' \in Unsettled' /\ \A v \in Unsettled' : v = tail' \/ <<v, tail'>> \in older'
    <3>1. tail # t /\ tail' = tail
      BY <1>1, <2>5
    <3>2. tail \in Unsettled /\ \A v \in Unsettled : v = tail \/ <<v, tail>> \in older
      BY <2>5, <3>1 DEF QueueInv, ChainInv
    <3> QED
      BY <1>4, <1>7, <3>1, <3>2
  <2> QED
    BY <2>1, <2>2, <2>3, <2>4, <2>5 DEF ChainInv
<1>10. StageInv'
  <2>1. \A u \in retained' : stage'[u] # "none"
    BY <1>1, <1>2 DEF QueueInv, StageInv, TypeOK
  <2>2. ASSUME NEW u \in retained', NEW v \in retained', <<u, v>> \in older', stage'[v] = "done"
        PROVE  stage'[u] = "done"
    <3>1. u \in retained /\ v \in retained /\ u \in Turns /\ v \in Turns /\ <<u, v>> \in older
      BY <1>1, <1>3, <2>2 DEF TypeOK
    <3>2. CASE v = t
      <4>1. u = t \/ u \notin Unsettled
        BY <1>5, <3>1, <3>2
      <4>2. u = t \/ stage[u] = "done"
        BY <3>1, <4>1 DEF Unsettled, QueueInv, StageInv, TypeOK
      <4> QED
        BY <1>2, <3>1, <4>2
    <3>3. CASE v # t
      <4>1. stage[v] = "done"
        BY <1>2, <2>2, <3>1, <3>3
      <4>2. stage[u] = "done"
        BY <3>1, <4>1 DEF QueueInv, StageInv
      <4> QED
        BY <1>2, <3>1, <4>2
    <3> QED
      BY <3>2, <3>3
  <2>3. \A u \in Turns : stage'[u] = "queued" => events'[u] = 0
    BY <1>1, <1>2 DEF QueueInv, StageInv
  <2>4. \A u \in Turns : stage'[u] = "running" /\ terminal'[u] = "none" =>
           events'[u] \in 1..(MaxEvents - 1)
    BY <1>1, <1>2 DEF QueueInv, StageInv
  <2> QED
    BY <2>1, <2>2, <2>3, <2>4 DEF StageInv
<1> QED
  BY <1>3, <1>9, <1>10 DEF QueueInv

queueVars == <<retained, older, stage, events, terminal, after, tail>>

LEMMA QueueUnchanged ==
    ASSUME QueueInv, UNCHANGED queueVars
    PROVE  QueueInv'
BY DEF QueueInv, OrderInv, ChainInv, StageInv, Unsettled, queueVars

\* A turn that starts is the head of the chain.
LEMMA RunQueue ==
    ASSUME TypeOK, QueueInv, NEW t \in Turns, Run(t)
    PROVE  QueueInv'
<1>1. /\ stage[t] = "queued" /\ after[t] = NoTurn
      /\ stage'[t] = "running" /\ \A u \in Turns \ {t} : stage'[u] = stage[u]
      /\ UNCHANGED <<retained, older, terminal, after, tail>>
      /\ events'[t] = 1 /\ \A u \in Turns \ {t} : events'[u] = events[u]
  BY DEF Run, Publish, TypeOK
<1>2. Unsettled' = Unsettled
  BY <1>1 DEF Unsettled
<1>3. OrderInv'
  BY <1>1 DEF QueueInv, OrderInv
<1>4. ChainInv'
  <2>1. \A u \in Turns : after[u] # NoTurn => stage'[u] = "queued"
    BY <1>1 DEF QueueInv, ChainInv
  <2> QED
    BY <1>1, <1>2, <2>1 DEF QueueInv, ChainInv
<1>5. StageInv'
  <2>1. \A u \in retained : stage'[u] # "none"
    BY <1>1 DEF QueueInv, StageInv, TypeOK
  <2>2. ASSUME NEW u \in retained, NEW v \in retained, <<u, v>> \in older, stage'[v] = "done"
        PROVE  stage'[u] = "done"
    <3>1. u \in Turns /\ v \in Turns /\ v # t
      BY <1>1, <2>2 DEF TypeOK
    <3>2. stage[u] = "done"
      BY <1>1, <2>2, <3>1 DEF QueueInv, StageInv
    <3> QED
      BY <1>1, <3>1, <3>2
  <2>3. 1 \in 1..(MaxEvents - 1)
    OBVIOUS
  <2> QED
    BY <1>1, <2>1, <2>2, <2>3 DEF QueueInv, StageInv
<1> QED
  BY <1>3, <1>4, <1>5 DEF QueueInv

\* An event of a running turn, its last one included.
LEMMA EventQueue ==
    ASSUME TypeOK, QueueInv, NEW t \in Turns, Emit(t) \/ Complete(t) \/ Fail(t)
    PROVE  QueueInv'
<1>1. /\ stage[t] = "running" /\ UNCHANGED <<retained, older, stage, after, tail>>
      /\ \A u \in Turns \ {t} : events'[u] = events[u] /\ terminal'[u] = terminal[u]
      /\ \/ events'[t] = events[t] + 1 /\ events[t] < MaxEvents - 1
         \/ terminal'[t] # "none"
  BY DEF Emit, Complete, Fail, End, Running, Publish, TypeOK
<1>2. OrderInv'
  BY <1>1 DEF QueueInv, OrderInv
<1>3. ChainInv'
  BY <1>1 DEF QueueInv, ChainInv, Unsettled
<1>4. StageInv'
  <2>1. ASSUME terminal'[t] = "none" PROVE events'[t] \in 1..(MaxEvents - 1)
    BY <1>1, <2>1 DEF TypeOK
  <2> QED
    BY <1>1, <2>1 DEF QueueInv, StageInv, TypeOK
<1> QED
  BY <1>2, <1>3, <1>4 DEF QueueInv

\* A turn the process does not know is in neither map.
LEMMA Unknown ==
    ASSUME NEW t, NEW E, NEW X, t \notin retained \ E, t \notin Tombstones(E, X)
    PROVE  t \notin retained /\ (t \in tombs => t \in X)
BY DEF Tombstones

\* What a stream request may do.
LEMMA ConnectCases ==
    ASSUME NEW c \in Clients, NEW t \in Turns, NEW attach \in BOOLEAN, Connect(c, t, attach)
    PROVE  \E E \in SUBSET Done, X \in SUBSET tombs :
              /\ Prunes(E, X, Done) /\ Remembers(E, X)
              /\ \/ Create(t, E) /\ t \notin retained /\ (t \in tombs => t \in X)
                 \/ Pruned(E, X) /\ UNCHANGED <<stage, events, terminal, committed, after, tail,
                                               starts>>
<1> DEFINE from == IF goal[c] = t THEN last[c] ELSE 0
<1>1. PICK E \in SUBSET Done, X \in SUBSET tombs :
         /\ Prunes(E, X, Done)
         /\ IF t \notin retained \ E /\ t \notin Tombstones(E, X) /\ ~attach /\ from = 0
            THEN Create(t, E) /\ Remembers(E, X)
            ELSE Pruned(E, X) /\ UNCHANGED <<stage, events, terminal, committed, after, tail,
                                             starts>>
  BY DEF Connect
<1>2. CASE t \notin retained \ E /\ t \notin Tombstones(E, X) /\ ~attach /\ from = 0
  BY <1>1, <1>2, Unknown
<1>3. CASE ~(t \notin retained \ E /\ t \notin Tombstones(E, X) /\ ~attach /\ from = 0)
  BY <1>1, <1>3 DEF Pruned
<1> QED
  BY <1>2, <1>3

LEMMA QueueStep ==
    ASSUME TypeOK, QueueInv, [Next]_vars
    PROVE  QueueInv'
<1>1. Done \cap Unsettled = {}
  BY DEF Done, Unsettled
<1>2. ASSUME NEW t \in Turns, TurnStep(t) PROVE QueueInv'
  <2>1. CASE Save(t)
    BY <2>1, QueueUnchanged DEF Save, queueVars
  <2> QED
    BY <1>2, <2>1, RunQueue, EventQueue, SettleQueue DEF TurnStep
<1>3. ASSUME NEW c \in Clients, NEW t \in Turns, NEW attach \in BOOLEAN, Connect(c, t, attach)
      PROVE  QueueInv'
  <2>1. PICK E \in SUBSET Done, X \in SUBSET tombs :
           \/ Create(t, E) /\ t \notin retained
           \/ Pruned(E, X) /\ UNCHANGED <<stage, events, terminal, committed, after, tail, starts>>
    BY <1>3, ConnectCases
  <2>2. E \cap Unsettled = {}
    BY <1>1
  <2> QED
    BY <2>1, <2>2, CreateQueue, ChainKept DEF Pruned
<1>4. ASSUME NEW c \in Clients, Deliver(c) \/ Heartbeat(c) \/ Disconnect(c) PROVE QueueInv'
  BY <1>4, QueueUnchanged DEF Deliver, Heartbeat, Disconnect, queueVars, turnVars
<1>5. CASE StartRead \/ EndRead
  <2>1. PICK E \in SUBSET Done, X \in SUBSET tombs : Pruned(E, X)
    BY <1>5 DEF StartRead, EndRead, Prune
  <2>2. UNCHANGED <<stage, events, terminal, after, tail>>
    BY <1>5 DEF StartRead, EndRead
  <2> QED
    BY <1>1, <2>1, <2>2, ChainKept DEF Pruned
<1>6. CASE ReadMessages \/ UNCHANGED vars
  BY <1>6, QueueUnchanged DEF ReadMessages, queueVars, turnVars, vars
<1>7. CASE Restart
  BY <1>7 DEF Restart, QueueInv, OrderInv, ChainInv, StageInv, Unsettled
<1> QED
  BY <1>2, <1>3, <1>4, <1>5, <1>6, <1>7 DEF Next, ClientStep

-----------------------------------------------------------------------------
(* What the process remembers of a turn.                                   *)

\* Nothing is forgotten by an eviction but what a tombstone's end takes.
LEMMA RemembersMemory ==
    ASSUME TypeOK, MemoryInv, NEW E, NEW X \in SUBSET tombs, IsFiniteSet(E),
           retained' = retained \ E, Remembers(E, X), UNCHANGED <<starts, restarts>>
    PROVE  MemoryInv'
<1>1. IsFiniteSet(X) /\ IsFiniteSet(tombs) /\ IsFiniteSet(retained)
  BY FS_Subset DEF MemoryInv
<1>2. Cardinality(X) \in Nat /\ (X # {} => Cardinality(X) >= 1)
  BY <1>1, FS_CardinalityType, FS_EmptySet
<1>3. IsFiniteSet(retained') /\ IsFiniteSet(tombs')
  <2>1. IsFiniteSet(retained \ E) /\ IsFiniteSet(tombs \ X)
    BY <1>1, FS_Subset
  <2> QED
    BY <2>1, FS_Union DEF Remembers, Tombstones
<1>4. ASSUME NEW t \in Turns
      PROVE  starts'[t] <= restarts' + expired' + (IF t \in Remembered' THEN 1 ELSE 0)
  <2>1. expired' = expired + Cardinality(X) /\ tombs' = (tombs \ X) \cup E
    BY DEF Remembers, Tombstones
  <2>2. starts[t] <= restarts + expired + (IF t \in Remembered THEN 1 ELSE 0)
        /\ starts[t] \in Nat /\ restarts \in Nat /\ expired \in Nat
    BY DEF MemoryInv, TypeOK
  <2>3. t \in Remembered => t \in Remembered' \/ X # {}
    BY <2>1 DEF Remembered
  <2>4. CASE t \in Remembered /\ t \notin Remembered'
    BY <1>2, <2>1, <2>2, <2>3, <2>4
  <2>5. CASE t \notin Remembered \/ t \in Remembered'
    BY <1>2, <2>1, <2>2, <2>5
  <2> QED
    BY <2>4, <2>5
<1> QED
  BY <1>3, <1>4 DEF MemoryInv

\* A turn is created only when nothing remembers it.
LEMMA CreateMemory ==
    ASSUME TypeOK, MemoryInv, NEW t \in Turns, NEW E, NEW X \in SUBSET tombs, IsFiniteSet(E),
           t \notin retained, t \in tombs => t \in X,
           Create(t, E), Remembers(E, X), UNCHANGED restarts
    PROVE  MemoryInv'
<1>1. IsFiniteSet(X) /\ IsFiniteSet(tombs) /\ IsFiniteSet(retained)
  BY FS_Subset DEF MemoryInv
<1>2. Cardinality(X) \in Nat /\ (X # {} => Cardinality(X) >= 1)
  BY <1>1, FS_CardinalityType, FS_EmptySet
<1>3. IsFiniteSet(retained') /\ IsFiniteSet(tombs')
  <2>1. IsFiniteSet(retained \ E) /\ IsFiniteSet(tombs \ X)
    BY <1>1, FS_Subset
  <2> QED
    BY <2>1, FS_Union, FS_AddElement DEF Remembers, Tombstones, Create
<1>4. ASSUME NEW u \in Turns
      PROVE  starts'[u] <= restarts' + expired' + (IF u \in Remembered' THEN 1 ELSE 0)
  <2>1. /\ expired' = expired + Cardinality(X) /\ tombs' = (tombs \ X) \cup E
        /\ retained' = (retained \ E) \cup {t}
        /\ starts'[u] = IF u = t THEN starts[u] + 1 ELSE starts[u]
    BY DEF Remembers, Tombstones, Create, TypeOK
  <2>2. starts[u] <= restarts + expired + (IF u \in Remembered THEN 1 ELSE 0)
        /\ starts[u] \in Nat /\ restarts \in Nat /\ expired \in Nat
    BY DEF MemoryInv, TypeOK
  <2>3. u \in Remembered => u \in Remembered' \/ X # {}
    BY <2>1 DEF Remembered
  <2>4. CASE u = t
    <3>1. u \in Remembered' /\ (u \in Remembered => X # {})
      BY <2>1, <2>4 DEF Remembered
    <3> QED
      BY <1>2, <2>1, <2>2, <2>4, <3>1
  <2>5. CASE u # t /\ u \in Remembered /\ u \notin Remembered'
    BY <1>2, <2>1, <2>2, <2>3, <2>5
  <2>6. CASE u # t /\ (u \notin Remembered \/ u \in Remembered')
    BY <1>2, <2>1, <2>2, <2>6
  <2> QED
    BY <2>4, <2>5, <2>6
<1> QED
  BY <1>3, <1>4 DEF MemoryInv

LEMMA MemoryStep ==
    ASSUME TypeOK, MemoryInv, [Next]_vars
    PROVE  MemoryInv'
<1>1. IsFiniteSet(retained) /\ IsFiniteSet(Done)
  BY FS_Subset DEF MemoryInv, Done
<1>2. ASSUME UNCHANGED <<retained, tombs, starts, restarts, expired>> PROVE MemoryInv'
  BY <1>2 DEF MemoryInv, Remembered
<1>3. ASSUME NEW t \in Turns, TurnStep(t) PROVE MemoryInv'
  <2>1. CASE Settle(t)
    <3>1. PICK E \in SUBSET (Done \cup {t}), X \in SUBSET tombs : Pruned(E, X)
      BY <2>1 DEF Settle
    <3>2. IsFiniteSet(Done \cup {t})
      BY <1>1, FS_AddElement
    <3>3. IsFiniteSet(E)
      BY <3>2, FS_Subset
    <3>4. UNCHANGED <<starts, restarts>>
      BY <2>1 DEF Settle
    <3> QED
      BY <3>1, <3>3, <3>4, RemembersMemory DEF Pruned
  <2>2. CASE ~Settle(t)
    BY <1>2, <1>3, <2>2 DEF TurnStep, Run, Emit, Save, Complete, Fail, End, bounds
  <2> QED
    BY <2>1, <2>2
<1>4. ASSUME NEW c \in Clients, NEW t \in Turns, NEW attach \in BOOLEAN, Connect(c, t, attach)
      PROVE  MemoryInv'
  <2>1. PICK E \in SUBSET Done, X \in SUBSET tombs :
              /\ Remembers(E, X)
              /\ \/ Create(t, E) /\ t \notin retained /\ (t \in tombs => t \in X)
                 \/ Pruned(E, X) /\ UNCHANGED <<stage, events, terminal, committed, after, tail,
                                               starts>>
    BY <1>4, ConnectCases
  <2>2. IsFiniteSet(E)
    BY <1>1, FS_Subset
  <2>3. UNCHANGED restarts
    BY <1>4 DEF Connect
  <2> QED
    BY <2>1, <2>2, <2>3, RemembersMemory, CreateMemory DEF Pruned
<1>5. ASSUME NEW c \in Clients, Deliver(c) \/ Heartbeat(c) \/ Disconnect(c) PROVE MemoryInv'
  BY <1>2, <1>5 DEF Deliver, Heartbeat, Disconnect, turnVars, bounds
<1>6. CASE StartRead \/ EndRead
  <2>1. PICK E \in SUBSET Done, X \in SUBSET tombs : Pruned(E, X)
    BY <1>6 DEF StartRead, EndRead, Prune
  <2>2. UNCHANGED <<starts, restarts>> /\ IsFiniteSet(E)
    BY <1>1, <1>6, FS_Subset DEF StartRead, EndRead
  <2> QED
    BY <2>1, <2>2, RemembersMemory DEF Pruned
<1>7. CASE ReadMessages \/ UNCHANGED vars
  BY <1>2, <1>7 DEF ReadMessages, turnVars, bounds, vars
<1>8. CASE Restart
  <2>1. /\ retained' = {} /\ tombs' = {} /\ starts' = starts /\ restarts' = restarts + 1
        /\ expired' = expired
    BY <1>8 DEF Restart
  <2>2. \A t \in Turns : /\ starts[t] <= restarts + expired + (IF t \in Remembered THEN 1 ELSE 0)
                         /\ starts[t] \in Nat /\ restarts \in Nat /\ expired \in Nat
    BY DEF MemoryInv, TypeOK
  <2> QED
    BY <2>1, <2>2, FS_EmptySet DEF MemoryInv, Remembered
<1> QED
  BY <1>3, <1>4, <1>5, <1>6, <1>7, <1>8 DEF Next, ClientStep

-----------------------------------------------------------------------------
(* The answers.                                                            *)

\* A saved answer is found by its turn, and no second one is added.
LEMMA SavedAnswers ==
    ASSUME TypeOK, AnswerInv, NEW t \in Turns
    PROVE  /\ \A a, b \in Saved(t) : a[1] = b[1] => a = b
           /\ \E a \in Saved(t) : a[1] = t
           /\ answers \subseteq Saved(t)
<1>1. CASE \E a \in answers : a[1] = t
  BY <1>1 DEF Saved, AnswerInv
<1>2. CASE ~ \E a \in answers : a[1] = t
  <2>1. Saved(t) = answers \cup {<<t, starts[t]>>}
    BY <1>2 DEF Saved
  <2> DEFINE row == <<t, starts[t]>>
  <2>2. row[1] = t
    OBVIOUS
  <2> HIDE DEF row
  <2>3. \A a, b \in answers : a[1] = b[1] => a = b
    BY DEF AnswerInv
  <2>4. Saved(t) = answers \cup {row}
    BY <2>1 DEF row
  <2> QED
    BY <1>2, <2>2, <2>3, <2>4
<1> QED
  BY <1>1, <1>2

LEMMA AnswerStep ==
    ASSUME TypeOK, QueueInv, AnswerInv, [Next]_vars
    PROVE  AnswerInv'
<1>1. ASSUME UNCHANGED <<answers, committed, terminal, starts>>, retained' \subseteq retained
      PROVE  AnswerInv'
  BY <1>1 DEF AnswerInv
<1>2. ASSUME NEW t \in Turns, TurnStep(t) PROVE AnswerInv'
  <2>1. CASE Run(t) \/ Emit(t)
    BY <1>1, <2>1 DEF Run, Emit
  <2>2. CASE Save(t)
    <3>1. /\ answers' = Saved(t) /\ UNCHANGED <<terminal, starts, retained>>
          /\ \A u \in Turns \ {t} : committed'[u] = committed[u]
      BY <2>2 DEF Save, TypeOK, turnVars
    <3> QED
      BY <3>1, SavedAnswers DEF AnswerInv
  <2>3. CASE Complete(t) \/ Fail(t)
    <3>1. /\ UNCHANGED <<answers, committed, starts, retained>>
          /\ \A u \in Turns : terminal'[u] = "completed" => committed[u] \/ terminal[u] = "completed"
      BY <2>3 DEF Complete, Fail, End, TypeOK
    <3> QED
      BY <3>1 DEF AnswerInv
  <2>4. CASE Settle(t)
    <3>1. retained' \subseteq retained
      BY <2>4 DEF Settle, Pruned
    <3> QED
      BY <1>1, <2>4, <3>1 DEF Settle
  <2> QED
    BY <1>2, <2>1, <2>2, <2>3, <2>4 DEF TurnStep
<1>3. ASSUME NEW c \in Clients, NEW t \in Turns, NEW attach \in BOOLEAN, Connect(c, t, attach)
      PROVE  AnswerInv'
  <2>1. PICK E \in SUBSET Done, X \in SUBSET tombs :
           \/ Create(t, E) /\ t \notin retained
           \/ Pruned(E, X) /\ UNCHANGED <<stage, events, terminal, committed, after, tail, starts>>
    BY <1>3, ConnectCases
  <2>2. answers' = answers
    BY <1>3 DEF Connect
  <2>3. CASE Create(t, E)
    <3>1. /\ \A u \in Turns \ {t} : committed'[u] = committed[u] /\ terminal'[u] = terminal[u]
                                   /\ starts'[u] = starts[u]
          /\ ~committed'[t] /\ terminal'[t] = "none" /\ starts'[t] = starts[t] + 1
          /\ retained' \subseteq retained \cup {t} /\ retained \subseteq Turns
          /\ starts[t] \in Nat
      BY <2>3 DEF Create, TypeOK
    <3>2. \A u \in retained' : starts'[u] >= 1
      BY <3>1 DEF AnswerInv
    <3> QED
      BY <2>2, <3>1, <3>2 DEF AnswerInv
  <2>4. CASE Pruned(E, X) /\ UNCHANGED <<stage, events, terminal, committed, after, tail, starts>>
    BY <1>1, <2>2, <2>4 DEF Pruned
  <2> QED
    BY <2>1, <2>3, <2>4
<1>4. ASSUME NEW c \in Clients, Deliver(c) \/ Heartbeat(c) \/ Disconnect(c) PROVE AnswerInv'
  BY <1>1, <1>4 DEF Deliver, Heartbeat, Disconnect, turnVars
<1>5. CASE StartRead \/ EndRead
  <2>1. retained' \subseteq retained
    BY <1>5 DEF StartRead, EndRead, Prune, Pruned
  <2> QED
    BY <1>1, <1>5, <2>1 DEF StartRead, EndRead
<1>6. CASE ReadMessages \/ UNCHANGED vars
  BY <1>1, <1>6 DEF ReadMessages, turnVars, vars
<1>7. CASE Restart
  BY <1>7 DEF Restart, AnswerInv
<1> QED
  BY <1>2, <1>3, <1>4, <1>5, <1>6, <1>7 DEF Next, ClientStep

-----------------------------------------------------------------------------
(* The streams.                                                            *)

StreamOf(c) ==
    /\ writer[c].open => WriterOK(writer[c]) /\ Carries(Frames(writer[c]), last[c], wrote[c])
    /\ conn[c] # NoTurn => heard[c] <= starts[conn[c]]
    /\ \A t \in Turns : Listens(c, t) => wrote[c] = events[t]

WriterType(c) == writer[c] \in Writers /\ Fits(writer[c])

\* Every listener gets an event, and no event twice.
LEMMA PublishStream ==
    ASSUME TypeOK, StreamInv, NEW t \in Turns, Publish(t, events[t] + 1), starts' = starts,
           NEW c \in Clients
    PROVE  StreamOf(c)' /\ WriterType(c)'
<1>1. /\ writer[c] \in Writers /\ Fits(writer[c]) /\ wrote[c] \in Nat /\ last[c] \in Nat
      /\ events[t] \in Nat
  BY DEF TypeOK, Writers, Fits
<1>2. /\ writer[c].open => WriterOK(writer[c]) /\ Carries(Frames(writer[c]), last[c], wrote[c])
      /\ \A u \in Turns : Listens(c, u) => wrote[c] = events[u]
      /\ conn[c] # NoTurn => heard[c] <= starts[conn[c]]
  BY DEF StreamInv
<1>3. /\ events'[t] = events[t] + 1 /\ \A u \in Turns \ {t} : events'[u] = events[u]
      /\ UNCHANGED <<conn, heard, last>>
      /\ \A u \in Turns : Listens(c, u)' = Listens(c, u)
  BY DEF Publish, TypeOK, Listens
<1>4. CASE Listens(c, t)
  <2> DEFINE w == writer[c]
             f == wrote[c] + 1
             x == Write(w, f)
  <2>1. wrote[c] = events[t] /\ writer'[c] = x /\ wrote'[c] = f /\ f \in Nat
    BY <1>1, <1>2, <1>4 DEF Publish
  <2>0. /\ w \in Writers /\ Fits(w)
        /\ w.open => WriterOK(w) /\ Carries(Frames(w), last[c], wrote[c])
    BY <1>1, <1>2
  <2> HIDE DEF w, f
  <2>2. /\ x \in Writers /\ Fits(x)
        /\ x.open => w.open /\ WriterOK(x) /\ Frames(x) = Append(Frames(w), f)
    BY <2>1, <2>0, WriteFrames
  <2>3. Frames(w) \in Seq(Nat)
    BY <2>0 DEF Writers, Frames
  <2>4. x.open => Carries(Frames(x), last[c], f)
    <3>1. f = wrote[c] + 1
      BY DEF f
    <3> QED
      BY <1>1, <2>1, <2>0, <2>2, <2>3, <3>1, AppendCarries
  <2>5. \A u \in Turns : Listens(c, u) => u = t
    BY <1>4 DEF Listens
  <2> HIDE DEF x
  <2>6. WriterType(c)'
    BY <2>1, <2>2 DEF WriterType
  <2>7. writer'[c].open => WriterOK(writer'[c]) /\ Carries(Frames(writer'[c]), last'[c], wrote'[c])
    BY <1>3, <2>1, <2>2, <2>4
  <2>8. \A u \in Turns : Listens(c, u)' => wrote'[c] = events'[u]
    BY <1>3, <2>1, <2>5 DEF f
  <2> QED
    BY <1>2, <1>3, <2>6, <2>7, <2>8 DEF StreamOf
<1>5. CASE ~Listens(c, t)
  <2>1. writer'[c] = writer[c] /\ wrote'[c] = wrote[c]
    BY <1>5 DEF Publish
  <2> QED
    BY <1>1, <1>2, <1>3, <1>5, <2>1 DEF StreamOf, WriterType
<1> QED
  BY <1>4, <1>5

LEMMA StreamParts ==
    ASSUME TypeOK, StreamInv, NEW c \in Clients
    PROVE  /\ StreamOf(c) /\ WriterType(c)
           /\ wrote[c] \in Nat /\ last[c] \in Nat /\ heard[c] \in Nat
BY DEF StreamInv, StreamOf, WriterType, TypeOK, Writers, Fits

\* Who is not touched by a step and listens to no turn it changes goes on.
LEMMA StreamKept ==
    ASSUME NEW c \in Clients, StreamOf(c), WriterType(c),
           writer'[c] = writer[c], last'[c] = last[c], wrote'[c] = wrote[c],
           conn'[c] = conn[c], heard'[c] = heard[c],
           conn[c] # NoTurn => heard[c] <= starts'[conn[c]],
           \A u \in Turns : conn[c] = u /\ heard[c] = starts'[u] =>
               Listens(c, u) /\ events'[u] = events[u]
    PROVE  StreamOf(c)' /\ WriterType(c)'
<1>1. WriterType(c)'
  BY DEF WriterType
<1>2. writer'[c].open => WriterOK(writer'[c]) /\ Carries(Frames(writer'[c]), last'[c], wrote'[c])
  BY DEF StreamOf
<1>3. \A u \in Turns : Listens(c, u)' => wrote'[c] = events'[u]
  BY DEF StreamOf, Listens
<1> QED
  BY <1>1, <1>2, <1>3 DEF StreamOf

LEMMA ClosedStream ==
    ASSUME NEW c \in Clients, writer'[c] = Closed, conn'[c] = NoTurn
    PROVE  StreamOf(c)' /\ WriterType(c)'
<1>1. Closed \in Writers /\ Fits(Closed) /\ ~Closed.open
  BY DEF Closed, Writers, Fits
<1> QED
  BY <1>1 DEF StreamOf, WriterType, Listens

\* A new stream replays exactly what its client has not heard.
LEMMA SubscribeStream ==
    ASSUME TypeOK, NEW c \in Clients, NEW t \in Turns, NEW from \in Nat, Subscribe(c, t, from),
           events'[t] \in Nat, from <= events'[t], last'[c] = from, starts'[t] \in Nat
    PROVE  StreamOf(c)' /\ WriterType(c)'
<1> DEFINE n == events'[t] - from
           w == Replay(from, n)
<1>1. /\ conn'[c] = t /\ heard'[c] = starts'[t] /\ wrote'[c] = events'[t] /\ writer'[c] = w
  BY DEF Subscribe, TypeOK
<1>2. n \in Nat /\ from + n = events'[t]
  OBVIOUS
<1> HIDE DEF n
<1>3. w \in Writers /\ Fits(w) /\ (w.open => WriterOK(w) /\ Carries(Frames(w), from, from + n))
  BY <1>2, ReplayCarries
<1> HIDE DEF w
<1>4. writer'[c].open => WriterOK(writer'[c]) /\ Carries(Frames(writer'[c]), last'[c], wrote'[c])
  BY <1>1, <1>2, <1>3
<1>5. WriterType(c)'
  BY <1>1, <1>3 DEF WriterType
<1> QED
  BY <1>1, <1>4, <1>5 DEF StreamOf, Listens

LEMMA DeliverStream ==
    ASSUME TypeOK, StreamInv, NEW c \in Clients, Deliver(c)
    PROVE  /\ StreamOf(c)' /\ WriterType(c)'
           /\ last'[c] # last[c] => last'[c] = last[c] + 1
           /\ last'[c] \in Nat
<1> DEFINE w == writer[c]
           x == [w EXCEPT !.wire = Tail(w.wire)]
           y == IF x.wire = <<>> /\ x.blocked THEN Drained(x) ELSE x
           h == Head(w.wire)
           new == IF h = 0 THEN last[c] ELSE h
<1>1. /\ w \in Writers /\ Fits(w) /\ w.open /\ w.wire # <<>>
      /\ WriterOK(w) /\ Carries(Frames(w), last[c], wrote[c])
      /\ wrote[c] \in Nat /\ last[c] \in Nat
  BY StreamParts DEF Deliver, StreamOf, WriterType
<1>2. writer'[c] = y /\ last'[c] = new /\ UNCHANGED <<conn, heard, wrote, events, starts>>
  BY DEF Deliver, TypeOK, turnVars
<1> HIDE DEF w
<1>3. /\ x \in Writers /\ x.wire = Tail(w.wire) /\ x.pend = w.pend /\ x.open /\ x.blocked = w.blocked
      /\ Tail(w.wire) \in Seq(Nat) /\ Len(Tail(w.wire)) = Len(w.wire) - 1
  <2> DEFINE a == Tail(w.wire)
  <2>1. a \in Seq(Nat) /\ Len(a) = Len(w.wire) - 1
    BY <1>1 DEF Writers
  <2> HIDE DEF a
  <2>2. x = [w EXCEPT !.wire = a]
    BY DEF a
  <2>3. x \in Writers /\ x.wire = a /\ x.pend = w.pend /\ x.open = w.open /\ x.blocked = w.blocked
    BY <1>1, <2>1, <2>2 DEF Writers
  <2> QED
    BY <1>1, <2>1, <2>3 DEF a
<1> HIDE DEF x
<1>4. Fits(x) /\ WriterOK(x)
  <2>1. Len(w.wire) \in Nat /\ Len(x.wire) = Len(w.wire) - 1
    BY <1>1, <1>3 DEF Writers
  <2> QED
    BY <1>1, <1>3, <2>1 DEF Fits, WriterOK
<1>5. Frames(x) = Tail(Frames(w)) /\ Frames(w) \in Seq(Nat) /\ Frames(w) # <<>> /\ h = Head(Frames(w))
  <2>1. w.wire \in Seq(Nat) /\ w.pend \in Seq(Nat) /\ w.wire # <<>>
    BY <1>1 DEF Writers
  <2> QED
    <3> DEFINE a == w.wire
               b == w.pend
    <3>1. Frames(w) = a \o b /\ Frames(x) = Tail(a) \o b /\ h = Head(a)
      BY <1>3 DEF Frames
    <3>2. a \in Seq(Nat) /\ b \in Seq(Nat) /\ a # <<>>
      BY <2>1
    <3> HIDE DEF a, b, h
    <3>3. a \o b \in Seq(Nat) /\ a \o b # <<>> /\ Head(a \o b) = Head(a)
          /\ Tail(a \o b) = Tail(a) \o b
      BY <3>2, TailConcat
    <3> QED
      BY <3>1, <3>3
<1>6. /\ new \in Nat /\ (new # last[c] => new = last[c] + 1)
      /\ Carries(Frames(x), new, wrote[c])
  <2>1. h = 0 => Carries(Frames(x), last[c], wrote[c])
    BY <1>1, <1>5, TailCarries
  <2>2. h # 0 => h = last[c] + 1 /\ Carries(Frames(x), last[c] + 1, wrote[c])
    BY <1>1, <1>5, TailCarries
  <2> HIDE DEF h
  <2> QED
    BY <1>1, <2>1, <2>2
<1> HIDE DEF new, h
<1>7. y \in Writers /\ Fits(y) /\ WriterOK(y) /\ Frames(y) = Frames(x)
  <2>1. CASE x.wire = <<>> /\ x.blocked
    BY <1>3, <1>4, <2>1, DrainedFrames
  <2>2. CASE ~(x.wire = <<>> /\ x.blocked)
    BY <1>3, <1>4, <2>2
  <2> QED
    BY <2>1, <2>2
<1> HIDE DEF y
<1>8. WriterOK(writer'[c]) /\ Carries(Frames(writer'[c]), last'[c], wrote'[c])
  BY <1>2, <1>6, <1>7
<1>9. WriterType(c)'
  BY <1>2, <1>7 DEF WriterType
<1>10. /\ conn'[c] # NoTurn => heard'[c] <= starts'[conn'[c]]
       /\ \A t \in Turns : Listens(c, t)' => wrote'[c] = events'[t]
  BY <1>2 DEF StreamInv, Listens
<1> QED
  BY <1>2, <1>6, <1>8, <1>9, <1>10 DEF StreamOf

LEMMA HeartbeatStream ==
    ASSUME TypeOK, StreamInv, NEW c \in Clients, Heartbeat(c)
    PROVE  StreamOf(c)' /\ WriterType(c)'
<1> DEFINE w == writer[c]
           x == Write(w, 0)
<1>1. /\ w \in Writers /\ Fits(w) /\ w.open
      /\ WriterOK(w) /\ Carries(Frames(w), last[c], wrote[c])
      /\ wrote[c] \in Nat /\ last[c] \in Nat
  BY StreamParts DEF Heartbeat, StreamOf, WriterType
<1>2. writer'[c] = x /\ UNCHANGED <<conn, heard, wrote, last, events, starts>>
  BY DEF Heartbeat, TypeOK, turnVars
<1> HIDE DEF w
<1>3. x \in Writers /\ Fits(x) /\ (x.open => WriterOK(x) /\ Frames(x) = Append(Frames(w), 0))
  BY <1>1, WriteFrames
<1> HIDE DEF x
<1>4. Frames(w) \in Seq(Nat)
  BY <1>1 DEF Writers, Frames
<1>5. x.open => Carries(Frames(x), last[c], wrote[c])
  BY <1>1, <1>3, <1>4, AppendCarries
<1>6. writer'[c].open => WriterOK(writer'[c]) /\ Carries(Frames(writer'[c]), last'[c], wrote'[c])
  BY <1>2, <1>3, <1>5
<1>7. WriterType(c)'
  BY <1>2, <1>3 DEF WriterType
<1>8. /\ conn'[c] # NoTurn => heard'[c] <= starts'[conn'[c]]
      /\ \A t \in Turns : Listens(c, t)' => wrote'[c] = events'[t]
  BY <1>2 DEF StreamInv, Listens
<1> QED
  BY <1>6, <1>7, <1>8 DEF StreamOf

\* A request touches its own client's stream only, and no listener of a turn
\* it creates is left.
LEMMA ConnectStream ==
    ASSUME TypeOK, StreamInv, NEW c \in Clients, NEW t \in Turns, NEW attach \in BOOLEAN,
           Connect(c, t, attach), NEW d \in Clients
    PROVE  /\ StreamOf(d)' /\ WriterType(d)'
           /\ last'[d] \in Nat
           /\ goal'[d] = goal[d] => last'[d] = last[d]
<1> DEFINE from == IF goal[c] = t THEN last[c] ELSE 0
<1>1. PICK E \in SUBSET Done, X \in SUBSET tombs :
         LET creates == t \notin retained \ E /\ t \notin Tombstones(E, X) /\ ~attach /\ from = 0
         IN  /\ ~writer[c].open
             /\ IF creates THEN Create(t, E)
                ELSE UNCHANGED <<stage, events, terminal, committed, after, tail, starts>>
             /\ IF creates \/ (t \in retained \ E /\ from <= events[t])
                THEN Subscribe(c, t, from) ELSE UNCHANGED <<conn, heard, wrote, writer>>
             /\ goal' = [goal EXCEPT ![c] = t] /\ last' = [last EXCEPT ![c] = from]
  BY DEF Connect
<1> DEFINE creates == t \notin retained \ E /\ t \notin Tombstones(E, X) /\ ~attach /\ from = 0
<1>2. /\ ~writer[c].open
      /\ creates => Create(t, E)
      /\ ~creates => UNCHANGED <<events, starts>>
      /\ \/ Subscribe(c, t, from) /\ (creates \/ from <= events[t])
         \/ UNCHANGED <<conn, heard, wrote, writer>> /\ ~creates
      /\ goal' = [goal EXCEPT ![c] = t] /\ last' = [last EXCEPT ![c] = from]
  BY <1>1
<1>3. creates => from = 0
  OBVIOUS
<1> HIDE DEF creates
<1>4. /\ from \in Nat /\ (goal[c] = t => from = last[c])
      /\ goal'[c] = t /\ last'[c] = from
      /\ \A e \in Clients \ {c} : last'[e] = last[e] /\ goal'[e] = goal[e]
  BY <1>2 DEF TypeOK
<1>5. \A u \in Turns : events[u] \in Nat /\ starts[u] \in Nat
  BY DEF TypeOK
<1>6. creates => /\ events'[t] = 0 /\ starts'[t] = starts[t] + 1
                 /\ \A u \in Turns \ {t} : events'[u] = events[u] /\ starts'[u] = starts[u]
  BY <1>2 DEF Create, TypeOK
<1>7. StreamOf(d) /\ WriterType(d) /\ heard[d] \in Nat /\ conn[d] \in Turns \cup {NoTurn}
  BY StreamParts DEF TypeOK
<1>8. \A u \in Turns : starts'[u] >= starts[u] /\ (starts'[u] # starts[u] => u = t /\ creates)
  BY <1>2, <1>5, <1>6
<1>9. conn[d] # NoTurn => heard[d] <= starts[conn[d]]
  BY <1>7 DEF StreamOf
<1>10. conn[d] # NoTurn => heard[d] <= starts'[conn[d]]
  <2> SUFFICES ASSUME conn[d] # NoTurn PROVE heard[d] <= starts'[conn[d]]
    OBVIOUS
  <2> DEFINE u == conn[d]
  <2>1. u \in Turns /\ heard[d] <= starts[u] /\ heard[d] \in Nat
    BY <1>7, <1>9
  <2> HIDE DEF u
  <2>2. starts'[u] = starts[u] \/ starts'[u] = starts[u] + 1
    BY <1>2, <1>6, <2>1
  <2>3. heard[d] <= starts'[u]
    BY <1>5, <2>1, <2>2
  <2> QED
    BY <2>3 DEF u
<1>11. ASSUME NEW u \in Turns, conn[d] = u, heard[d] = starts'[u]
       PROVE  Listens(d, u) /\ events'[u] = events[u]
  <2>1. conn[d] # NoTurn /\ heard[d] <= starts[u]
    BY <1>9, <1>11
  <2>2. CASE creates /\ u = t
    BY <1>5, <1>6, <1>11, <2>1, <2>2
  <2>3. CASE ~(creates /\ u = t)
    <3>1. events'[u] = events[u] /\ starts'[u] = starts[u]
      BY <1>2, <1>6, <2>3
    <3> QED
      BY <1>11, <3>1 DEF Listens
  <2> QED
    BY <2>2, <2>3
<1> HIDE DEF from
<1>12. CASE d = c /\ Subscribe(c, t, from) /\ (creates \/ from <= events[t])
  <2>1. events'[t] \in Nat /\ from <= events'[t] /\ starts'[t] \in Nat
    <3>1. CASE creates
      BY <1>3, <1>5, <1>6, <3>1
    <3>2. CASE ~creates
      BY <1>2, <1>5, <1>12, <3>2
    <3> QED
      BY <3>1, <3>2
  <2> QED
    BY <1>4, <1>12, <2>1, SubscribeStream
<1>13. CASE d = c /\ UNCHANGED <<conn, heard, wrote, writer>> /\ ~creates
  <2>1. WriterType(c)'
    BY <1>7, <1>13 DEF WriterType
  <2>2. conn'[c] # NoTurn => heard'[c] <= starts'[conn'[c]]
    BY <1>10, <1>13
  <2>3. \A u \in Turns : Listens(c, u)' => wrote'[c] = events'[u]
    BY <1>7, <1>11, <1>13 DEF Listens, StreamOf
  <2> QED
    BY <1>2, <1>4, <1>13, <2>1, <2>2, <2>3 DEF StreamOf
<1>14. CASE d # c
  <2>1. writer'[d] = writer[d] /\ wrote'[d] = wrote[d] /\ conn'[d] = conn[d] /\ heard'[d] = heard[d]
    BY <1>2, <1>14 DEF Subscribe, TypeOK
  <2>2. last'[d] = last[d] /\ last'[d] \in Nat
    BY <1>4, <1>14 DEF TypeOK
  <2> QED
    BY <1>7, <1>10, <1>11, <2>1, <2>2, StreamKept
<1>15. goal'[d] = goal[d] => last'[d] = last[d]
  BY <1>4
<1>16. last'[d] \in Nat
  BY <1>4 DEF TypeOK
<1> QED
  BY <1>2, <1>12, <1>13, <1>14, <1>15, <1>16

\* Every step keeps every stream, and a client that goes on with the same
\* turn hears the next event or nothing.
LEMMA StreamStep ==
    ASSUME TypeOK, QueueInv, StreamInv, [Next]_vars, NEW d \in Clients
    PROVE  /\ StreamOf(d)' /\ WriterType(d)'
           /\ last'[d] \in Nat
           /\ goal'[d] = goal[d] => last'[d] \in {last[d], last[d] + 1}
<1>1. StreamOf(d) /\ WriterType(d) /\ last[d] \in Nat
  BY StreamParts
<1>2. ASSUME UNCHANGED <<conn, heard, wrote, writer, goal, last, events, starts>>
      PROVE  StreamOf(d)' /\ WriterType(d)' /\ last'[d] = last[d]
  BY <1>1, <1>2 DEF StreamOf, WriterType, Listens
<1>3. ASSUME NEW t \in Turns, TurnStep(t) PROVE StreamOf(d)' /\ WriterType(d)' /\ last'[d] = last[d]
  <2>1. CASE Run(t) \/ Emit(t) \/ Complete(t) \/ Fail(t)
    <3>1. Publish(t, events[t] + 1) /\ starts' = starts
      <4>1. CASE Run(t)
        <5>1. events[t] = 0 /\ events[t] + 1 = 1
          BY <4>1 DEF Run, QueueInv, StageInv
        <5> QED
          BY <4>1, <5>1 DEF Run
      <4>2. CASE ~Run(t)
        BY <2>1, <4>2 DEF Emit, Complete, Fail, End
      <4> QED
        BY <4>1, <4>2
    <3>2. last' = last
      BY <3>1 DEF Publish
    <3> QED
      BY <3>1, <3>2, PublishStream
  <2>2. CASE Save(t) \/ Settle(t)
    BY <1>2, <2>2 DEF Save, Settle, streamVars
  <2> QED
    BY <1>3, <2>1, <2>2 DEF TurnStep
<1>4. ASSUME NEW c \in Clients, NEW t \in Turns, NEW attach \in BOOLEAN, Connect(c, t, attach)
      PROVE  /\ StreamOf(d)' /\ WriterType(d)' /\ last'[d] \in Nat
             /\ goal'[d] = goal[d] => last'[d] = last[d]
  BY <1>4, ConnectStream
<1>5. ASSUME NEW c \in Clients, Deliver(c) \/ Heartbeat(c) \/ Disconnect(c)
      PROVE  StreamOf(d)' /\ WriterType(d)' /\ last'[d] \in {last[d], last[d] + 1}
  <2>1. CASE d = c /\ Deliver(c)
    BY <2>1, DeliverStream
  <2>2. CASE d = c /\ Heartbeat(c)
    BY <2>2, HeartbeatStream DEF Heartbeat
  <2>3. CASE d = c /\ Disconnect(c)
    <3>1. writer'[c] = Closed /\ conn'[c] = NoTurn /\ last' = last
      BY <2>3 DEF Disconnect, TypeOK
    <3> QED
      BY <2>3, <3>1, ClosedStream
  <2>4. CASE d # c
    <3>1. /\ writer'[d] = writer[d] /\ wrote'[d] = wrote[d] /\ last'[d] = last[d]
          /\ conn'[d] = conn[d] /\ heard'[d] = heard[d]
      BY <1>5, <2>4 DEF Deliver, Heartbeat, Disconnect, TypeOK
    <3>2. UNCHANGED <<events, starts>>
      BY <1>5 DEF Deliver, Heartbeat, Disconnect, turnVars
    <3>3. conn[d] # NoTurn => heard[d] <= starts'[conn[d]]
      BY <1>1, <3>2 DEF StreamOf
    <3>4. \A u \in Turns : conn[d] = u /\ heard[d] = starts'[u] =>
             Listens(d, u) /\ events'[u] = events[u]
      BY <3>2 DEF Listens
    <3> QED
      BY <1>1, <3>1, <3>3, <3>4, StreamKept
  <2> QED
    BY <1>5, <2>1, <2>2, <2>3, <2>4
<1>6. CASE StartRead \/ EndRead \/ ReadMessages \/ UNCHANGED vars
  BY <1>1, <1>2, <1>6 DEF StartRead, EndRead, ReadMessages, vars, turnVars, streamVars
<1>7. CASE Restart
  <2>1. writer'[d] = Closed /\ conn'[d] = NoTurn /\ last' = last
    BY <1>7 DEF Restart
  <2> QED
    BY <1>1, <2>1, ClosedStream
<1> QED
  BY <1>1, <1>3, <1>4, <1>5, <1>6, <1>7 DEF Next, ClientStep

-----------------------------------------------------------------------------
(* The read of a thread.                                                   *)

LEMMA OldestIn ==
    ASSUME NEW S \in SUBSET Turns, IsFiniteSet(S), NEW R,
           \A t \in S : <<t, t>> \notin R,
           \A t, u, v \in S : <<t, u>> \in R /\ <<u, v>> \in R => <<t, v>> \in R
    PROVE  /\ S = {} => Oldest(S, R) = NoTurn
           /\ S # {} => Oldest(S, R) \in S /\ \A u \in S : <<u, Oldest(S, R)>> \notin R
<1>1. CASE S = {}
  BY <1>1 DEF Oldest
<1>2. CASE S # {}
  <2>1. \E t \in S : \A u \in S : <<u, t>> \notin R
    BY <1>2, FiniteMin
  <2>2. Oldest(S, R) = CHOOSE t \in S : \A u \in S : <<u, t>> \notin R
    BY <1>2 DEF Oldest
  <2> QED
    BY <1>2, <2>1, <2>2
<1> QED
  BY <1>1, <1>2

\* Whom the client is told of: nobody only if all that was in flight before
\* the read, and all that is now, has its answer in the read.
LEMMA SuspectIn ==
    ASSUME IInv
    PROVE  /\ Suspect \in Unanswered(read.before) \cup Unanswered(InFlight) \cup {NoTurn}
           /\ Suspect \in Turns \cup {NoTurn}
           /\ Suspect = NoTurn => Unanswered(read.before) = {} /\ Unanswered(InFlight) = {}
<1> DEFINE B == Unanswered(read.before)
           F == Unanswered(InFlight)
<1>1. /\ B \in SUBSET Turns /\ IsFiniteSet(B) /\ B \subseteq read.before
      /\ F \in SUBSET Turns /\ IsFiniteSet(F) /\ F \subseteq retained
  <2>1. B \subseteq read.before /\ F \subseteq retained /\ retained \subseteq Turns
        /\ read.before \subseteq Turns
    BY DEF IInv, TypeOK, Unanswered, InFlight
  <2> QED
    BY <2>1, FS_Subset DEF IInv, ReadInv, MemoryInv
<1>2. /\ B = {} => Oldest(B, read.order) = NoTurn
      /\ B # {} => Oldest(B, read.order) \in B
  <2>1. /\ \A t \in B : <<t, t>> \notin read.order
        /\ \A t, u, v \in B :
              <<t, u>> \in read.order /\ <<u, v>> \in read.order => <<t, v>> \in read.order
    BY <1>1 DEF IInv, ReadInv
  <2> HIDE DEF B
  <2> QED
    BY <1>1, <2>1, OldestIn
<1>3. /\ F = {} => Oldest(F, older) = NoTurn
      /\ F # {} => Oldest(F, older) \in F
  <2>1. /\ \A t \in F : <<t, t>> \notin older
        /\ \A t, u, v \in F : <<t, u>> \in older /\ <<u, v>> \in older => <<t, v>> \in older
    BY <1>1 DEF IInv, QueueInv, OrderInv
  <2> HIDE DEF F
  <2> QED
    BY <1>1, <2>1, OldestIn
<1>4. Suspect = IF B # {} THEN Oldest(B, read.order) ELSE Oldest(F, older)
  BY DEF Suspect
<1>5. NoTurn \notin Turns
  OBVIOUS
<1> HIDE DEF B, F
<1>6. /\ Suspect \in B \cup F \cup {NoTurn} /\ Suspect \in Turns \cup {NoTurn}
      /\ Suspect = NoTurn => B = {} /\ F = {}
  BY <1>1, <1>2, <1>3, <1>4, <1>5
<1> QED
  BY <1>6 DEF B, F

LEMMA ReadStep ==
    ASSUME IInv, [Next]_vars
    PROVE  ReadInv'
<1>1. ReadInv /\ IsFiniteSet(retained) /\ OrderInv
  BY DEF IInv, MemoryInv, QueueInv
<1>2. CASE StartRead
  <2>1. /\ read'.before = InFlight
        /\ read'.order = {p \in older : p[1] \in InFlight /\ p[2] \in InFlight}
    BY <1>2 DEF StartRead, NoRead
  <2>2. InFlight \subseteq retained
    BY DEF InFlight
  <2>3. IsFiniteSet(InFlight)
    BY <1>1, <2>2, FS_Subset
  <2>4. \A t, u \in InFlight : <<t, u>> \in read'.order <=> <<t, u>> \in older
    BY <2>1
  <2> QED
    BY <1>1, <2>1, <2>2, <2>3, <2>4 DEF ReadInv, OrderInv
<1>3. CASE EndRead \/ Restart
  <2>1. read'.before = {}
    <3>1. CASE EndRead
      <4> DEFINE a == Suspect
      <4>1. read' = [NoRead EXCEPT !.at = "told", !.active = a]
        BY <3>1 DEF EndRead
      <4> HIDE DEF a
      <4> QED
        BY <4>1 DEF NoRead
    <3>2. CASE Restart
      BY <3>2 DEF Restart, NoRead
    <3> QED
      BY <1>3, <3>1, <3>2
  <2> QED
    BY <2>1, FS_EmptySet DEF ReadInv
<1>4. CASE ReadMessages
  <2>1. read'.before = read.before /\ read'.order = read.order
    BY <1>4 DEF ReadMessages, IInv, TypeOK
  <2> QED
    BY <1>1, <2>1 DEF ReadInv
<1>5. CASE ~(StartRead \/ EndRead \/ Restart \/ ReadMessages)
  <2>1. ASSUME NEW t \in Turns, TurnStep(t) PROVE read' = read
    BY <2>1 DEF TurnStep, Run, Emit, Save, Complete, Fail, End, Settle
  <2>2. ASSUME NEW c \in Clients, ClientStep(c) PROVE read' = read
    BY <2>2 DEF ClientStep, Connect, Deliver, Heartbeat, Disconnect
  <2>3. read' = read
    BY <1>5, <2>1, <2>2 DEF Next, vars
  <2> QED
    BY <1>1, <2>3 DEF ReadInv
<1> QED
  BY <1>2, <1>3, <1>4, <1>5

-----------------------------------------------------------------------------
(* Types.                                                                  *)

TurnTypes ==
    /\ retained \in SUBSET Turns /\ older \in SUBSET (retained \X retained)
    /\ stage \in [Turns -> {"none", "queued", "running", "done"}]
    /\ events \in [Turns -> 0..MaxEvents]
    /\ terminal \in [Turns -> {"none", "completed", "unverified", "error"}]
    /\ committed \in [Turns -> BOOLEAN]
    /\ after \in [Turns -> Turns \cup {NoTurn}] /\ tail \in Turns \cup {NoTurn}
    /\ tombs \in SUBSET Turns /\ starts \in [Turns -> 0..MaxStarts]
    /\ answers \in SUBSET (Turns \X (1..MaxStarts))

StreamTypes ==
    /\ conn \in [Clients -> Turns \cup {NoTurn}] /\ goal \in [Clients -> Turns \cup {NoTurn}]
    /\ heard \in [Clients -> Nat] /\ wrote \in [Clients -> Nat] /\ last \in [Clients -> Nat]
    /\ writer \in [Clients -> Writers] /\ \A c \in Clients : Fits(writer[c])

ReadTypes ==
    /\ read \in [at : {"none", "reading", "read", "told"}, before : SUBSET Turns,
                 order : SUBSET (Turns \X Turns), ids : SUBSET Turns,
                 active : Turns \cup {NoTurn}]
    /\ restarts \in Nat /\ expired \in Nat /\ beats \in Nat /\ faults \in Nat

LEMMA TypeParts == TypeOK <=> TurnTypes /\ StreamTypes /\ ReadTypes
BY DEF TypeOK, TurnTypes, StreamTypes, ReadTypes, Writers, Fits

LEMMA EvictTypes ==
    ASSUME IInv, NEW E \in SUBSET Turns, NEW X \in SUBSET tombs, Pruned(E, X)
    PROVE  /\ retained' \in SUBSET Turns /\ older' \in SUBSET (retained' \X retained')
           /\ tombs' \in SUBSET Turns /\ expired' \in Nat
<1>1. older' \subseteq retained' \X retained'
  BY OrderKept DEF Pruned, IInv, QueueInv
<1>2. IsFiniteSet(X)
  BY FS_Subset DEF IInv, MemoryInv
<1>3. Cardinality(X) \in Nat
  BY <1>2, FS_CardinalityType
<1>4. expired' \in Nat
  BY <1>3 DEF Pruned, Remembers, IInv, TypeOK
<1>5. tombs' \in SUBSET Turns
  BY DEF Pruned, Remembers, Tombstones, IInv, TypeOK
<1>6. retained' \in SUBSET Turns
  BY DEF Pruned, IInv, TypeOK
<1> QED
  BY <1>1, <1>4, <1>5, <1>6

LEMMA CreateTypes ==
    ASSUME IInv, NEW E \in SUBSET Turns, NEW X \in SUBSET tombs, NEW t \in Turns,
           Create(t, E), Remembers(E, X), answers' = answers
    PROVE  TurnTypes' /\ expired' \in Nat
<1>0. TurnTypes
  BY TypeParts DEF IInv
<1>1. IsFiniteSet(X)
  BY FS_Subset DEF IInv, MemoryInv
<1>2. expired' \in Nat
  BY <1>1, FS_CardinalityType DEF Remembers, IInv, TypeOK
<1>3. older' \subseteq retained' \X retained' /\ retained' \subseteq Turns
  <2>1. \A p \in older : p = <<p[1], p[2]>> /\ p[1] \in retained /\ p[2] \in retained
    BY <1>0 DEF TurnTypes
  <2>2. \A p \in Without(E) : p \in (retained \ E) \X (retained \ E)
    BY <2>1 DEF Without
  <2> QED
    BY <1>0, <2>2 DEF Create, TurnTypes
<1>4. tombs' \in SUBSET Turns
  BY <1>0 DEF Remembers, Tombstones, TurnTypes
<1>5. starts' \in [Turns -> 0..MaxStarts]
  BY <1>0 DEF Create, TurnTypes
<1>6. after' \in [Turns -> Turns \cup {NoTurn}] /\ tail' \in Turns \cup {NoTurn}
  BY <1>0 DEF Create, TurnTypes
<1>7. /\ stage' \in [Turns -> {"none", "queued", "running", "done"}]
      /\ events' \in [Turns -> 0..MaxEvents]
      /\ terminal' \in [Turns -> {"none", "completed", "unverified", "error"}]
      /\ committed' \in [Turns -> BOOLEAN]
  BY <1>0 DEF Create, TurnTypes
<1> QED
  BY <1>0, <1>2, <1>3, <1>4, <1>5, <1>6, <1>7 DEF TurnTypes

LEMMA TurnStepTypes ==
    ASSUME IInv, NEW t \in Turns, TurnStep(t)
    PROVE  TurnTypes' /\ ReadTypes'
<1>1. TurnTypes /\ ReadTypes
  BY TypeParts DEF IInv
<1>2. stage[t] = "running" /\ terminal[t] = "none" => events[t] \in 1..(MaxEvents - 1)
  BY DEF IInv, QueueInv, StageInv
<1>3. CASE Run(t)
  BY <1>1, <1>3 DEF Run, Publish, TurnTypes, ReadTypes, bounds
<1>4. CASE Emit(t)
  BY <1>1, <1>2, <1>4 DEF Emit, Running, Publish, TurnTypes, ReadTypes, bounds
<1>5. CASE Save(t)
  <2>1. starts[t] \in 1..MaxStarts
    <3>1. t \in Unsettled /\ Unsettled \subseteq retained
      BY <1>5 DEF Save, Running, Unsettled, IInv, QueueInv, ChainInv
    <3>2. starts[t] >= 1 /\ starts[t] \in 0..MaxStarts
      BY <1>1, <3>1 DEF IInv, AnswerInv, TurnTypes
    <3> QED
      BY <3>2
  <2>2. Saved(t) \subseteq answers \cup {<<t, starts[t]>>}
    BY DEF Saved
  <2> QED
    BY <1>1, <1>5, <2>1, <2>2 DEF Save, TurnTypes, ReadTypes, bounds
<1>6. CASE Complete(t) \/ Fail(t)
  <2>1. PICK how \in {"completed", "unverified", "error"} : End(t, how)
    BY <1>6 DEF Complete, Fail
  <2>2. events[t] \in 1..(MaxEvents - 1)
    BY <1>2, <1>6 DEF Complete, Fail, Running
  <2>3. TurnTypes'
    BY <1>1, <2>1, <2>2 DEF End, Publish, TurnTypes
  <2>4. ReadTypes'
    BY <1>1, <1>6, <2>1 DEF Complete, Fail, End, ReadTypes, bounds
  <2> QED
    BY <2>3, <2>4
<1>7. CASE Settle(t)
  <2>1. PICK E \in SUBSET (Done \cup {t}), X \in SUBSET tombs : Pruned(E, X)
    BY <1>7 DEF Settle
  <2>2. E \in SUBSET Turns
    BY <1>1, <2>1 DEF Done, TurnTypes
  <2>3. /\ retained' \in SUBSET Turns /\ older' \in SUBSET (retained' \X retained')
        /\ tombs' \in SUBSET Turns /\ expired' \in Nat
    BY <2>1, <2>2, EvictTypes
  <2>4. after' \in [Turns -> Turns \cup {NoTurn}] /\ tail' \in Turns \cup {NoTurn}
    BY <1>1, <1>7 DEF Settle, Waiters, TailAfter, TurnTypes
  <2>5. stage' \in [Turns -> {"none", "queued", "running", "done"}]
    BY <1>1, <1>7 DEF Settle, TurnTypes
  <2> QED
    BY <1>1, <1>7, <2>3, <2>4, <2>5 DEF Settle, TurnTypes, ReadTypes
<1> QED
  BY <1>3, <1>4, <1>5, <1>6, <1>7 DEF TurnStep

LEMMA ConnectTypes ==
    ASSUME IInv, NEW c \in Clients, NEW t \in Turns, NEW attach \in BOOLEAN,
           Connect(c, t, attach)
    PROVE  TurnTypes' /\ ReadTypes'
<1>1. TurnTypes /\ ReadTypes
  BY TypeParts DEF IInv
<1>2. answers' = answers /\ UNCHANGED <<read, restarts, beats, faults>>
  BY DEF Connect
<1>3. PICK E \in SUBSET Done, X \in SUBSET tombs :
         /\ Remembers(E, X)
         /\ \/ Create(t, E)
            \/ Pruned(E, X) /\ UNCHANGED <<stage, events, terminal, committed, after, tail, starts>>
  BY ConnectCases
<1>4. E \in SUBSET Turns
  BY <1>1 DEF Done, TurnTypes
<1>5. CASE Create(t, E)
  BY <1>1, <1>2, <1>3, <1>4, <1>5, CreateTypes DEF ReadTypes
<1>6. CASE Pruned(E, X) /\ UNCHANGED <<stage, events, terminal, committed, after, tail, starts>>
  <2>1. /\ retained' \in SUBSET Turns /\ older' \in SUBSET (retained' \X retained')
        /\ tombs' \in SUBSET Turns /\ expired' \in Nat
    BY <1>4, <1>6, EvictTypes
  <2> QED
    BY <1>1, <1>2, <1>6, <2>1 DEF TurnTypes, ReadTypes
<1> QED
  BY <1>3, <1>5, <1>6

LEMMA ReadTurnTypes ==
    ASSUME IInv, StartRead \/ ReadMessages \/ EndRead
    PROVE  TurnTypes' /\ ReadTypes'
<1>1. TurnTypes /\ ReadTypes
  BY TypeParts DEF IInv
<1>2. CASE ReadMessages
  <2>1. {a[1] : a \in answers} \in SUBSET Turns
    BY <1>1 DEF TurnTypes
  <2>2. UNCHANGED <<turnVars, answers, bounds>>
    BY <1>2 DEF ReadMessages
  <2>3. TurnTypes'
    BY <1>1, <2>2 DEF TurnTypes, turnVars
  <2>4. read' = [read EXCEPT !.at = "read", !.ids = {a[1] : a \in answers}]
    BY <1>2 DEF ReadMessages
  <2> QED
    BY <1>1, <2>1, <2>2, <2>3, <2>4 DEF ReadTypes, bounds
<1>3. CASE StartRead \/ EndRead
  <2>1. PICK E \in SUBSET Done, X \in SUBSET tombs : Pruned(E, X)
    BY <1>3 DEF StartRead, EndRead, Prune
  <2>2. E \in SUBSET Turns
    BY <1>1 DEF Done, TurnTypes
  <2>3. /\ retained' \in SUBSET Turns /\ older' \in SUBSET (retained' \X retained')
        /\ tombs' \in SUBSET Turns /\ expired' \in Nat
    BY <2>1, <2>2, EvictTypes
  <2>4. UNCHANGED <<stage, events, terminal, committed, after, tail, starts, answers, restarts,
                    beats, faults>>
    BY <1>3 DEF StartRead, EndRead
  <2>5. TurnTypes'
    BY <1>1, <2>3, <2>4 DEF TurnTypes
  <2>6. CASE StartRead
    <3> DEFINE B == InFlight
               R == {p \in older : p[1] \in InFlight /\ p[2] \in InFlight}
    <3>1. B \in SUBSET Turns /\ R \in SUBSET (Turns \X Turns)
      BY <1>1 DEF InFlight, TurnTypes
    <3>2. read' = [NoRead EXCEPT !.at = "reading", !.before = B, !.order = R]
      BY <2>6 DEF StartRead
    <3> HIDE DEF B, R
    <3> QED
      BY <1>1, <2>3, <2>4, <2>5, <3>1, <3>2 DEF NoRead, ReadTypes
  <2>7. CASE EndRead
    <3> DEFINE a == Suspect
    <3>1. a \in Turns \cup {NoTurn}
      BY SuspectIn
    <3>2. read' = [NoRead EXCEPT !.at = "told", !.active = a]
      BY <2>7 DEF EndRead
    <3> HIDE DEF a
    <3> QED
      BY <1>1, <2>3, <2>4, <2>5, <3>1, <3>2 DEF NoRead, ReadTypes
  <2> QED
    BY <1>3, <2>6, <2>7
<1> QED
  BY <1>2, <1>3

LEMMA StreamTypeStep ==
    ASSUME IInv, [Next]_vars
    PROVE  StreamTypes'
<1>1. StreamTypes /\ TurnTypes
  BY TypeParts DEF IInv
<1>2. \A d \in Clients : writer'[d] \in Writers /\ Fits(writer'[d]) /\ last'[d] \in Nat
  <2>1. \A d \in Clients : WriterType(d)' /\ last'[d] \in Nat
    BY StreamStep DEF IInv
  <2> QED
    BY <2>1 DEF WriterType
<1> SUFFICES /\ conn' \in [Clients -> Turns \cup {NoTurn}]
             /\ goal' \in [Clients -> Turns \cup {NoTurn}]
             /\ heard' \in [Clients -> Nat] /\ wrote' \in [Clients -> Nat]
             /\ last' = [d \in Clients |-> last'[d]]
             /\ writer' = [d \in Clients |-> writer'[d]]
  <2>1. ASSUME last' = [d \in Clients |-> last'[d]] PROVE last' \in [Clients -> Nat]
    BY <1>2, <2>1
  <2>2. ASSUME writer' = [d \in Clients |-> writer'[d]] PROVE writer' \in [Clients -> Writers]
    BY <1>2, <2>2
  <2> QED
    BY <1>2, <2>1, <2>2 DEF StreamTypes
<1>3. CASE UNCHANGED <<conn, heard, wrote, writer, goal, last>>
  BY <1>1, <1>3 DEF StreamTypes
<1>4. ASSUME NEW t \in Turns, Publish(t, events[t] + 1) \/ Publish(t, 1)
      PROVE  /\ UNCHANGED <<conn, heard, goal, last>> /\ wrote' \in [Clients -> Nat]
             /\ writer' = [d \in Clients |-> writer'[d]]
  <2>1. PICK e \in Nat : Publish(t, e)
    BY <1>1, <1>4 DEF TurnTypes
  <2>2. wrote' \in [Clients -> Nat]
    BY <1>1, <2>1 DEF Publish, StreamTypes
  <2> QED
    BY <2>1, <2>2 DEF Publish
<1>5. ASSUME NEW t \in Turns, TurnStep(t)
      PROVE  \/ UNCHANGED <<conn, heard, wrote, writer, goal, last>>
             \/ Publish(t, events[t] + 1) \/ Publish(t, 1)
  BY <1>5 DEF TurnStep, Run, Emit, Save, Complete, Fail, End, Settle, streamVars
<1>6. ASSUME NEW t \in Turns, TurnStep(t)
      PROVE  /\ conn' \in [Clients -> Turns \cup {NoTurn}]
             /\ goal' \in [Clients -> Turns \cup {NoTurn}]
             /\ heard' \in [Clients -> Nat] /\ wrote' \in [Clients -> Nat]
             /\ last' = [d \in Clients |-> last'[d]]
             /\ writer' = [d \in Clients |-> writer'[d]]
  BY <1>1, <1>4, <1>5, <1>6 DEF StreamTypes
<1>7. ASSUME NEW c \in Clients, NEW t \in Turns, NEW attach \in BOOLEAN, Connect(c, t, attach)
      PROVE  /\ conn' \in [Clients -> Turns \cup {NoTurn}]
             /\ goal' \in [Clients -> Turns \cup {NoTurn}]
             /\ heard' \in [Clients -> Nat] /\ wrote' \in [Clients -> Nat]
             /\ last' = [d \in Clients |-> last'[d]]
             /\ writer' = [d \in Clients |-> writer'[d]]
  <2> DEFINE from == IF goal[c] = t THEN last[c] ELSE 0
  <2>1. /\ Subscribe(c, t, from) \/ UNCHANGED <<conn, heard, wrote, writer>>
        /\ goal' = [goal EXCEPT ![c] = t] /\ last' = [last EXCEPT ![c] = from]
    BY <1>7 DEF Connect
  <2>2. starts'[t] \in Nat /\ events'[t] \in Nat
    <3>1. TurnTypes'
      BY <1>7, ConnectTypes
    <3> QED
      BY <3>1 DEF TurnTypes
  <2>3. goal' \in [Clients -> Turns \cup {NoTurn}] /\ last' = [d \in Clients |-> last'[d]]
    BY <1>1, <2>1 DEF StreamTypes
  <2>4. CASE Subscribe(c, t, from)
    BY <1>1, <2>2, <2>3, <2>4 DEF Subscribe, StreamTypes
  <2>5. CASE UNCHANGED <<conn, heard, wrote, writer>>
    BY <1>1, <2>3, <2>5 DEF StreamTypes
  <2> QED
    BY <2>1, <2>4, <2>5
<1>8. ASSUME NEW c \in Clients, Deliver(c) \/ Heartbeat(c) \/ Disconnect(c)
      PROVE  /\ conn' \in [Clients -> Turns \cup {NoTurn}]
             /\ goal' \in [Clients -> Turns \cup {NoTurn}]
             /\ heard' \in [Clients -> Nat] /\ wrote' \in [Clients -> Nat]
             /\ last' = [d \in Clients |-> last'[d]]
             /\ writer' = [d \in Clients |-> writer'[d]]
  <2>1. CASE Deliver(c)
    BY <1>1, <2>1 DEF Deliver, StreamTypes
  <2>2. CASE Heartbeat(c)
    BY <1>1, <2>2 DEF Heartbeat, StreamTypes
  <2>3. CASE Disconnect(c)
    BY <1>1, <2>3 DEF Disconnect, StreamTypes
  <2> QED
    BY <1>8, <2>1, <2>2, <2>3
<1>9. CASE StartRead \/ ReadMessages \/ EndRead \/ UNCHANGED vars
  BY <1>3, <1>9 DEF StartRead, ReadMessages, EndRead, vars, streamVars
<1>10. CASE Restart
  BY <1>1, <1>10 DEF Restart, StreamTypes
<1> QED
  BY <1>6, <1>7, <1>8, <1>9, <1>10 DEF Next, ClientStep

LEMMA TypeStep ==
    ASSUME IInv, [Next]_vars
    PROVE  TypeOK'
<1>1. TurnTypes /\ ReadTypes
  BY TypeParts DEF IInv
<1>2. ASSUME NEW c \in Clients, Deliver(c) \/ Heartbeat(c) \/ Disconnect(c)
      PROVE  TurnTypes' /\ ReadTypes'
  <2>1. UNCHANGED <<turnVars, answers, read, restarts, expired, faults>> /\ beats' \in Nat
    BY <1>1, <1>2 DEF Deliver, Heartbeat, Disconnect, bounds, ReadTypes
  <2> QED
    BY <1>1, <2>1 DEF TurnTypes, ReadTypes, turnVars
<1>3. ASSUME Restart PROVE TurnTypes' /\ ReadTypes'
  <2>1. TurnTypes'
    BY <1>1, <1>3 DEF Restart, TurnTypes
  <2>2. ReadTypes'
    BY <1>1, <1>3 DEF Restart, ReadTypes, NoRead
  <2> QED
    BY <2>1, <2>2
<1>4. ASSUME UNCHANGED vars PROVE TurnTypes' /\ ReadTypes'
  <2>1. UNCHANGED <<turnVars, answers, read, bounds>>
    BY <1>4 DEF vars
  <2>2. TurnTypes'
    BY <1>1, <2>1 DEF TurnTypes, turnVars
  <2>3. ReadTypes'
    BY <1>1, <2>1 DEF ReadTypes, bounds
  <2> QED
    BY <2>2, <2>3
<1>5. ASSUME NEW t \in Turns, TurnStep(t) PROVE TurnTypes' /\ ReadTypes'
  BY <1>5, TurnStepTypes
<1>6. ASSUME NEW c \in Clients, NEW t \in Turns, NEW attach \in BOOLEAN, Connect(c, t, attach)
      PROVE  TurnTypes' /\ ReadTypes'
  BY <1>6, ConnectTypes
<1>7. TurnTypes' /\ ReadTypes'
  BY <1>2, <1>3, <1>4, <1>5, <1>6, ReadTurnTypes DEF Next, ClientStep
<1>8. StreamTypes'
  BY StreamTypeStep
<1> QED
  BY <1>7, <1>8 DEF TypeOK, TurnTypes, StreamTypes, ReadTypes, Writers, Fits

-----------------------------------------------------------------------------
(* The invariant and what follows from it.                                 *)

LEMMA InitInvariant == Init => IInv
<1> SUFFICES ASSUME Init PROVE IInv
  OBVIOUS
<1> USE DEF Init
<1>1. TypeOK
  <2>1. TurnTypes
    BY DEF TurnTypes
  <2>2. Closed \in Writers /\ Fits(Closed)
    BY DEF Closed, Writers, Fits
  <2>3. StreamTypes
    BY <2>2 DEF StreamTypes
  <2>4. ReadTypes
    BY DEF ReadTypes, NoRead
  <2> QED
    BY <2>1, <2>3, <2>4, TypeParts
<1>2. QueueInv
  BY DEF QueueInv, OrderInv, ChainInv, StageInv, Unsettled
<1>3. MemoryInv
  BY FS_EmptySet DEF MemoryInv
<1>4. AnswerInv
  BY DEF AnswerInv
<1>5. StreamInv
  BY DEF StreamInv, Listens, Closed
<1>6. ReadInv
  BY FS_EmptySet DEF ReadInv, NoRead
<1> QED
  BY <1>1, <1>2, <1>3, <1>4, <1>5, <1>6 DEF IInv

LEMMA NextInvariant == IInv /\ [Next]_vars => IInv'
<1> SUFFICES ASSUME IInv, [Next]_vars PROVE IInv'
  OBVIOUS
<1>1. TypeOK'
  BY TypeStep
<1>2. QueueInv' /\ MemoryInv' /\ AnswerInv' /\ ReadInv'
  BY QueueStep, MemoryStep, AnswerStep, ReadStep DEF IInv
<1>3. StreamInv'
  <2>1. \A d \in Clients : StreamOf(d)'
    BY StreamStep DEF IInv
  <2> QED
    BY <2>1 DEF StreamInv, StreamOf
<1> QED
  BY <1>1, <1>2, <1>3 DEF IInv

THEOREM Invariant == Spec => []IInv
BY InitInvariant, NextInvariant, PTL DEF Spec

\* Every variable keeps its type, and no client makes the process hold more
\* frames than the socket and the queue are allowed.
THEOREM TypeCorrect == Spec => []TypeOK
<1>1. IInv => TypeOK
  BY DEF IInv
<1> QED
  BY <1>1, Invariant, PTL

\* The turns of a thread run one at a time, in the order they were asked for
\* (coordinator.ts getOrCreateTurn), whatever failed or was evicted meanwhile.
THEOREM TurnsInOrder == Spec => []OneAtATime
<1>1. IInv => OneAtATime
  <2> SUFFICES ASSUME IInv PROVE OneAtATime
    OBVIOUS
  <2>1. QueueInv /\ TypeOK
    BY DEF IInv
  <2>2. ASSUME NEW u \in Turns, stage[u] = "running"
        PROVE  u \in Unsettled /\ \A v \in Unsettled : <<v, u>> \notin older
    BY <2>1, <2>2 DEF QueueInv, ChainInv, Unsettled
  <2>3. ASSUME NEW t \in Turns, NEW u \in Turns, stage[t] = "running", stage[u] = "running"
        PROVE  t = u
    <3>1. /\ t \in Unsettled /\ u \in Unsettled /\ <<t, u>> \notin older /\ <<u, t>> \notin older
      BY <2>2, <2>3
    <3> QED
      BY <2>1, <3>1 DEF QueueInv, ChainInv, OrderInv
  <2>4. ASSUME NEW t \in retained, NEW u \in retained, <<t, u>> \in older, stage[u] # "queued"
        PROVE  stage[t] = "done"
    <3>1. t \in Turns /\ u \in Turns /\ stage[u] \in {"running", "done"}
          /\ stage[t] \in {"queued", "running", "done"}
      BY <2>1, <2>4 DEF TypeOK, QueueInv, StageInv
    <3>2. CASE stage[u] = "running"
      BY <2>2, <2>4, <3>1, <3>2 DEF Unsettled
    <3>3. CASE stage[u] = "done"
      BY <2>1, <2>4, <3>3 DEF QueueInv, StageInv
    <3> QED
      BY <3>1, <3>2, <3>3
  <2> QED
    BY <2>3, <2>4 DEF OneAtATime
<1> QED
  BY <1>1, Invariant, PTL

\* While the process lives and remembers, no request starts a turn again
\* (coordinator.ts completedTurnTombstones).
THEOREM StartedOnce == Spec => []RunOnce
<1>1. IInv => RunOnce
  BY DEF IInv, TypeOK, MemoryInv, RunOnce
<1> QED
  BY <1>1, Invariant, PTL

\* A turn has at most one answer, and one that was reported as completed has
\* one, also when it was run again after a restart (messages.ts
\* persistSealedChatMessage).
THEOREM AnsweredOnce == Spec => []AnswerOnce
<1>1. IInv => AnswerOnce
  <2> SUFFICES ASSUME IInv, NEW t \in Turns
               PROVE  LET rows == {a \in answers : a[1] = t} IN
                      Cardinality(rows) <= 1 /\ (terminal[t] = "completed" => rows # {})
    BY DEF AnswerOnce
  <2> DEFINE rows == {a \in answers : a[1] = t}
  <2>1. \A a, b \in rows : a = b
    BY DEF IInv, AnswerInv
  <2>2. terminal[t] = "completed" => rows # {}
    BY DEF IInv, AnswerInv
  <2>3. Cardinality(rows) <= 1
    <3>1. CASE rows = {}
      BY <3>1, FS_EmptySet
    <3>2. CASE rows # {}
      <4>1. PICK a \in rows : rows = {a}
        BY <2>1, <3>2
      <4> QED
        BY <4>1, FS_Singleton
    <3> QED
      BY <3>1, <3>2
  <2> QED
    BY <2>2, <2>3
<1> QED
  BY <1>1, Invariant, PTL

\* What a client hears of a turn has no gap and no repetition, across
\* disconnects, back pressure and resumes by event id (http.ts).
THEOREM StreamsInOrder == Spec => StreamInOrder
<1>1. IInv /\ [Next]_vars =>
         [\A c \in Clients :
             (goal'[c] = goal[c] /\ last'[c] # last[c]) => last'[c] = last[c] + 1]_vars
  <2> SUFFICES ASSUME IInv, [Next]_vars, NEW c \in Clients, goal'[c] = goal[c], last'[c] # last[c]
               PROVE  last'[c] = last[c] + 1
    OBVIOUS
  <2> QED
    BY StreamStep DEF IInv
<1> QED
  BY <1>1, Invariant, PTL DEF Spec, StreamInOrder

\* A reload that is told of no active turn has the answers of all turns that
\* were in flight when it started (coordinator.ts readThread).
THEOREM ReadsFindAnswers == Spec => ReadFindsAnswer
<1>1. IInv /\ [Next]_vars =>
         [EndRead /\ read'.active = NoTurn => read.before \subseteq read.ids]_vars
  <2> SUFFICES ASSUME IInv, EndRead, read'.active = NoTurn PROVE read.before \subseteq read.ids
    OBVIOUS
  <2> DEFINE a == Suspect
  <2>1. read' = [NoRead EXCEPT !.at = "told", !.active = a]
    BY DEF EndRead
  <2>2. a = NoTurn => Unanswered(read.before) = {}
    BY SuspectIn
  <2> HIDE DEF a
  <2>3. read'.active = a
    BY <2>1 DEF NoRead
  <2> QED
    BY <2>2, <2>3 DEF Unanswered, Answered
<1> QED
  BY <1>1, Invariant, PTL DEF Spec, ReadFindsAnswer

-----------------------------------------------------------------------------
(* The thread implements its contract.                                     *)

AnsweredTurns == {a[1] : a \in answers}
ReportedTurns == {t \in Turns : terminal[t] = "completed"}

Kept == UNCHANGED <<Phase, Ahead, AnsweredTurns, ReportedTurns>>

\* Pruning, whatever it evicts, is no step of the contract.
LEMMA PruneKept ==
    ASSUME IInv, NEW E, E \cap Unsettled = {}, older' = Without(E),
           UNCHANGED <<stage, terminal, answers>>
    PROVE  Kept
<1>1. Unsettled' = Unsettled
  BY DEF Unsettled
<1>2. Ahead' = Ahead
  BY <1>1 DEF Ahead, Without
<1> QED
  BY <1>2 DEF Kept, Phase, AnsweredTurns, ReportedTurns

\* A turn that is asked for joins the end of the queue.
LEMMA CreateAsks ==
    ASSUME IInv, NEW t \in Turns, NEW E \in SUBSET Done, t \notin retained \ E,
           t \notin E, Create(t, E), answers' = answers
    PROVE  Contract!Ask(t)
<1>1. t \notin retained /\ Unsettled \subseteq retained /\ t \notin Unsettled
  BY DEF IInv, QueueInv, ChainInv
<1>2. E \cap Unsettled = {}
  BY DEF Done, Unsettled
<1>3. stage \in [Turns -> {"none", "queued", "running", "done"}] /\ older \subseteq retained \X retained
  BY DEF IInv, TypeOK
<1>4. Unsettled' = Unsettled \cup {t}
  BY <1>3 DEF Create, Unsettled
<1>5. Contract!Open = Unsettled
  BY <1>3 DEF Contract!Open, Phase, Unsettled
<1>6. Phase[t] = "idle" /\ Phase' = [Phase EXCEPT ![t] = "waiting"]
  BY <1>1, <1>3 DEF Create, Phase, Unsettled
<1>7. Ahead' = Ahead \cup (Unsettled \X {t})
  <2>1. older' = Without(E) \cup ((retained \ E) \X {t})
    BY DEF Create
  <2>2. ASSUME NEW p \in older', p[1] \in Unsettled', p[2] \in Unsettled'
        PROVE  p \in Ahead \cup (Unsettled \X {t})
    <3>1. CASE p \in Without(E)
      BY <1>1, <1>3, <1>4, <2>2, <3>1 DEF Without, Ahead
    <3>2. CASE p \in (retained \ E) \X {t}
      BY <1>1, <1>4, <2>2, <3>2
    <3> QED
      BY <2>1, <2>2, <3>1, <3>2
  <2>3. ASSUME NEW p \in Ahead PROVE p \in Ahead'
    BY <1>2, <1>4, <2>1, <2>3 DEF Ahead, Without
  <2>4. ASSUME NEW u \in Unsettled PROVE <<u, t>> \in Ahead'
    BY <1>1, <1>2, <1>4, <2>1 DEF Ahead
  <2> QED
    BY <2>2, <2>3, <2>4 DEF Ahead
<1>8. ReportedTurns' = ReportedTurns \ {t}
  BY DEF Create, ReportedTurns, IInv, TypeOK
<1> QED
  BY <1>5, <1>6, <1>7, <1>8 DEF Contract!Ask, ReportedTurns

\* A turn starts when every turn that was asked for before it is over.
LEMMA RunStarts ==
    ASSUME IInv, NEW t \in Turns, Run(t)
    PROVE  Contract!Start(t)
<1>1. stage \in [Turns -> {"none", "queued", "running", "done"}]
  BY DEF IInv, TypeOK
<1>2. t \in Unsettled /\ \A v \in Unsettled : <<v, t>> \notin older
  BY DEF Run, Unsettled, IInv, QueueInv, ChainInv
<1>3. \A u \in Turns : <<u, t>> \notin Ahead
  BY <1>2 DEF Ahead
<1>4. Phase[t] = "waiting" /\ Phase' = [Phase EXCEPT ![t] = "running"]
  BY <1>1 DEF Run, Phase
<1>5. Unsettled' = Unsettled
  BY <1>1 DEF Run, Unsettled
<1>6. Ahead' = Ahead /\ UNCHANGED <<AnsweredTurns, ReportedTurns>>
  BY <1>5 DEF Run, Ahead, AnsweredTurns, ReportedTurns
<1> QED
  BY <1>3, <1>4, <1>6 DEF Contract!Start, AnsweredTurns, ReportedTurns

\* A turn that settles leaves the queue, evicted in the same step or not.
LEMMA SettleEnds ==
    ASSUME IInv, NEW t \in Turns, Settle(t)
    PROVE  Contract!End(t)
<1>1. stage \in [Turns -> {"none", "queued", "running", "done"}] /\ older \subseteq retained \X retained
  BY DEF IInv, TypeOK
<1>2. PICK E \in SUBSET (Done \cup {t}) : older' = Without(E)
  BY DEF Settle, Pruned
<1>3. Phase[t] = "running" /\ Phase' = [Phase EXCEPT ![t] = "idle"]
  BY <1>1 DEF Settle, Phase
<1>4. Unsettled' = Unsettled \ {t} /\ E \cap Unsettled' = {}
  BY <1>1 DEF Settle, Unsettled, Done
<1>5. Ahead' = {p \in Ahead : p[1] # t /\ p[2] # t}
  BY <1>2, <1>4 DEF Ahead, Without
<1>6. UNCHANGED <<AnsweredTurns, ReportedTurns>>
  BY DEF Settle, AnsweredTurns, ReportedTurns
<1> QED
  BY <1>3, <1>5, <1>6 DEF Contract!End, AnsweredTurns, ReportedTurns

\* What a running turn does: the first answer, the report, or nothing the
\* contract sees.
LEMMA WorkKept ==
    ASSUME IInv, NEW t \in Turns, Emit(t) \/ Save(t) \/ Complete(t) \/ Fail(t)
    PROVE  Contract!Answer(t) \/ Contract!Report(t) \/ Kept
<1>1. /\ stage \in [Turns -> {"none", "queued", "running", "done"}]
      /\ terminal \in [Turns -> {"none", "completed", "unverified", "error"}]
  BY DEF IInv, TypeOK
<1>2. Phase[t] = "running" /\ terminal[t] = "none"
  BY <1>1 DEF Emit, Save, Complete, Fail, Running, Phase
<1>3. UNCHANGED <<Phase, Ahead>>
  BY DEF Emit, Save, Complete, Fail, End, Phase, Ahead, Unsettled
<1>4. CASE Emit(t)
  BY <1>3, <1>4 DEF Emit, Kept, AnsweredTurns, ReportedTurns
<1>5. CASE Save(t)
  <2>1. terminal' = terminal /\ answers' = Saved(t)
    BY <1>5 DEF Save
  <2>2. CASE t \in AnsweredTurns
    <3>1. answers' = answers
      BY <2>1, <2>2 DEF Saved, AnsweredTurns
    <3> QED
      BY <1>3, <2>1, <3>1 DEF Kept, AnsweredTurns, ReportedTurns
  <2>3. CASE t \notin AnsweredTurns
    <3>1. answers' = answers \cup {<<t, starts[t]>>}
      BY <2>1, <2>3 DEF Saved, AnsweredTurns
    <3>2. AnsweredTurns' = AnsweredTurns \cup {t}
      <4> DEFINE row == <<t, starts[t]>>
      <4>1. row[1] = t
        OBVIOUS
      <4> HIDE DEF row
      <4>2. answers' = answers \cup {row}
        BY <3>1 DEF row
      <4> QED
        BY <4>1, <4>2 DEF AnsweredTurns
    <3> QED
      BY <1>2, <1>3, <2>1, <2>3, <3>2 DEF Contract!Answer, AnsweredTurns
  <2> QED
    BY <2>2, <2>3
<1>6. CASE Complete(t)
  <2>1. answers' = answers /\ terminal' = [terminal EXCEPT ![t] = IF committed[t] THEN "completed" ELSE "unverified"]
    BY <1>6 DEF Complete, End
  <2>2. CASE committed[t]
    <3>1. t \in AnsweredTurns
      BY <2>2 DEF AnsweredTurns, IInv, AnswerInv
    <3>2. t \notin ReportedTurns /\ ReportedTurns' = ReportedTurns \cup {t}
      BY <1>1, <1>2, <2>1, <2>2 DEF ReportedTurns
    <3> QED
      BY <1>2, <1>3, <2>1, <3>1, <3>2 DEF Contract!Report, AnsweredTurns, ReportedTurns
  <2>3. CASE ~committed[t]
    BY <1>1, <1>2, <1>3, <2>1, <2>3 DEF Kept, AnsweredTurns, ReportedTurns
  <2> QED
    BY <2>2, <2>3
<1>7. CASE Fail(t)
  <2>1. answers' = answers /\ terminal' = [terminal EXCEPT ![t] = "error"]
    BY <1>7 DEF Fail, End
  <2> QED
    BY <1>1, <1>2, <1>3, <2>1 DEF Kept, AnsweredTurns, ReportedTurns
<1> QED
  BY <1>4, <1>5, <1>6, <1>7

\* A stream request asks for a turn or changes nothing the contract sees.
LEMMA ConnectAsks ==
    ASSUME IInv, NEW c \in Clients, NEW t \in Turns, NEW attach \in BOOLEAN,
           Connect(c, t, attach)
    PROVE  Contract!Ask(t) \/ Kept
<1> DEFINE from == IF goal[c] = t THEN last[c] ELSE 0
<1>1. PICK E \in SUBSET Done, X \in SUBSET tombs :
          LET found == t \in retained \ E
              refused == t \in Tombstones(E, X)
              creates == ~found /\ ~refused /\ ~attach /\ from = 0
          IN  IF creates THEN Create(t, E) /\ Remembers(E, X)
              ELSE Pruned(E, X) /\ UNCHANGED <<stage, events, terminal, committed, after,
                                               tail, starts>>
  BY DEF Connect
<1>2. answers' = answers
  BY DEF Connect
<1>3. E \cap Unsettled = {}
  BY DEF Done, Unsettled
<1>4. CASE t \notin retained \ E /\ t \notin Tombstones(E, X) /\ ~attach /\ from = 0
  <2>1. Create(t, E) /\ t \notin E
    BY <1>1, <1>4 DEF Tombstones
  <2> QED
    BY <1>2, <1>4, <2>1, CreateAsks
<1>5. CASE ~(t \notin retained \ E /\ t \notin Tombstones(E, X) /\ ~attach /\ from = 0)
  <2>1. older' = Without(E) /\ UNCHANGED <<stage, terminal>>
    BY <1>1, <1>5 DEF Pruned
  <2> QED
    BY <1>2, <1>3, <2>1, PruneKept
<1> QED
  BY <1>4, <1>5

\* Whatever is queued, pruned, forgotten, resumed or restarted, every step is
\* a step of ThreadContract or one it does not see: turns run in the order in
\* which they were asked for, one at a time, are answered once and reported
\* only with their answer.
THEOREM Refinement == Spec => KeepsContract
<1>1. Init => Contract!Init
  BY DEF Init, Contract!Init, Phase, Ahead
<1>2. Kept => UNCHANGED Contract!vars
  BY DEF Kept, Contract!vars, AnsweredTurns, ReportedTurns
<1>3. ASSUME IInv, [Next]_vars
      PROVE  Contract!Next \/ Kept
  <2>1. ASSUME NEW t \in Turns, TurnStep(t) PROVE Contract!Next \/ Kept
    BY <1>3, <2>1, RunStarts, SettleEnds, WorkKept DEF TurnStep, Contract!Next
  <2>2. ASSUME NEW c \in Clients, ClientStep(c) PROVE Contract!Next \/ Kept
    <3>1. ASSUME NEW t \in Turns, NEW attach \in BOOLEAN, Connect(c, t, attach)
          PROVE  Contract!Next \/ Kept
      BY <1>3, <3>1, ConnectAsks DEF Contract!Next
    <3>2. CASE Deliver(c) \/ Heartbeat(c) \/ Disconnect(c)
      BY <3>2 DEF Deliver, Heartbeat, Disconnect, turnVars, Kept, Phase, Ahead, Unsettled,
                  AnsweredTurns, ReportedTurns
    <3> QED
      BY <2>2, <3>1, <3>2 DEF ClientStep
  <2>3. CASE StartRead \/ EndRead
    <3>1. PICK E \in SUBSET Done : older' = Without(E) /\ UNCHANGED <<stage, terminal, answers>>
      BY <2>3 DEF StartRead, EndRead, Prune, Pruned
    <3>2. E \cap Unsettled = {}
      BY DEF Done, Unsettled
    <3> QED
      BY <1>3, <3>1, <3>2, PruneKept
  <2>4. CASE ReadMessages \/ UNCHANGED vars
    BY <2>4 DEF ReadMessages, vars, turnVars, Kept, Phase, Ahead, Unsettled, AnsweredTurns,
                ReportedTurns
  <2>5. CASE Restart
    <3>1. Phase' = [t \in Turns |-> "idle"]
      BY <2>5 DEF Restart, Phase
    <3>2. Ahead' = {} /\ ReportedTurns' = {} /\ AnsweredTurns' = AnsweredTurns
      BY <2>5 DEF Restart, Ahead, ReportedTurns, AnsweredTurns
    <3> QED
      BY <3>1, <3>2 DEF Contract!Forget, Contract!Next, ReportedTurns, AnsweredTurns
  <2> QED
    BY <1>3, <2>1, <2>2, <2>3, <2>4, <2>5 DEF Next
<1>4. IInv /\ [Next]_vars => [Contract!Next]_Contract!vars
  BY <1>2, <1>3
<1> QED
  BY <1>1, <1>4, Invariant, PTL DEF Spec, KeepsContract, Contract!Spec
=============================================================================
