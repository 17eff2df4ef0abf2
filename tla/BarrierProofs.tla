---------------------------- MODULE BarrierProofs ---------------------------
(*****************************************************************************)
(* Proof that the page holds the log of its session without a hole or a      *)
(* repetition (SnapshotBarrier), for any number of events, connections,      *)
(* requests, losses and failures.                                            *)
(*                                                                           *)
(* The first part is about values only: the queue q of frames, the tasks t   *)
(* that will follow it, the visible events V, the array a of what the page   *)
(* holds and the last number l it applied.  The second applies it to the     *)
(* state of SnapshotBarrier.                                                 *)
(*****************************************************************************)
EXTENDS SnapshotBarrier, FiniteSetTheorems, WellFoundedInduction, TLAPS

-----------------------------------------------------------------------------
(*****************************************************************************)
(* Sequences.                                                                *)
(*****************************************************************************)

\* An element of a sequence over R is in R.
LEMMA MemberOfSeq ==
  ASSUME NEW R, NEW q \in Seq(R), NEW n \in 1..Len(q)
  PROVE  q[n] \in R
OBVIOUS

\* Replacing an element of a sequence gives a sequence of the same length.
LEMMA ReplacedSeq ==
  ASSUME NEW R, NEW q \in Seq(R), NEW n \in 1..Len(q), NEW r \in R
  PROVE  [q EXCEPT ![n] = r] \in Seq(R) /\ Len([q EXCEPT ![n] = r]) = Len(q)
OBVIOUS

-----------------------------------------------------------------------------
(*****************************************************************************)
(* Counting events.                                                          *)
(*****************************************************************************)

\* Every nonempty set of numbers has a least element.
LEMMA LeastElement ==
  ASSUME NEW B, B \subseteq Nat, B # {}
  PROVE  \E m \in B : \A n \in B : m <= n
<1>1. PICK m \in B : \A n \in B : ~(<<n, m>> \in OpToRel(<, Nat))
  BY Zenon, NatLessThanWellFounded, WFMin
<1>2. ASSUME NEW n \in B PROVE m <= n
  <2>1. m \in Nat /\ n \in Nat
    BY Zenon
  <2>2. ~(n < m)
    BY Zenon, <1>1, <2>1 DEF OpToRel
  <2> QED
    BY <2>1, <2>2
<1> QED
  BY Zenon, <1>2

\* How many numbers of V are at most n.
Upto(V, n) == Cardinality({k \in V : k <= n})

\* The count is a number.
LEMMA UptoNat ==
  ASSUME NEW V, IsFiniteSet(V), NEW n
  PROVE  IsFiniteSet({k \in V : k <= n}) /\ Upto(V, n) \in Nat
<1>1. {k \in V : k <= n} \in SUBSET V
  BY Zenon
<1> QED
  BY Zenon, <1>1, FS_Subset, FS_CardinalityType DEF Upto

\* Counting further counts no less.
LEMMA UptoMono ==
  ASSUME NEW V, IsFiniteSet(V), \A k \in V : k \in Nat, NEW m \in Nat, NEW n \in Nat, m <= n
  PROVE  Upto(V, m) <= Upto(V, n)
<1>1. \A k \in V : k <= m => k <= n
  OBVIOUS
<1>2. {k \in V : k <= m} \in SUBSET {k \in V : k <= n}
  BY Zenon, <1>1
<1> QED
  BY Zenon, <1>2, UptoNat, FS_Subset DEF Upto

\* Counting as far as a member counts it.
LEMMA UptoStrict ==
  ASSUME NEW V, IsFiniteSet(V), \A k \in V : k \in Nat, NEW m \in Nat, NEW n \in V, m < n
  PROVE  Upto(V, m) + 1 <= Upto(V, n)
<1> DEFINE A == {k \in V : k <= m}
           B == {k \in V : k <= n}
<1>1. A \cup {n} \in SUBSET B /\ n \notin A
  OBVIOUS
<1>2. IsFiniteSet(A) /\ IsFiniteSet(B)
  BY Zenon, UptoNat
<1>3. Cardinality(A \cup {n}) = Cardinality(A) + 1
  BY Zenon, <1>1, <1>2, FS_AddElement
<1>4. Cardinality(A \cup {n}) <= Cardinality(B)
  BY Zenon, <1>1, <1>2, FS_Subset
<1> QED
  BY Zenon, <1>3, <1>4 DEF Upto

\* One number more.
LEMMA UptoStep ==
  ASSUME NEW V, IsFiniteSet(V), \A k \in V : k \in Nat, NEW n \in Nat
  PROVE  Upto(V, n + 1) = IF n + 1 \in V THEN Upto(V, n) + 1 ELSE Upto(V, n)
<1> DEFINE A == {k \in V : k <= n}
           B == {k \in V : k <= n + 1}
<1>1. IsFiniteSet(A)
  BY Zenon, UptoNat
<1>2. CASE n + 1 \in V
  <2>1. B = A \cup {n + 1} /\ n + 1 \notin A
    BY <1>2
  <2>2. Cardinality(A \cup {n + 1}) = Cardinality(A) + 1
    BY Zenon, <1>1, <2>1, FS_AddElement
  <2> QED
    BY Zenon, <1>2, <2>1, <2>2 DEF Upto
<1>3. CASE n + 1 \notin V
  <2>1. B = A
    BY <1>3
  <2> QED
    BY Zenon, <1>3, <2>1 DEF Upto
<1> QED
  BY Zenon, <1>2, <1>3

\* A set that has 0 and is closed under successor has every number.
LEMMA SetInduction ==
  ASSUME NEW T, 0 \in T, \A n \in Nat : n \in T => n + 1 \in T
  PROVE  \A n \in Nat : n \in T
<1> DEFINE B == {n \in Nat : n \notin T}
<1> SUFFICES ASSUME B # {} PROVE FALSE
  BY Zenon
<1>1. PICK m \in B : \A n \in B : m <= n
  BY Zenon, LeastElement
<1>2. m \in Nat /\ m # 0
  BY Zenon
<1>3. m - 1 \in Nat /\ ~(m <= m - 1)
  BY <1>2
<1>4. m - 1 \in T
  BY Zenon, <1>1, <1>3
<1>5. (m - 1) + 1 \in T
  BY Zenon, <1>3, <1>4
<1> QED
  BY <1>2, <1>5

\* A stretch of numbers holds no more members than it is long.
LEMMA UptoSpread ==
  ASSUME NEW V, IsFiniteSet(V), \A k \in V : k \in Nat, NEW m \in Nat, NEW n \in Nat, m <= n
  PROVE  Upto(V, n) <= Upto(V, m) + (n - m)
<1> DEFINE T == {i \in Nat : Upto(V, m + i) <= Upto(V, m) + i}
<1>1. 0 \in T
  <2>1. m + 0 = m
    OBVIOUS
  <2>2. Upto(V, m) \in Nat
    BY Zenon, UptoNat
  <2> QED
    BY <2>1, <2>2
<1>2. ASSUME NEW i \in Nat, i \in T PROVE i + 1 \in T
  <2>1. m + i \in Nat /\ (m + i) + 1 = m + (i + 1)
    OBVIOUS
  <2>2. Upto(V, m + i) \in Nat /\ Upto(V, m) \in Nat
    BY Zenon, UptoNat
  <2>3. Upto(V, m + (i + 1)) <= Upto(V, m + i) + 1
    BY <2>1, <2>2, UptoStep
  <2>4. Upto(V, m + (i + 1)) \in Nat
    BY Zenon, UptoNat
  <2> QED
    BY <1>2, <2>2, <2>3, <2>4
<1>3. n - m \in T
  <2>1. n - m \in Nat
    OBVIOUS
  <2> HIDE DEF T
  <2> QED
    BY Zenon, <1>1, <1>2, <2>1, SetInduction
<1>4. m + (n - m) = n
  OBVIOUS
<1> QED
  BY Zenon, <1>3, <1>4

\* The members in the n places after a: what a buffer of n events that starts after
\* event a replays (RuntimeObserver.resume).
LEMMA ShiftCount ==
  ASSUME NEW V, IsFiniteSet(V), \A k \in V : k \in Nat, NEW a \in Nat, NEW n \in Nat
  PROVE  /\ IsFiniteSet({j \in 1..n : a + j \in V})
         /\ Cardinality({j \in 1..n : a + j \in V}) = Upto(V, a + n) - Upto(V, a)
<1> DEFINE W(i) == {j \in 1..i : a + j \in V}
           T == {i \in Nat : IsFiniteSet(W(i)) /\ Cardinality(W(i)) = Upto(V, a + i) - Upto(V, a)}
<1>1. 0 \in T
  <2>1. W(0) = {} /\ a + 0 = a
    OBVIOUS
  <2>2. Upto(V, a) \in Nat
    BY Zenon, UptoNat
  <2>3. Upto(V, a) - Upto(V, a) = 0
    BY <2>2
  <2>4. IsFiniteSet(W(0)) /\ Cardinality(W(0)) = 0
    BY Zenon, <2>1, FS_EmptySet
  <2> HIDE DEF W
  <2> QED
    BY Zenon, <2>1, <2>3, <2>4
<1>2. ASSUME NEW i \in Nat, i \in T PROVE i + 1 \in T
  <2>1. a + i \in Nat /\ (a + i) + 1 = a + (i + 1)
    OBVIOUS
  <2>2. Upto(V, a + i) \in Nat /\ Upto(V, a) \in Nat
    BY Zenon, UptoNat
  <2>3. Upto(V, a + (i + 1)) = IF a + (i + 1) \in V THEN Upto(V, a + i) + 1 ELSE Upto(V, a + i)
    BY Zenon, <2>1, UptoStep
  <2>4. IsFiniteSet(W(i)) /\ Cardinality(W(i)) = Upto(V, a + i) - Upto(V, a)
    BY Zenon, <1>2
  <2>5. CASE a + (i + 1) \in V
    <3>1. W(i + 1) = W(i) \cup {i + 1} /\ i + 1 \notin W(i)
      BY <2>5
    <3>2. IsFiniteSet(W(i) \cup {i + 1}) /\ Cardinality(W(i) \cup {i + 1}) = Cardinality(W(i)) + 1
      BY Zenon, <2>4, <3>1, FS_AddElement
    <3>3. Cardinality(W(i)) + 1 = Upto(V, a + (i + 1)) - Upto(V, a)
      BY <2>2, <2>3, <2>4, <2>5
    <3>4. Cardinality(W(i + 1)) = Upto(V, a + (i + 1)) - Upto(V, a) /\ IsFiniteSet(W(i + 1))
      BY Zenon, <3>1, <3>2, <3>3
    <3> HIDE DEF W
    <3> QED
      BY <3>4
  <2>6. CASE a + (i + 1) \notin V
    <3>1. W(i + 1) = W(i)
      <4>1. \A j \in 1..(i + 1) : a + j \in V => j \in 1..i
        BY <2>6
      <4>2. \A j \in 1..i : j \in 1..(i + 1)
        OBVIOUS
      <4> QED
        BY Zenon, <4>1, <4>2
    <3> HIDE DEF W
    <3> QED
      BY <2>2, <2>3, <2>4, <2>6, <3>1
  <2> QED
    BY Zenon, <2>5, <2>6
<1>3. n \in T
  <2> HIDE DEF T
  <2> QED
    BY Zenon, <1>1, <1>2, SetInduction
<1> QED
  BY Zenon, <1>3

\* Every rank among those members is the rank of one of them.
LEMMA RankReached ==
  ASSUME NEW V, IsFiniteSet(V), \A k \in V : k \in Nat, NEW a \in Nat, NEW n \in Nat,
         NEW r \in 1..(Upto(V, a + n) - Upto(V, a))
  PROVE  \E i \in 1..n : a + i \in V /\ Upto(V, a + i) - Upto(V, a) = r
<1> DEFINE B == {i \in Nat : Upto(V, a + i) - Upto(V, a) >= r}
<1>1. \A i : Upto(V, i) \in Nat
  BY Zenon, UptoNat
<1>2. n \in B
  BY <1>1
<1>3. PICK i \in B : \A j \in B : i <= j
  BY Zenon, <1>2, LeastElement
<1>4. i # 0
  <2>1. a + 0 = a
    OBVIOUS
  <2> QED
    BY <1>1, <2>1
<1>5. i - 1 \in Nat /\ i - 1 \notin B
  BY <1>3, <1>4
<1>6. a + (i - 1) \in Nat /\ (a + (i - 1)) + 1 = a + i
  BY <1>5
<1>7. Upto(V, a + i) = IF a + i \in V THEN Upto(V, a + (i - 1)) + 1 ELSE Upto(V, a + (i - 1))
  BY Zenon, <1>6, UptoStep
<1>8. i \in 1..n
  BY <1>2, <1>3, <1>4
<1>9. ~(Upto(V, a + (i - 1)) - Upto(V, a) >= r) /\ Upto(V, a + i) - Upto(V, a) >= r
  BY Zenon, <1>5
<1> HIDE DEF B
<1> QED
  BY <1>1, <1>7, <1>8, <1>9

\* A member added at the end changes no earlier count.
LEMMA UptoAdded ==
  ASSUME NEW V, NEW x \in Nat, \A k \in V : k \in Nat /\ k < x, NEW n \in Nat, n < x
  PROVE  Upto(V \cup {x}, n) = Upto(V, n)
<1>1. {k \in V \cup {x} : k <= n} = {k \in V : k <= n}
  OBVIOUS
<1> QED
  BY Zenon, <1>1 DEF Upto

-----------------------------------------------------------------------------
(*****************************************************************************)
(* Numbers in a row.                                                         *)
(*****************************************************************************)

\* What travels: increments with the event, its number and the connection it
\* is for; snapshots that stand for a prefix of the log; barrier frames.
IncFrame == [kind : {"increment"}, event : Nat, seq : Nat, epoch : Nat]
SnapFrame == [kind : {"snapshot"}, seq : Nat, upto : Nat, epoch : Nat, capable : BOOLEAN]
Frame == IncFrame \cup SnapFrame \cup {FlushFrame}

\* An increment.
Inc(m) == m.kind = "increment"

\* What is known of an increment.
LEMMA IncFrames ==
  ASSUME NEW m \in IncFrame
  PROVE  m \in Frame /\ m.seq \in Nat /\ m.event \in Nat /\ m.epoch \in Nat /\ Inc(m)
  BY Zenon DEF Frame, IncFrame, Inc

\* What is known of a snapshot.
LEMMA SnapFrames ==
  ASSUME NEW m \in SnapFrame
  PROVE  /\ m \in Frame /\ m.seq \in Nat /\ m.upto \in Nat /\ m.epoch \in Nat
         /\ m.capable \in BOOLEAN /\ m.kind = "snapshot" /\ ~Inc(m)
  BY Zenon DEF Frame, SnapFrame, Inc

\* What is known of a barrier frame.
LEMMA FlushFrames == FlushFrame \in Frame /\ FlushFrame.seq = 0 /\ FlushFrame.kind = "flush" /\ ~Inc(FlushFrame)
  BY Zenon DEF Frame, FlushFrame, Inc

\* The kind of a frame tells its shape.
LEMMA FrameKinds ==
  ASSUME NEW m \in Frame
  PROVE  /\ m.seq \in Nat
         /\ m.kind \in {"increment", "snapshot", "flush"}
         /\ Inc(m) => m \in IncFrame
         /\ m.kind = "snapshot" => m \in SnapFrame
         /\ m.kind = "flush" => m = FlushFrame
<1>1. m \in IncFrame \/ m \in SnapFrame \/ m = FlushFrame
  BY Zenon DEF Frame
<1> QED
  BY <1>1, IncFrames, SnapFrames, FlushFrames DEF Inc

\* A frame at the end of a sequence.
LEMMA Appended ==
  ASSUME NEW S, NEW q \in Seq(S), NEW x \in S
  PROVE  /\ Append(q, x) \in Seq(S)
         /\ Len(Append(q, x)) = Len(q) + 1
         /\ \A i \in 1..Len(q) : Append(q, x)[i] = q[i]
         /\ Append(q, x)[Len(q) + 1] = x
  OBVIOUS

\* A sequence without its head.
LEMMA Shortened ==
  ASSUME NEW S, NEW q \in Seq(S), q # <<>>
  PROVE  /\ Tail(q) \in Seq(S)
         /\ Len(q) \in Nat /\ Len(q) >= 1 /\ Len(Tail(q)) = Len(q) - 1
         /\ \A i \in 1..(Len(q) - 1) : Tail(q)[i] = q[i + 1]
         /\ Head(q) = q[1] /\ Head(q) \in S
  OBVIOUS

\* Two sequences in a row.
LEMMA Joined ==
  ASSUME NEW S, NEW q \in Seq(S), NEW r \in Seq(S)
  PROVE  /\ q \o r \in Seq(S)
         /\ Len(q \o r) = Len(q) + Len(r)
         /\ \A i \in 1..Len(q) : (q \o r)[i] = q[i]
         /\ \A i \in 1..Len(r) : (q \o r)[Len(q) + i] = r[i]
  OBVIOUS

\* An increment numbered s is in a queue after place p and before place i.
InQueue(q, p, i, s) == \E j \in (p + 1)..(i - 1) : Inc(q[j]) /\ q[j].seq = s
\* A task numbered s comes before place i.
InTasks(t, i, s) == \E j \in 1..(i - 1) : t[j].seq = s

\* Behind place p the increments above f count on from f, without a hole: each is
\* f + 1 or comes after its predecessor.
QueueRuns(q, p, z, f) ==
  \A i \in (p + 1)..z :
    Inc(q[i]) /\ q[i].seq > f => q[i].seq = f + 1 \/ InQueue(q, p, i, q[i].seq - 1)

\* So do the tasks that follow the queue.
TasksRun(q, t, p, f) ==
  \A i \in 1..Len(t) :
    t[i].seq > f => \/ t[i].seq = f + 1
                    \/ InQueue(q, p, Len(q) + 1, t[i].seq - 1)
                    \/ InTasks(t, i, t[i].seq - 1)

\* Nothing from f to top is missing from the queue and the tasks.
Reaches(q, t, p, f, top) ==
  \A s \in (f + 1)..top : InQueue(q, p, Len(q) + 1, s) \/ InTasks(t, Len(t) + 1, s)

\* The stream behind place p, for a page that has everything up to f.
Runs(q, t, p, f, top) ==
  QueueRuns(q, p, Len(q), f) /\ TasksRun(q, t, p, f) /\ Reaches(q, t, p, f, top)

\* A frame that is no increment, put at the end of the queue.
LEMMA RunsWithMark ==
  ASSUME NEW q \in Seq(Frame), NEW t \in Seq(IncFrame), NEW x \in Frame, ~Inc(x),
         NEW p \in 0..Len(q), NEW f \in Nat, NEW top \in Nat, Runs(q, t, p, f, top)
  PROVE  Runs(Append(q, x), t, p, f, top)
<1> DEFINE r == Append(q, x)
<1>1. /\ Len(r) = Len(q) + 1 /\ Len(q) \in Nat
      /\ \A i \in 1..Len(q) : r[i] = q[i]
      /\ r[Len(q) + 1] = x
  BY Appended
<1> HIDE DEF r
<1>2. \A s : \A i \in 1..(Len(q) + 1) : InQueue(q, p, i, s) => InQueue(r, p, i, s)
  BY <1>1 DEF InQueue
<1>3. \A s : InQueue(q, p, Len(q) + 1, s) => InQueue(r, p, Len(r) + 1, s)
  BY <1>1 DEF InQueue
<1>4. QueueRuns(r, p, Len(r), f)
  BY <1>1, <1>2 DEF Runs, QueueRuns
<1>5. TasksRun(r, t, p, f)
  BY Zenon, <1>3 DEF Runs, TasksRun
<1>6. Reaches(r, t, p, f, top)
  BY Zenon, <1>3 DEF Runs, Reaches
<1> QED
  BY Zenon, <1>4, <1>5, <1>6 DEF Runs, r

\* The oldest task, moved to the end of the queue.
LEMMA RunsEmitted ==
  ASSUME NEW q \in Seq(Frame), NEW t \in Seq(IncFrame), t # <<>>,
         NEW p \in 0..Len(q), NEW f \in Nat, NEW top \in Nat, Runs(q, t, p, f, top)
  PROVE  Runs(Append(q, Head(t)), Tail(t), p, f, top)
<1> DEFINE r == Append(q, Head(t))
           u == Tail(t)
<1>1. /\ Len(t) \in Nat /\ Len(t) >= 1 /\ Len(u) = Len(t) - 1
      /\ \A i \in 1..(Len(t) - 1) : u[i] = t[i + 1]
      /\ Head(t) = t[1] /\ Head(t) \in IncFrame
  BY Zenon, Shortened
<1>2. t[1] \in Frame /\ Inc(t[1])
  BY Zenon, <1>1, IncFrames
<1>3. /\ Len(r) = Len(q) + 1 /\ Len(q) \in Nat
      /\ \A i \in 1..Len(q) : r[i] = q[i]
      /\ r[Len(q) + 1] = t[1]
  BY <1>1, <1>2, Appended
<1> HIDE DEF r, u
<1>4. \A s : \A i \in 1..(Len(q) + 1) : InQueue(q, p, i, s) => InQueue(r, p, i, s)
  BY <1>3 DEF InQueue
<1>5. \A s : InQueue(q, p, Len(q) + 1, s) => InQueue(r, p, Len(r) + 1, s)
  BY <1>3 DEF InQueue
<1>6. ASSUME NEW i \in 1..Len(t), NEW s, InTasks(t, i + 1, s)
      PROVE  InQueue(r, p, Len(r) + 1, s) \/ InTasks(u, i, s)
  <2>1. PICK j \in 1..i : t[j].seq = s
    BY <1>6 DEF InTasks
  <2>2. CASE j = 1
    <3>1. Len(q) + 1 \in (p + 1)..((Len(r) + 1) - 1)
      BY <1>3
    <3> QED
      BY Zenon, <1>2, <1>3, <2>1, <2>2, <3>1 DEF InQueue
  <2>3. CASE j # 1
    <3>1. j - 1 \in 1..(i - 1) /\ u[j - 1] = t[j]
      BY <1>1, <2>3
    <3> QED
      BY Zenon, <2>1, <3>1 DEF InTasks
  <2> QED
    BY Zenon, <2>2, <2>3
<1>7. QueueRuns(r, p, Len(r), f)
  <2> SUFFICES ASSUME NEW i \in (p + 1)..Len(r), Inc(r[i]), r[i].seq > f
               PROVE  r[i].seq = f + 1 \/ InQueue(r, p, i, r[i].seq - 1)
    BY Zenon DEF QueueRuns
  <2>1. CASE i <= Len(q)
    BY <1>3, <1>4, <2>1 DEF Runs, QueueRuns
  <2>2. CASE i = Len(q) + 1
    <3>1. 1 \in 1..Len(t) /\ ~InTasks(t, 1, t[1].seq - 1)
      BY <1>1 DEF InTasks
    <3>2. t[1].seq = f + 1 \/ InQueue(q, p, Len(q) + 1, t[1].seq - 1)
      BY Zenon, <1>3, <2>2, <3>1 DEF Runs, TasksRun
    <3> QED
      BY <1>3, <1>4, <2>2, <3>2
  <2> QED
    BY <1>3, <2>1, <2>2
<1>8. TasksRun(r, u, p, f)
  <2> SUFFICES ASSUME NEW i \in 1..Len(u), u[i].seq > f
               PROVE  \/ u[i].seq = f + 1
                      \/ InQueue(r, p, Len(r) + 1, u[i].seq - 1)
                      \/ InTasks(u, i, u[i].seq - 1)
    BY Zenon DEF TasksRun
  <2>1. i + 1 \in 1..Len(t) /\ u[i] = t[i + 1] /\ i \in 1..Len(t)
    BY <1>1
  <2>2. \/ u[i].seq = f + 1
        \/ InQueue(q, p, Len(q) + 1, u[i].seq - 1)
        \/ InTasks(t, i + 1, u[i].seq - 1)
    BY Zenon, <2>1 DEF Runs, TasksRun
  <2> QED
    BY Zenon, <1>5, <1>6, <2>1, <2>2
<1>9. Reaches(r, u, p, f, top)
  <2> SUFFICES ASSUME NEW s \in (f + 1)..top
               PROVE  InQueue(r, p, Len(r) + 1, s) \/ InTasks(u, Len(u) + 1, s)
    BY Zenon DEF Reaches
  <2>1. InQueue(q, p, Len(q) + 1, s) \/ InTasks(t, Len(t) + 1, s)
    BY Zenon DEF Runs, Reaches
  <2>2. Len(t) \in 1..Len(t) /\ Len(u) + 1 = Len(t)
    BY <1>1
  <2> QED
    BY Zenon, <1>5, <1>6, <2>1, <2>2
<1> QED
  BY Zenon, <1>7, <1>8, <1>9 DEF Runs, r, u

\* The head of the queue is taken, with the mark behind it: places shift.
LEMMA RunsShifted ==
  ASSUME NEW q \in Seq(Frame), NEW t \in Seq(IncFrame), q # <<>>,
         NEW p \in 1..Len(q), NEW f \in Nat, NEW top \in Nat, Runs(q, t, p, f, top)
  PROVE  Runs(Tail(q), t, p - 1, f, top)
<1> DEFINE r == Tail(q)
<1>1. /\ Len(q) \in Nat /\ Len(q) >= 1 /\ Len(r) = Len(q) - 1
      /\ \A i \in 1..(Len(q) - 1) : r[i] = q[i + 1]
  BY Zenon, Shortened
<1> HIDE DEF r
<1>2. ASSUME NEW i \in 1..(Len(r) + 1), NEW s, InQueue(q, p, i + 1, s)
      PROVE  InQueue(r, p - 1, i, s)
  <2>1. PICK j \in (p + 1)..i : Inc(q[j]) /\ q[j].seq = s
    BY <1>2 DEF InQueue
  <2>2. j - 1 \in ((p - 1) + 1)..(i - 1) /\ r[j - 1] = q[j]
    BY <1>1
  <2> QED
    BY Zenon, <2>1, <2>2 DEF InQueue
<1>3. ASSUME NEW s, InQueue(q, p, Len(q) + 1, s) PROVE InQueue(r, p - 1, Len(r) + 1, s)
  <2>1. Len(q) = Len(r) + 1 /\ Len(r) + 1 \in 1..(Len(r) + 1)
    BY <1>1
  <2> QED
    BY Zenon, <1>2, <1>3, <2>1
<1>4. QueueRuns(r, p - 1, Len(r), f)
  <2> SUFFICES ASSUME NEW i \in ((p - 1) + 1)..Len(r), Inc(r[i]), r[i].seq > f
               PROVE  r[i].seq = f + 1 \/ InQueue(r, p - 1, i, r[i].seq - 1)
    BY Zenon DEF QueueRuns
  <2>1. i + 1 \in (p + 1)..Len(q) /\ r[i] = q[i + 1] /\ i \in 1..(Len(r) + 1)
    BY <1>1
  <2> QED
    BY Zenon, <1>2, <2>1 DEF Runs, QueueRuns
<1>5. TasksRun(r, t, p - 1, f)
  BY Zenon, <1>3 DEF Runs, TasksRun
<1>6. Reaches(r, t, p - 1, f, top)
  BY Zenon, <1>3 DEF Runs, Reaches
<1> QED
  BY Zenon, <1>4, <1>5, <1>6 DEF Runs, r

\* The head of the queue reaches a page that has applied up to f: it is no
\* increment, or is stale, or is the next one.
LEMMA QueueRunsTaken ==
  ASSUME NEW q \in Seq(Frame), q # <<>>, NEW z \in 1..Len(q), NEW f \in Nat,
         NEW g \in Nat, QueueRuns(q, 0, z, f),
         \/ g = f /\ (Inc(Head(q)) => Head(q).seq <= f)
         \/ g = f + 1 /\ Inc(Head(q)) /\ Head(q).seq = f + 1
  PROVE  QueueRuns(Tail(q), 0, z - 1, g)
<1> DEFINE r == Tail(q)
<1>1. /\ Len(q) \in Nat /\ Len(q) >= 1 /\ Len(r) = Len(q) - 1
      /\ \A i \in 1..(Len(q) - 1) : r[i] = q[i + 1]
      /\ Head(q) = q[1] /\ Head(q) \in Frame
  BY Zenon, Shortened
<1> HIDE DEF r
<1>2. \A i \in 1..Len(r) : r[i].seq \in Nat
  <2>1. \A i \in 1..Len(q) : q[i] \in Frame
    OBVIOUS
  <2> QED
    BY <1>1, <2>1, FrameKinds
<1> SUFFICES ASSUME NEW i \in (0 + 1)..(z - 1), Inc(r[i]), r[i].seq > g
             PROVE  r[i].seq = g + 1 \/ InQueue(r, 0, i, r[i].seq - 1)
  BY Zenon DEF QueueRuns, r
<1>3. i + 1 \in (0 + 1)..z /\ r[i] = q[i + 1] /\ r[i].seq \in Nat
  BY <1>1, <1>2
<1>4. r[i].seq = f + 1 \/ InQueue(q, 0, i + 1, r[i].seq - 1)
  BY <1>3 DEF QueueRuns
<1>5. CASE r[i].seq = f + 1
  BY <1>3, <1>5
<1>6. CASE InQueue(q, 0, i + 1, r[i].seq - 1)
  <2>1. PICK j \in 1..i : Inc(q[j]) /\ q[j].seq = r[i].seq - 1
    BY <1>6 DEF InQueue
  <2>2. CASE j = 1
    BY <1>1, <1>3, <2>1, <2>2
  <2>3. CASE j # 1
    <3>1. j - 1 \in (0 + 1)..(i - 1) /\ r[j - 1] = q[j]
      BY <1>1, <2>3
    <3> QED
      BY Zenon, <2>1, <3>1 DEF InQueue
  <2> QED
    BY Zenon, <2>2, <2>3
<1> QED
  BY Zenon, <1>4, <1>5, <1>6

\* The same of the whole stream.
LEMMA RunsTaken ==
  ASSUME NEW q \in Seq(Frame), NEW t \in Seq(IncFrame), q # <<>>, NEW f \in Nat,
         NEW top \in Nat, NEW g \in Nat, Runs(q, t, 0, f, top),
         \/ g = f /\ (Inc(Head(q)) => Head(q).seq <= f)
         \/ g = f + 1 /\ Inc(Head(q)) /\ Head(q).seq = f + 1
  PROVE  Runs(Tail(q), t, 0, g, top)
<1> DEFINE r == Tail(q)
<1>1. /\ Len(q) \in Nat /\ Len(q) >= 1 /\ Len(r) = Len(q) - 1
      /\ \A i \in 1..(Len(q) - 1) : r[i] = q[i + 1]
      /\ Head(q) = q[1] /\ Head(q) \in Frame /\ r \in Seq(Frame)
  BY Zenon, Shortened
<1>2. QueueRuns(r, 0, Len(r), g)
  BY <1>1, QueueRunsTaken DEF Runs
<1> HIDE DEF r
<1>3. ASSUME NEW s \in Int, s > g, InQueue(q, 0, Len(q) + 1, s) PROVE InQueue(r, 0, Len(r) + 1, s)
  <2>1. PICK j \in 1..Len(q) : Inc(q[j]) /\ q[j].seq = s
    BY <1>3 DEF InQueue
  <2>2. j # 1
    BY <1>1, <1>3, <2>1
  <2>3. j - 1 \in (0 + 1)..((Len(r) + 1) - 1) /\ r[j - 1] = q[j]
    BY <1>1, <2>2
  <2> QED
    BY Zenon, <2>1, <2>3 DEF InQueue
<1>4. TasksRun(r, t, 0, g)
  <2> SUFFICES ASSUME NEW i \in 1..Len(t), t[i].seq > g
               PROVE  \/ t[i].seq = g + 1
                      \/ InQueue(r, 0, Len(r) + 1, t[i].seq - 1)
                      \/ InTasks(t, i, t[i].seq - 1)
    BY Zenon DEF TasksRun
  <2>1. t[i].seq \in Nat
    BY IncFrames
  <2>2. t[i].seq > f
    BY <2>1
  <2>3. \/ t[i].seq = f + 1
        \/ InQueue(q, 0, Len(q) + 1, t[i].seq - 1)
        \/ InTasks(t, i, t[i].seq - 1)
    BY Zenon, <2>2 DEF Runs, TasksRun
  <2>4. t[i].seq = g + 1 \/ (t[i].seq - 1 \in Int /\ t[i].seq - 1 > g)
    BY <2>1
  <2> QED
    BY SMTT(30), <1>3, <2>1, <2>3, <2>4
<1>5. Reaches(r, t, 0, g, top)
  <2> SUFFICES ASSUME NEW s \in (g + 1)..top
               PROVE  InQueue(r, 0, Len(r) + 1, s) \/ InTasks(t, Len(t) + 1, s)
    BY Zenon DEF Reaches
  <2>1. s \in (f + 1)..top /\ s \in Int /\ s > g
    OBVIOUS
  <2> QED
    BY Zenon, <1>3, <2>1 DEF Runs, Reaches
<1> QED
  BY Zenon, <1>2, <1>4, <1>5 DEF Runs, r

\* New tasks, numbered on from the last number given out.
LEMMA RunsDelivered ==
  ASSUME NEW q \in Seq(Frame), NEW t \in Seq(IncFrame), NEW u \in Seq(IncFrame),
         NEW p \in 0..Len(q), NEW f \in Nat, NEW top \in Nat, f <= top, Runs(q, t, p, f, top),
         \A n \in 1..Len(u) : u[n].seq = top + n
  PROVE  Runs(q, t \o u, p, f, top + Len(u))
<1> DEFINE v == t \o u
<1>1. /\ Len(v) = Len(t) + Len(u) /\ Len(t) \in Nat /\ Len(u) \in Nat
      /\ \A i \in 1..Len(t) : v[i] = t[i]
      /\ \A i \in 1..Len(u) : v[Len(t) + i] = u[i]
  BY Joined
<1> HIDE DEF v
<1>2. ASSUME NEW i \in 1..(Len(t) + 1), NEW s, InTasks(t, i, s) PROVE InTasks(v, i, s)
  <2>1. PICK j \in 1..(i - 1) : t[j].seq = s
    BY Zenon, <1>2 DEF InTasks
  <2>2. v[j] = t[j]
    BY <1>1
  <2> QED
    BY Zenon, <2>1, <2>2 DEF InTasks
<1>3. ASSUME NEW n \in 1..(Len(u) + 1), NEW s \in (f + 1)..(top + (n - 1))
      PROVE  InQueue(q, p, Len(q) + 1, s) \/ InTasks(v, Len(t) + n, s)
  <2>1. CASE s <= top
    <3>1. InQueue(q, p, Len(q) + 1, s) \/ InTasks(t, Len(t) + 1, s)
      BY <2>1 DEF Runs, Reaches
    <3>2. InTasks(t, Len(t) + 1, s) => InTasks(v, Len(t) + n, s)
      BY <1>1 DEF InTasks
    <3> QED
      BY Zenon, <3>1, <3>2
  <2>2. CASE s > top
    <3>0. s - top \in 1..(n - 1) /\ s - top \in 1..Len(u) /\ top + (s - top) = s
      BY <1>1, <2>2
    <3>1. s - top \in 1..(n - 1) /\ s - top \in 1..Len(u) /\ u[s - top].seq = s
      BY Zenon, <3>0
    <3>2. Len(t) + (s - top) \in 1..((Len(t) + n) - 1) /\ v[Len(t) + (s - top)].seq = s
      BY SMTT(30), <1>1, <3>1
    <3> QED
      BY Zenon, <3>2 DEF InTasks
  <2> QED
    BY <2>1, <2>2
<1>4. TasksRun(q, v, p, f)
  <2> SUFFICES ASSUME NEW i \in 1..Len(v), v[i].seq > f
               PROVE  \/ v[i].seq = f + 1
                      \/ InQueue(q, p, Len(q) + 1, v[i].seq - 1)
                      \/ InTasks(v, i, v[i].seq - 1)
    BY Zenon DEF TasksRun
  <2>1. CASE i <= Len(t)
    BY SMTT(30), <1>1, <1>2, <2>1 DEF Runs, TasksRun
  <2>2. CASE i > Len(t)
    <3> DEFINE n == i - Len(t)
    <3>1. n \in 1..Len(u) /\ i = Len(t) + n /\ v[i] = u[n] /\ v[i].seq = top + n
      <4>1. i = Len(t) + n /\ n \in 1..Len(u)
        BY <1>1, <2>2
      <4>2. v[Len(t) + n] = u[n] /\ u[n].seq = top + n
        BY Zenon, <1>1, <4>1
      <4> QED
        BY Zenon, <4>1, <4>2
    <3> HIDE DEF n
    <3>2. v[i].seq - 1 = top + (n - 1) /\ n \in 1..(Len(u) + 1)
      BY <1>1, <3>1
    <3>3. v[i].seq = f + 1 \/ v[i].seq - 1 \in (f + 1)..(top + (n - 1))
      BY <1>1, <3>1, <3>2
    <3> QED
      BY Zenon, <1>3, <3>1, <3>2, <3>3
  <2> QED
    BY <1>1, <2>1, <2>2
<1>5. Reaches(q, v, p, f, top + Len(u))
  <2> SUFFICES ASSUME NEW s \in (f + 1)..(top + Len(u))
               PROVE  InQueue(q, p, Len(q) + 1, s) \/ InTasks(v, Len(v) + 1, s)
    BY Zenon DEF Reaches
  <2>1. Len(u) + 1 \in 1..(Len(u) + 1) /\ s \in (f + 1)..(top + ((Len(u) + 1) - 1))
        /\ Len(v) + 1 = Len(t) + (Len(u) + 1)
    BY <1>1
  <2> QED
    BY Zenon, <1>3, <2>1
<1> QED
  BY Zenon, <1>4, <1>5 DEF Runs, v

-----------------------------------------------------------------------------
(*****************************************************************************)
(* Events and their numbers.                                                 *)
(*****************************************************************************)

\* Place p of the queue is a snapshot.
Snap(q, p) == p \in 1..Len(q) /\ q[p].kind = "snapshot"

\* An increment is stale for a page at f, or its number is the place of its event
\* among the visible events V, moved by k.
Belongs(V, m, f, k) == m.seq <= f \/ m.seq = Upto(V, m.event) + k

\* Every increment of the queue between p and z belongs.
QueueFits(V, q, p, z, f, k) == \A i \in (p + 1)..z : Inc(q[i]) => Belongs(V, q[i], f, k)

\* Every task belongs.
TasksFit(V, t, f, k) == \A i \in 1..Len(t) : Belongs(V, t[i], f, k)

\* A page at l holds exactly the visible events whose number is at most l.
Held(V, a, l, k) == \A n \in V : a[n] > 0 <=> Upto(V, n) + k <= l

\* The stream behind place p, for a page that is at f when it gets there.
Era(V, q, t, p, f, k, top, lo) ==
  /\ f <= top
  /\ QueueFits(V, q, p, Len(q), f, k) /\ TasksFit(V, t, f, k)
  /\ lo = 0 => Runs(q, t, p, f, top)

\* The stream in front of the snapshot at p, for the page as it is: it is numbered
\* with an offset k of its own, and never takes the page past that snapshot.
OldEra(V, q, p, a, l, lo) ==
  \E k \in Int :
    /\ Held(V, a, l, k)
    /\ l <= Upto(V, q[p].seq) + k /\ Upto(V, q[p].seq) + k <= q[p].seq
    /\ QueueFits(V, q, 0, p - 1, l, k)
    /\ \A i \in 1..(p - 1) : Inc(q[i]) => q[i].event <= q[p].seq
    /\ lo = 0 => QueueRuns(q, 0, p - 1, l)

\* All of the stream: a snapshot on its way starts an era at its sequence; without
\* one the era is the page's own, if the page has a snapshot of the connection (e).
Flows(V, q, t, k, top, lo, a, l, e) ==
  /\ \A p : Snap(q, p) => /\ Era(V, q, t, p, q[p].seq, k, top, lo)
                          /\ e => OldEra(V, q, p, a, l, lo)
  /\ (\A p : ~Snap(q, p)) /\ e => Era(V, q, t, 0, l, k, top, lo) /\ Held(V, a, l, k)

\* QueueRuns reads no further than its last place.
LEMMA QueueRunsKept ==
  ASSUME NEW q, NEW r, NEW z \in Nat, NEW f, \A i \in 1..z : r[i] = q[i], QueueRuns(q, 0, z, f)
  PROVE  QueueRuns(r, 0, z, f)
<1> SUFFICES ASSUME NEW i \in (0 + 1)..z, Inc(r[i]), r[i].seq > f
             PROVE  r[i].seq = f + 1 \/ InQueue(r, 0, i, r[i].seq - 1)
  BY Zenon DEF QueueRuns
<1>1. r[i] = q[i] /\ \A j \in (0 + 1)..(i - 1) : r[j] = q[j]
  OBVIOUS
<1>2. r[i].seq = f + 1 \/ InQueue(q, 0, i, r[i].seq - 1)
  BY Zenon, <1>1 DEF QueueRuns
<1> QED
  BY Zenon, <1>1, <1>2 DEF InQueue

\* What comes behind a snapshot does not matter to what comes before it.
LEMMA OldEraKept ==
  ASSUME NEW q \in Seq(Frame), NEW r, NEW p, Snap(q, p), \A i \in 1..Len(q) : r[i] = q[i],
         NEW V, NEW a, NEW l, NEW lo, OldEra(V, q, p, a, l, lo)
  PROVE  OldEra(V, r, p, a, l, lo)
<1>1. r[p] = q[p] /\ p \in 1..Len(q) /\ \A i \in 1..(p - 1) : r[i] = q[i]
  BY DEF Snap
<1>2. \A x : QueueFits(V, q, 0, p - 1, l, x) => QueueFits(V, r, 0, p - 1, l, x)
  BY <1>1 DEF QueueFits
<1>3. QueueRuns(q, 0, p - 1, l) => QueueRuns(r, 0, p - 1, l)
  <2>1. p - 1 \in Nat
    BY <1>1
  <2> QED
    BY Zenon, <1>1, <2>1, QueueRunsKept
<1>4. \A i \in 1..(p - 1) : r[i].event = q[i].event
  BY Zenon, <1>1
<1> QED
  BY Zenon, <1>1, <1>2, <1>3, <1>4 DEF OldEra

\* Where a snapshot can be.
LEMMA SnapPlace ==
  ASSUME NEW q \in Seq(Frame), NEW p, Snap(q, p)
  PROVE  p \in 1..Len(q) /\ p \in 0..Len(q) /\ q[p] \in SnapFrame /\ q[p].seq \in Nat
<1>1. q[p] \in Frame
  BY DEF Snap
<1> QED
  BY <1>1, FrameKinds DEF Snap

\* The oldest task becomes the last frame of the queue (RuntimeObserver.emit).
LEMMA EmittedFlows ==
  ASSUME NEW q \in Seq(Frame), NEW t \in Seq(IncFrame), t # <<>>,
         NEW V, NEW k, NEW top \in Nat, NEW lo, NEW a, NEW l \in Nat, NEW e,
         Flows(V, q, t, k, top, lo, a, l, e)
  PROVE  Flows(V, Append(q, Head(t)), Tail(t), k, top, lo, a, l, e)
<1> DEFINE r == Append(q, Head(t))
           u == Tail(t)
<1>1. /\ Len(t) \in Nat /\ Len(t) >= 1 /\ Len(u) = Len(t) - 1
      /\ \A i \in 1..(Len(t) - 1) : u[i] = t[i + 1]
      /\ Head(t) = t[1] /\ Head(t) \in IncFrame
  BY Zenon, Shortened
<1>2. t[1] \in Frame /\ Inc(t[1]) /\ t[1].kind # "snapshot"
  BY Zenon, <1>1, IncFrames DEF Inc
<1>3. /\ Len(r) = Len(q) + 1 /\ Len(q) \in Nat
      /\ \A i \in 1..Len(q) : r[i] = q[i]
      /\ r[Len(q) + 1] = t[1]
  BY <1>1, <1>2, Appended
<1>4. \A p : Snap(r, p) <=> Snap(q, p)
  <2> HIDE DEF r
  <2> QED
    BY <1>2, <1>3 DEF Snap
<1>5. ASSUME NEW p \in 0..Len(q), NEW f \in Nat, Era(V, q, t, p, f, k, top, lo)
      PROVE  Era(V, r, u, p, f, k, top, lo)
  <2>1. lo = 0 => Runs(r, u, p, f, top)
    BY Zenon, <1>5, RunsEmitted DEF Era
  <2>2. Belongs(V, t[1], f, k)
    BY <1>1, <1>5 DEF Era, TasksFit
  <2> HIDE DEF r, u
  <2>3. QueueFits(V, r, p, Len(r), f, k)
    BY <1>3, <1>5, <2>2 DEF Era, QueueFits
  <2>4. TasksFit(V, u, f, k)
    BY <1>1, <1>5 DEF Era, TasksFit
  <2> QED
    BY Zenon, <1>5, <2>1, <2>3, <2>4 DEF Era
<1>6. ASSUME NEW p, Snap(q, p), OldEra(V, q, p, a, l, lo) PROVE OldEra(V, r, p, a, l, lo)
  BY Zenon, <1>3, <1>6, OldEraKept
<1>7. ASSUME NEW p, Snap(q, p) PROVE r[p].seq = q[p].seq /\ q[p].seq \in Nat /\ p \in 0..Len(q)
  BY Zenon, <1>3, <1>7, SnapPlace
<1> HIDE DEF r, u
<1>8. ASSUME NEW p, Snap(r, p)
      PROVE  Era(V, r, u, p, r[p].seq, k, top, lo) /\ (e => OldEra(V, r, p, a, l, lo))
  BY Zenon, <1>4, <1>5, <1>6, <1>7, <1>8 DEF Flows
<1>9. ASSUME \A p : ~Snap(r, p), e PROVE Era(V, r, u, 0, l, k, top, lo) /\ Held(V, a, l, k)
  <2>1. 0 \in 0..Len(q)
    BY <1>3
  <2> QED
    BY Zenon, <1>4, <1>5, <1>9, <2>1 DEF Flows
<1> QED
  BY Zenon, <1>8, <1>9 DEF Flows, r, u

\* The oldest task is lost: numbers are missing from now on.
LEMMA RaisedFlows ==
  ASSUME NEW q \in Seq(Frame), NEW t \in Seq(IncFrame), t # <<>>,
         NEW V, NEW k, NEW top \in Nat, NEW lo, NEW a, NEW l \in Nat, NEW e, NEW lo2, lo2 # 0,
         Flows(V, q, t, k, top, lo, a, l, e)
  PROVE  Flows(V, q, Tail(t), k, top, lo2, a, l, e)
<1> DEFINE u == Tail(t)
<1>1. /\ Len(t) \in Nat /\ Len(t) >= 1 /\ Len(u) = Len(t) - 1
      /\ \A i \in 1..(Len(t) - 1) : u[i] = t[i + 1]
  BY Zenon, Shortened
<1> HIDE DEF u
<1>2. ASSUME NEW p, NEW f, Era(V, q, t, p, f, k, top, lo) PROVE Era(V, q, u, p, f, k, top, lo2)
  <2>1. TasksFit(V, u, f, k)
    BY <1>1, <1>2 DEF Era, TasksFit
  <2> QED
    BY Zenon, <1>2, <2>1 DEF Era
<1>3. \A p : OldEra(V, q, p, a, l, lo) => OldEra(V, q, p, a, l, lo2)
  BY Zenon DEF OldEra
<1> QED
  BY Zenon, <1>2, <1>3 DEF Flows, u

\* A barrier frame joins the queue.
LEMMA FlushedFlows ==
  ASSUME NEW q \in Seq(Frame), NEW t \in Seq(IncFrame),
         NEW V, NEW k, NEW top \in Nat, NEW lo, NEW a, NEW l \in Nat, NEW e,
         Flows(V, q, t, k, top, lo, a, l, e)
  PROVE  Flows(V, Append(q, FlushFrame), t, k, top, lo, a, l, e)
<1> DEFINE r == Append(q, FlushFrame)
<1>1. /\ Len(r) = Len(q) + 1 /\ Len(q) \in Nat
      /\ \A i \in 1..Len(q) : r[i] = q[i]
      /\ r[Len(q) + 1] = FlushFrame
  BY FlushFrames, Appended
<1>2. \A p : Snap(r, p) <=> Snap(q, p)
  <2> HIDE DEF r
  <2> QED
    BY <1>1, FlushFrames DEF Snap
<1>3. ASSUME NEW p \in 0..Len(q), NEW f \in Nat, Era(V, q, t, p, f, k, top, lo)
      PROVE  Era(V, r, t, p, f, k, top, lo)
  <2>1. lo = 0 => Runs(r, t, p, f, top)
    BY Zenon, <1>3, FlushFrames, RunsWithMark DEF Era
  <2> HIDE DEF r
  <2>2. QueueFits(V, r, p, Len(r), f, k)
    BY <1>1, <1>3, FlushFrames DEF Era, QueueFits
  <2> QED
    BY Zenon, <1>3, <2>1, <2>2 DEF Era
<1>4. ASSUME NEW p, Snap(q, p), OldEra(V, q, p, a, l, lo) PROVE OldEra(V, r, p, a, l, lo)
  BY Zenon, <1>1, <1>4, OldEraKept
<1>5. ASSUME NEW p, Snap(q, p) PROVE r[p].seq = q[p].seq /\ q[p].seq \in Nat /\ p \in 0..Len(q)
  BY Zenon, <1>1, <1>5, SnapPlace
<1> HIDE DEF r
<1>6. ASSUME NEW p, Snap(r, p)
      PROVE  Era(V, r, t, p, r[p].seq, k, top, lo) /\ (e => OldEra(V, r, p, a, l, lo))
  BY Zenon, <1>2, <1>3, <1>4, <1>5, <1>6 DEF Flows
<1>7. ASSUME \A p : ~Snap(r, p), e PROVE Era(V, r, t, 0, l, k, top, lo) /\ Held(V, a, l, k)
  <2>1. 0 \in 0..Len(q)
    BY <1>1
  <2> QED
    BY Zenon, <1>2, <1>3, <1>7, <2>1 DEF Flows
<1> QED
  BY Zenon, <1>6, <1>7 DEF Flows, r

\* Events numbered on from the last number join the tasks of an era.
LEMMA DeliveredEra ==
  ASSUME NEW q \in Seq(Frame), NEW t \in Seq(IncFrame), NEW u \in Seq(IncFrame),
         NEW V, NEW k, NEW top \in Nat, NEW lo, NEW p \in 0..Len(q), NEW f \in Nat,
         \A n \in 1..Len(u) : u[n].seq = top + n /\ u[n].seq = Upto(V, u[n].event) + k,
         Era(V, q, t, p, f, k, top, lo)
  PROVE  Era(V, q, t \o u, p, f, k, top + Len(u), lo)
<1>1. lo = 0 => Runs(q, t \o u, p, f, top + Len(u))
  BY Zenon, RunsDelivered DEF Era
<1> DEFINE v == t \o u
<1>2. /\ Len(v) = Len(t) + Len(u) /\ Len(t) \in Nat /\ Len(u) \in Nat
      /\ \A i \in 1..Len(t) : v[i] = t[i]
      /\ \A i \in 1..Len(u) : v[Len(t) + i] = u[i]
  BY SMTT(30), Joined
<1> HIDE DEF v
<1>3. TasksFit(V, v, f, k)
  <2> SUFFICES ASSUME NEW i \in 1..Len(v) PROVE Belongs(V, v[i], f, k)
    BY Zenon DEF TasksFit
  <2>1. CASE i <= Len(t)
    BY <1>2, <2>1 DEF Era, TasksFit
  <2>2. CASE i > Len(t)
    <3>1. i - Len(t) \in 1..Len(u) /\ Len(t) + (i - Len(t)) = i
      BY <1>2, <2>2
    <3>2. v[i] = u[i - Len(t)]
      BY Zenon, <1>2, <3>1
    <3> QED
      BY Zenon, <3>1, <3>2 DEF Belongs
  <2> QED
    BY <1>2, <2>1, <2>2
<1>4. f <= top + Len(u)
  BY <1>2 DEF Era
<1> QED
  BY Zenon, <1>1, <1>3, <1>4 DEF Era, v

\* They join the stream (RuntimeObserver._deliver).
LEMMA DeliveredFlows ==
  ASSUME NEW q \in Seq(Frame), NEW t \in Seq(IncFrame), NEW u \in Seq(IncFrame),
         NEW V, NEW k, NEW top \in Nat, NEW lo, NEW a, NEW l \in Nat, NEW e,
         \A n \in 1..Len(u) : u[n].seq = top + n /\ u[n].seq = Upto(V, u[n].event) + k,
         Flows(V, q, t, k, top, lo, a, l, e)
  PROVE  Flows(V, q, t \o u, k, top + Len(u), lo, a, l, e)
<1>1. ASSUME NEW p, Snap(q, p) PROVE Era(V, q, t \o u, p, q[p].seq, k, top + Len(u), lo)
  BY Zenon, <1>1, SnapPlace, DeliveredEra DEF Flows
<1>2. 0 \in 0..Len(q)
  OBVIOUS
<1>3. ASSUME \A p : ~Snap(q, p), e PROVE Era(V, q, t \o u, 0, l, k, top + Len(u), lo)
  BY Zenon, <1>2, <1>3, DeliveredEra DEF Flows
<1> QED
  BY Zenon, <1>1, <1>3 DEF Flows

\* The snapshot joins the queue, and the replay is numbered on from it: what was on
\* its way is the old era, the snapshot starts a new one (RuntimeObserver.resume).
LEMMA InstalledFlows ==
  ASSUME NEW q \in Seq(Frame), NEW t \in Seq(IncFrame), NEW u \in Seq(IncFrame), NEW x \in SnapFrame,
         NEW V, NEW k \in Int, NEW top \in Nat, NEW lo, NEW a, NEW l \in Nat, NEW e, NEW j,
         \A p : ~Snap(q, p),
         \A i \in 1..Len(q) : Inc(q[i]) => q[i].event <= x.seq,
         \A i \in 1..Len(t) : t[i].seq <= x.seq,
         l <= Upto(V, x.seq) + k, Upto(V, x.seq) + k <= x.seq,
         \A n \in 1..Len(u) : u[n].seq = x.seq + n /\ u[n].seq = Upto(V, u[n].event) + j,
         Flows(V, q, t, k, top, lo, a, l, e)
  PROVE  Flows(V, Append(q, x), t \o u, j, x.seq + Len(u), lo, a, l, e)
<1> DEFINE r == Append(q, x)
           p == Len(q) + 1
<1>1. x \in Frame /\ ~Inc(x) /\ x.seq \in Nat /\ x.kind = "snapshot"
  BY Zenon, SnapFrames
<1>2. /\ r \in Seq(Frame) /\ Len(r) = Len(q) + 1 /\ Len(q) \in Nat
      /\ \A i \in 1..Len(q) : r[i] = q[i]
      /\ r[Len(q) + 1] = x
  BY <1>1, Appended
<1> HIDE DEF r
<1>3. \A o : Snap(r, o) <=> o = p
  <2>1. Snap(r, p)
    BY <1>1, <1>2 DEF Snap
  <2>2. ASSUME NEW o, Snap(r, o), o # p PROVE FALSE
    <3>1. o \in 1..Len(q) /\ r[o] = q[o]
      BY <1>2, <2>2 DEF Snap
    <3>2. Snap(q, o)
      BY Zenon, <2>2, <3>1 DEF Snap
    <3> QED
      BY Zenon, <3>2
  <2> QED
    BY Zenon, <2>1, <2>2
<1>4. Era(V, r, t, p, x.seq, j, x.seq, lo)
  <2>1. \A i \in 1..Len(t) : t[i].seq \in Nat /\ ~(t[i].seq > x.seq)
    BY <1>1, IncFrames
  <2>2. Runs(r, t, p, x.seq, x.seq)
    BY <1>1, <1>2, <2>1 DEF Runs, QueueRuns, TasksRun, Reaches
  <2>3. QueueFits(V, r, p, Len(r), x.seq, j) /\ TasksFit(V, t, x.seq, j)
    BY <1>2 DEF QueueFits, TasksFit, Belongs
  <2> QED
    BY <1>1, <2>2, <2>3 DEF Era
<1>5. Era(V, r, t \o u, p, x.seq, j, x.seq + Len(u), lo)
  <2>1. p \in 0..Len(r)
    BY <1>2
  <2> HIDE DEF p
  <2> QED
    BY Zenon, <1>1, <1>2, <1>4, <2>1, DeliveredEra
<1>6. ASSUME e PROVE OldEra(V, r, p, a, l, lo)
  <2>1. Held(V, a, l, k) /\ QueueFits(V, q, 0, Len(q), l, k)
        /\ (lo = 0 => QueueRuns(q, 0, Len(q), l))
    BY Zenon, <1>6 DEF Flows, Era, Runs
  <2>2. p - 1 = Len(q) /\ r[p] = x
    BY <1>2
  <2>3. QueueFits(V, r, 0, Len(q), l, k)
    BY <1>2, <2>1 DEF QueueFits
  <2>4. lo = 0 => QueueRuns(r, 0, Len(q), l)
    BY Zenon, <1>2, <2>1, QueueRunsKept
  <2>5. \A i \in 1..Len(q) : Inc(r[i]) => r[i].event <= r[p].seq
    BY Zenon, <1>2, <2>2
  <2> HIDE DEF p
  <2> QED
    BY Zenon, <2>1, <2>2, <2>3, <2>4, <2>5 DEF OldEra
<1> QED
  BY Zenon, <1>2, <1>3, <1>5, <1>6 DEF Flows, r

\* Taking the head of the queue moves every snapshot one place down.
LEMMA SnapShift ==
  ASSUME NEW q \in Seq(Frame), q # <<>>
  PROVE  /\ \A p : Snap(Tail(q), p) => Snap(q, p + 1) /\ p \in Nat /\ p >= 1 /\ Tail(q)[p] = q[p + 1]
         /\ \A p : Snap(q, p) /\ p # 1 => Snap(Tail(q), p - 1)
  BY Shortened DEF Snap

\* An era behind the second place or later moves one place down.
LEMMA ShiftedEra ==
  ASSUME NEW q \in Seq(Frame), NEW t \in Seq(IncFrame), q # <<>>,
         NEW V, NEW k, NEW top \in Nat, NEW lo, NEW p \in 1..Len(q), NEW f \in Nat,
         Era(V, q, t, p, f, k, top, lo)
  PROVE  Era(V, Tail(q), t, p - 1, f, k, top, lo)
<1>1. lo = 0 => Runs(Tail(q), t, p - 1, f, top)
  BY Zenon, RunsShifted DEF Era
<1> DEFINE r == Tail(q)
<1>2. /\ Len(q) \in Nat /\ Len(q) >= 1 /\ Len(r) = Len(q) - 1
      /\ \A i \in 1..(Len(q) - 1) : r[i] = q[i + 1]
  BY Zenon, Shortened
<1> HIDE DEF r
<1>3. QueueFits(V, r, p - 1, Len(r), f, k)
  BY SMTT(30), <1>2 DEF Era, QueueFits
<1> QED
  BY Zenon, <1>1, <1>3 DEF Era, r

\* The page takes the head of its era: what it may skip, or the next increment.
LEMMA TakenEra ==
  ASSUME NEW q \in Seq(Frame), NEW t \in Seq(IncFrame), q # <<>>,
         NEW V, NEW k, NEW top \in Nat, NEW lo, NEW f \in Nat, NEW g \in Nat, g <= top,
         \/ g = f /\ (Inc(Head(q)) => Head(q).seq <= f \/ lo # 0)
         \/ g = f + 1 /\ Inc(Head(q)) /\ Head(q).seq = f + 1,
         Era(V, q, t, 0, f, k, top, lo)
  PROVE  Era(V, Tail(q), t, 0, g, k, top, lo)
<1>1. lo = 0 => Runs(Tail(q), t, 0, g, top)
  BY Zenon, RunsTaken DEF Era
<1> DEFINE r == Tail(q)
<1>2. /\ Len(q) \in Nat /\ Len(q) >= 1 /\ Len(r) = Len(q) - 1
      /\ \A i \in 1..(Len(q) - 1) : r[i] = q[i + 1]
      /\ r \in Seq(Frame)
  BY Zenon, Shortened
<1> HIDE DEF r
<1>3. \A m : m.seq \in Nat /\ Belongs(V, m, f, k) => Belongs(V, m, g, k)
  BY DEF Belongs
<1>4. \A i \in 1..Len(r) : r[i].seq \in Nat
  <2>1. \A i \in 1..Len(r) : r[i] \in Frame
    BY <1>2
  <2> QED
    BY Zenon, <2>1, FrameKinds
<1>5. QueueFits(V, r, 0, Len(r), g, k)
  BY SMTT(30), <1>2, <1>3, <1>4 DEF Era, QueueFits
<1>6. TasksFit(V, t, g, k)
  <2>1. \A i \in 1..Len(t) : t[i].seq \in Nat
    BY IncFrames
  <2> QED
    BY Zenon, <1>3, <2>1 DEF Era, TasksFit
<1> QED
  BY Zenon, <1>1, <1>5, <1>6 DEF Era, r

\* The head of a queue that still holds a snapshot is taken.
LEMMA TakenOldEra ==
  ASSUME NEW q \in Seq(Frame), q # <<>>, NEW p \in 2..Len(q),
         NEW V, NEW a, NEW b, NEW l \in Nat, NEW g \in Nat, NEW lo, NEW k \in Int,
         QueueFits(V, q, 0, p - 1, l, k),
         \A i \in 1..(p - 1) : Inc(q[i]) => q[i].event <= q[p].seq,
         lo = 0 => QueueRuns(q, 0, p - 1, l),
         \/ g = l /\ (Inc(Head(q)) => Head(q).seq <= l \/ lo # 0)
         \/ g = l + 1 /\ Inc(Head(q)) /\ Head(q).seq = l + 1,
         Held(V, b, g, k), g <= Upto(V, q[p].seq) + k, Upto(V, q[p].seq) + k <= q[p].seq
  PROVE  OldEra(V, Tail(q), p - 1, b, g, lo)
<1> DEFINE r == Tail(q)
<1>1. /\ Len(q) \in Nat /\ Len(q) >= 1 /\ Len(r) = Len(q) - 1
      /\ \A i \in 1..(Len(q) - 1) : r[i] = q[i + 1]
      /\ r \in Seq(Frame)
  BY Zenon, Shortened
<1>2. lo = 0 => QueueRuns(r, 0, (p - 1) - 1, g)
  <2>1. p - 1 \in 1..Len(q)
    BY <1>1
  <2> QED
    BY Zenon, <2>1, QueueRunsTaken
<1> HIDE DEF r
<1>3. \A i \in 1..((p - 1) - 1) : r[i] = q[i + 1] /\ i + 1 \in (0 + 1)..(p - 1)
  BY <1>1
<1>4. r[p - 1] = q[p]
  <2>1. p - 1 \in 1..(Len(q) - 1) /\ (p - 1) + 1 = p
    BY <1>1
  <2> QED
    BY Zenon, <1>1, <2>1
<1>5. \A i \in 1..((p - 1) - 1) : r[i].seq \in Nat
  <2>1. \A i \in 1..((p - 1) - 1) : r[i] \in Frame
    BY <1>1
  <2> QED
    BY Zenon, <2>1, FrameKinds
<1>6. \A m : m.seq \in Nat /\ Belongs(V, m, l, k) => Belongs(V, m, g, k)
  BY DEF Belongs
<1>7. QueueFits(V, r, 0, (p - 1) - 1, g, k)
  BY <1>3, <1>5, <1>6 DEF QueueFits
<1>8. \A i \in 1..((p - 1) - 1) : Inc(r[i]) => r[i].event <= r[p - 1].seq
  <2>1. \A i \in 1..((p - 1) - 1) : i + 1 \in 1..(p - 1)
    BY <1>1
  <2> QED
    BY Zenon, <1>3, <1>4, <2>1
<1> QED
  BY Zenon, <1>2, <1>4, <1>7, <1>8 DEF OldEra, r

\* A frame that changes nothing for the page: a barrier frame, an increment
\* of another connection or a stale one, or any while a snapshot is awaited.
LEMMA SkippedFlows ==
  ASSUME NEW q \in Seq(Frame), NEW t \in Seq(IncFrame), q # <<>>, Head(q).kind # "snapshot",
         NEW V, NEW k \in Int, NEW top \in Nat, NEW lo, NEW a, NEW l \in Nat, l <= top, NEW e,
         e /\ Inc(Head(q)) => Head(q).seq <= l \/ lo # 0,
         Flows(V, q, t, k, top, lo, a, l, e)
  PROVE  Flows(V, Tail(q), t, k, top, lo, a, l, e)
<1>1. ASSUME NEW p, Snap(Tail(q), p)
      PROVE  Era(V, Tail(q), t, p, Tail(q)[p].seq, k, top, lo) /\ (e => OldEra(V, Tail(q), p, a, l, lo))
  <2> DEFINE o == p + 1
  <2>1. Snap(q, o) /\ p \in Nat /\ p >= 1 /\ Tail(q)[p] = q[o] /\ p = o - 1
    <3>1. Snap(q, p + 1) /\ p \in Nat /\ p >= 1 /\ Tail(q)[p] = q[p + 1]
      BY Zenon, <1>1, SnapShift
    <3>2. p = (p + 1) - 1
      BY <3>1
    <3> QED
      BY Zenon, <3>1, <3>2
  <2> HIDE DEF o
  <2>2. o \in 1..Len(q) /\ o \in 2..Len(q) /\ q[o].seq \in Nat
    BY <2>1, SnapPlace
  <2>3. Era(V, Tail(q), t, p, q[o].seq, k, top, lo)
    <3>1. Era(V, q, t, o, q[o].seq, k, top, lo)
      BY Zenon, <2>1 DEF Flows
    <3> QED
      BY Zenon, <2>1, <2>2, <3>1, ShiftedEra
  <2>4. ASSUME e PROVE OldEra(V, Tail(q), p, a, l, lo)
    <3>1. OldEra(V, q, o, a, l, lo)
      BY Zenon, <2>1, <2>4 DEF Flows
    <3>2. PICK h \in Int : /\ Held(V, a, l, h) /\ l <= Upto(V, q[o].seq) + h
                           /\ Upto(V, q[o].seq) + h <= q[o].seq
                           /\ QueueFits(V, q, 0, o - 1, l, h)
                           /\ \A i \in 1..(o - 1) : Inc(q[i]) => q[i].event <= q[o].seq
                           /\ lo = 0 => QueueRuns(q, 0, o - 1, l)
      BY Zenon, <3>1 DEF OldEra
    <3>3. Inc(Head(q)) => Head(q).seq <= l \/ lo # 0
      BY Zenon, <2>4
    <3>4. OldEra(V, Tail(q), o - 1, a, l, lo)
      BY Zenon, <2>2, <3>2, <3>3, TakenOldEra
    <3> QED
      BY Zenon, <2>1, <3>4
  <2> QED
    BY Zenon, <2>1, <2>3, <2>4
<1>2. ASSUME \A p : ~Snap(Tail(q), p), e
      PROVE  Era(V, Tail(q), t, 0, l, k, top, lo) /\ Held(V, a, l, k)
  <2>1. ~Snap(q, 1)
    BY Zenon, Shortened DEF Snap
  <2>2. \A p : ~Snap(q, p)
    BY Zenon, <1>2, <2>1, SnapShift
  <2> QED
    BY Zenon, <1>2, <2>2, TakenEra DEF Flows
<1> QED
  BY Zenon, <1>1, <1>2 DEF Flows

\* The next event is applied.
LEMMA AppliedHeld ==
  ASSUME NEW V, IsFiniteSet(V), \A n \in V : n \in Nat, NEW n \in V, NEW a, \A i \in V : a[i] \in Nat,
         NEW b, b[n] = a[n] + 1, \A i \in V : i # n => b[i] = a[i],
         NEW l \in Nat, NEW k \in Int, Upto(V, n) + k = l + 1, Held(V, a, l, k)
  PROVE  Held(V, b, l + 1, k)
<1> SUFFICES ASSUME NEW i \in V PROVE b[i] > 0 <=> Upto(V, i) + k <= l + 1
  BY Zenon DEF Held
<1>1. Upto(V, i) \in Nat /\ Upto(V, n) \in Nat
  BY Zenon, UptoNat
<1>2. CASE i = n
  BY <1>1, <1>2
<1>3. CASE i # n
  <2>1. Upto(V, i) # Upto(V, n)
    <3>1. i < n \/ n < i
      BY <1>3
    <3>2. i < n => Upto(V, i) + 1 <= Upto(V, n)
      BY Zenon, UptoStrict
    <3>3. n < i => Upto(V, n) + 1 <= Upto(V, i)
      BY Zenon, UptoStrict
    <3> QED
      BY <1>1, <3>1, <3>2, <3>3
  <2>2. a[i] > 0 <=> Upto(V, i) + k <= l
    BY Zenon DEF Held
  <2> QED
    BY <1>1, <1>3, <2>1, <2>2
<1> QED
  BY Zenon, <1>2, <1>3

\* The head of the queue is the increment that a view a, at l, applies to become b.
Applying(V, q, a, b, l) ==
  /\ Inc(Head(q)) /\ Head(q).seq = l + 1 /\ Head(q).event \in V
  /\ \A i \in V : i \in Nat /\ a[i] \in Nat
  /\ b[Head(q).event] = a[Head(q).event] + 1 /\ \A i \in V : i # Head(q).event => b[i] = a[i]

\* Applying it: the event was not held before, and the page stays behind every
\* snapshot on its way.
LEMMA AppliedFlows ==
  ASSUME NEW q \in Seq(Frame), NEW t \in Seq(IncFrame), q # <<>>,
         NEW V, IsFiniteSet(V), NEW k \in Int, NEW top \in Nat, NEW lo,
         NEW a, NEW b, NEW l \in Nat, Applying(V, q, a, b, l), l + 1 <= top,
         Flows(V, q, t, k, top, lo, a, l, TRUE)
  PROVE  /\ Flows(V, Tail(q), t, k, top, lo, b, l + 1, TRUE)
         /\ a[Head(q).event] = 0
         /\ \A p : Snap(q, p) => l + 1 <= q[p].seq
<1> SUFFICES ASSUME Inc(Head(q)), Head(q).seq = l + 1, Head(q).event \in V,
                    \A i \in V : i \in Nat, \A i \in V : a[i] \in Nat,
                    b[Head(q).event] = a[Head(q).event] + 1,
                    \A i \in V : i # Head(q).event => b[i] = a[i],
                    \A p : Snap(q, p) => q[p].seq \in Nat
             PROVE  /\ Flows(V, Tail(q), t, k, top, lo, b, l + 1, TRUE)
                    /\ a[Head(q).event] = 0
                    /\ \A p : Snap(q, p) => l + 1 <= q[p].seq
  BY Zenon, SnapPlace DEF Applying
<1> DEFINE n == Head(q).event
<1>1. Head(q) = q[1] /\ Len(q) \in Nat /\ Len(q) >= 1
  BY Zenon, Shortened
<1>2. ASSUME NEW h \in Int, Belongs(V, q[1], l, h), Held(V, a, l, h)
      PROVE  Upto(V, n) + h = l + 1 /\ Held(V, b, l + 1, h) /\ a[n] = 0
  <2>1. Upto(V, n) + h = l + 1
    BY <1>1, <1>2 DEF Belongs
  <2>2. Held(V, b, l + 1, h)
    BY Zenon, <1>2, <2>1, AppliedHeld
  <2>3. a[n] = 0
    <3>1. ~(Upto(V, n) + h <= l)
      BY <2>1
    <3>2. ~(a[n] > 0) /\ a[n] \in Nat
      BY Zenon, <1>2, <3>1 DEF Held
    <3> QED
      BY <3>2
  <2> QED
    BY Zenon, <2>1, <2>2, <2>3
<1>3. ~Snap(q, 1)
  BY Zenon, <1>1 DEF Snap, Inc
<1>4. ASSUME NEW o, Snap(q, o)
      PROVE  /\ Era(V, Tail(q), t, o - 1, q[o].seq, k, top, lo)
             /\ OldEra(V, Tail(q), o - 1, b, l + 1, lo)
             /\ a[n] = 0 /\ l + 1 <= q[o].seq
  <2>1. o \in 1..Len(q) /\ o \in 2..Len(q) /\ q[o].seq \in Nat
    BY <1>3, <1>4, SnapPlace
  <2>2. Era(V, q, t, o, q[o].seq, k, top, lo) /\ OldEra(V, q, o, a, l, lo)
    BY Zenon, <1>4 DEF Flows
  <2>3. Era(V, Tail(q), t, o - 1, q[o].seq, k, top, lo)
    BY Zenon, <2>1, <2>2, ShiftedEra
  <2>4. PICK h \in Int : /\ Held(V, a, l, h) /\ l <= Upto(V, q[o].seq) + h
                         /\ Upto(V, q[o].seq) + h <= q[o].seq
                         /\ QueueFits(V, q, 0, o - 1, l, h)
                         /\ \A i \in 1..(o - 1) : Inc(q[i]) => q[i].event <= q[o].seq
                         /\ lo = 0 => QueueRuns(q, 0, o - 1, l)
    BY Zenon, <2>2 DEF OldEra
  <2>5. 1 \in (0 + 1)..(o - 1)
    BY <2>1
  <2>6. Belongs(V, q[1], l, h)
    BY Zenon, <1>1, <2>4, <2>5 DEF QueueFits
  <2>7. Upto(V, n) + h = l + 1 /\ Held(V, b, l + 1, h) /\ a[n] = 0
    BY Zenon, <1>2, <2>4, <2>6
  <2>8. l + 1 <= Upto(V, q[o].seq) + h
    <3>1. n <= q[o].seq
      BY <1>1, <2>4, <2>5
    <3>2. Upto(V, n) <= Upto(V, q[o].seq)
      BY Zenon, <2>1, <3>1, UptoMono
    <3>3. Upto(V, n) \in Nat /\ Upto(V, q[o].seq) \in Nat
      BY Zenon, UptoNat
    <3> QED
      BY <2>7, <3>2, <3>3
  <2>9. OldEra(V, Tail(q), o - 1, b, l + 1, lo)
    <3>1. l + 1 \in Nat
      OBVIOUS
    <3> QED
      BY Zenon, <2>1, <2>4, <2>7, <2>8, <3>1, TakenOldEra
  <2>10. l + 1 <= q[o].seq
    <3>1. Upto(V, q[o].seq) \in Nat
      BY Zenon, UptoNat
    <3> QED
      BY SMTT(30), <2>1, <2>4, <2>8, <3>1
  <2> QED
    BY Zenon, <2>3, <2>7, <2>9, <2>10
<1>5. ASSUME \A p : ~Snap(q, p)
      PROVE  /\ Era(V, Tail(q), t, 0, l + 1, k, top, lo) /\ Held(V, b, l + 1, k)
             /\ a[n] = 0
  <2>1. Era(V, q, t, 0, l, k, top, lo) /\ Held(V, a, l, k)
    BY Zenon, <1>5 DEF Flows
  <2>2. 1 \in (0 + 1)..Len(q)
    BY <1>1
  <2>3. Belongs(V, q[1], l, k)
    BY Zenon, <1>1, <2>1, <2>2 DEF Era, QueueFits
  <2>4. Era(V, Tail(q), t, 0, l + 1, k, top, lo)
    <3>1. l + 1 \in Nat
      OBVIOUS
    <3> QED
      BY Zenon, <2>1, <3>1, TakenEra
  <2> QED
    BY Zenon, <1>2, <2>1, <2>3, <2>4
<1> HIDE DEF n
<1>6. ASSUME NEW p, Snap(Tail(q), p)
      PROVE  Era(V, Tail(q), t, p, Tail(q)[p].seq, k, top, lo) /\ OldEra(V, Tail(q), p, b, l + 1, lo)
  <2>1. Snap(q, p + 1) /\ p \in Nat /\ Tail(q)[p] = q[p + 1]
    BY Zenon, <1>6, SnapShift
  <2>2. (p + 1) - 1 = p
    BY <2>1
  <2> QED
    BY Zenon, <1>4, <2>1, <2>2
<1>7. ASSUME \A p : ~Snap(Tail(q), p)
      PROVE  Era(V, Tail(q), t, 0, l + 1, k, top, lo) /\ Held(V, b, l + 1, k)
  <2>1. \A p : ~Snap(q, p)
    BY Zenon, <1>3, <1>7, SnapShift
  <2> QED
    BY Zenon, <1>5, <2>1
<1>8. a[n] = 0
  BY Zenon, <1>4, <1>5
<1>9. \A p : Snap(q, p) => l + 1 <= q[p].seq
  BY Zenon, <1>4
<1> QED
  BY Zenon, <1>6, <1>7, <1>8, <1>9 DEF Flows, n

\* A snapshot is taken in.
LEMMA SnapshotFlows ==
  ASSUME NEW q \in Seq(Frame), NEW t \in Seq(IncFrame), q # <<>>, Snap(q, 1),
         \A p : Snap(q, p) => p = 1,
         NEW V, NEW k, NEW top \in Nat, NEW lo, NEW a, NEW l, NEW e, NEW b, Held(V, b, Head(q).seq, k),
         Flows(V, q, t, k, top, lo, a, l, e)
  PROVE  Flows(V, Tail(q), t, k, top, lo, b, Head(q).seq, TRUE)
<1>1. Head(q) = q[1] /\ 1 \in 1..Len(q) /\ q[1].seq \in Nat
  BY Zenon, Shortened, SnapPlace
<1>2. Era(V, q, t, 1, q[1].seq, k, top, lo)
  BY Zenon DEF Flows
<1>3. Era(V, Tail(q), t, 1 - 1, q[1].seq, k, top, lo)
  BY Zenon, <1>1, <1>2, ShiftedEra
<1>4. \A p : ~Snap(Tail(q), p)
  BY SnapShift
<1> QED
  BY <1>1, <1>3, <1>4 DEF Flows

\* An event is added to the log, seen (x joins V) or not.
\* The visible events V and the view a grow to W and b by an event x, later than
\* every event and every snapshot in flight.
Growing(V, W, x, q, t, a, b) ==
  /\ W \in {V, V \cup {x}} /\ \A i \in V : i \in Nat /\ i < x
  /\ \A i \in 1..Len(q) : Inc(q[i]) => q[i].event \in V
  /\ \A i \in 1..Len(t) : t[i].event \in V
  /\ \A p : Snap(q, p) => q[p].seq < x
  /\ (\A i \in V : b[i] = a[i]) /\ b[x] = 0

\* The log grows by an event that nothing in flight carries yet.
LEMMA GrownFlows ==
  ASSUME NEW q \in Seq(Frame), NEW t \in Seq(IncFrame), NEW V, IsFiniteSet(V), NEW x \in Nat, x > 0, NEW W,
         NEW k \in Int, NEW top \in Nat, NEW lo, NEW a, NEW b, NEW l \in Nat, NEW e,
         Growing(V, W, x, q, t, a, b), l <= Upto(V, x - 1) + k,
         Flows(V, q, t, k, top, lo, a, l, e)
  PROVE  Flows(W, q, t, k, top, lo, b, l, e)
<1> SUFFICES ASSUME W \in {V, V \cup {x}}, \A i \in V : i \in Nat /\ i < x,
                    \A i \in 1..Len(q) : Inc(q[i]) => q[i].event \in V,
                    \A i \in 1..Len(t) : t[i].event \in V,
                    \A p : Snap(q, p) => q[p].seq < x,
                    \A i \in V : b[i] = a[i], b[x] = 0
             PROVE  Flows(W, q, t, k, top, lo, b, l, e)
  BY Zenon DEF Growing
<1>1. \A n \in Nat : n < x => Upto(W, n) = Upto(V, n)
  BY UptoAdded
<1>2. Upto(V, x - 1) \in Nat /\ x - 1 \in Nat
  BY UptoNat
<1>3. ASSUME NEW p \in 0..Len(q), NEW z \in 0..Len(q), NEW f, NEW h, QueueFits(V, q, p, z, f, h)
      PROVE  QueueFits(W, q, p, z, f, h)
  <2> SUFFICES ASSUME NEW i \in (p + 1)..z, Inc(q[i]) PROVE Belongs(W, q[i], f, h)
    BY Zenon DEF QueueFits
  <2>1. i \in 1..Len(q)
    OBVIOUS
  <2>2. Upto(W, q[i].event) = Upto(V, q[i].event)
    BY Zenon, <1>1, <2>1
  <2> QED
    BY Zenon, <1>3, <2>2 DEF QueueFits, Belongs
<1>4. \A f, h : TasksFit(V, t, f, h) => TasksFit(W, t, f, h)
  <2>1. \A i \in 1..Len(t) : Upto(W, t[i].event) = Upto(V, t[i].event)
    BY Zenon, <1>1
  <2> QED
    BY Zenon, <2>1 DEF TasksFit, Belongs
<1>5. ASSUME NEW h \in Int, Held(V, a, l, h), l <= Upto(V, x - 1) + h PROVE Held(W, b, l, h)
  <2> SUFFICES ASSUME NEW n \in W PROVE b[n] > 0 <=> Upto(W, n) + h <= l
    BY Zenon DEF Held
  <2>1. CASE n \in V
    <3>1. Upto(W, n) = Upto(V, n)
      BY Zenon, <1>1, <2>1
    <3> QED
      BY Zenon, <1>5, <2>1, <3>1 DEF Held
  <2>2. CASE n \notin V
    <3>1. n = x /\ W = V \cup {x}
      BY Zenon, <2>2
    <3>2. IsFiniteSet(W)
      BY Zenon, <3>1, FS_AddElement
    <3>3. Upto(W, x - 1) + 1 <= Upto(W, x)
      <4>1. \A i \in W : i \in Nat
        BY Zenon, <3>1
      <4>2. x - 1 < x /\ x \in W
        BY <3>1
      <4> QED
        BY Zenon, <1>2, <3>2, <4>1, <4>2, UptoStrict
    <3>4. Upto(W, x - 1) = Upto(V, x - 1)
      BY <1>1, <1>2
    <3>5. Upto(W, x) \in Nat
      BY Zenon, <3>2, UptoNat
    <3>6. ~(Upto(W, x) + h <= l)
      BY SMTT(30), <1>2, <1>5, <3>3, <3>4, <3>5
    <3> QED
      BY <3>1, <3>6
  <2> QED
    BY Zenon, <2>1, <2>2
<1>6. ASSUME NEW p \in 0..Len(q), NEW f, Era(V, q, t, p, f, k, top, lo) PROVE Era(W, q, t, p, f, k, top, lo)
  <2>1. Len(q) \in 0..Len(q)
    OBVIOUS
  <2> QED
    BY Zenon, <1>3, <1>4, <1>6, <2>1 DEF Era
<1>7. ASSUME NEW p, Snap(q, p), OldEra(V, q, p, a, l, lo) PROVE OldEra(W, q, p, b, l, lo)
  <2>1. PICK h \in Int : /\ Held(V, a, l, h) /\ l <= Upto(V, q[p].seq) + h
                         /\ Upto(V, q[p].seq) + h <= q[p].seq
                         /\ QueueFits(V, q, 0, p - 1, l, h)
                         /\ \A i \in 1..(p - 1) : Inc(q[i]) => q[i].event <= q[p].seq
                         /\ lo = 0 => QueueRuns(q, 0, p - 1, l)
    BY Zenon, <1>7 DEF OldEra
  <2>2. p \in 1..Len(q) /\ q[p].seq \in Nat /\ q[p].seq < x
    BY Zenon, <1>7, SnapPlace
  <2>3. Upto(W, q[p].seq) = Upto(V, q[p].seq)
    BY Zenon, <1>1, <2>2
  <2>4. Upto(V, q[p].seq) <= Upto(V, x - 1)
    <3>1. q[p].seq <= x - 1
      BY <2>2
    <3>2. \A i \in V : i \in Nat
      BY Zenon
    <3> QED
      BY Zenon, <1>2, <2>2, <3>1, <3>2, UptoMono
  <2>5. Upto(V, q[p].seq) \in Nat
    BY Zenon, UptoNat
  <2>6. Held(W, b, l, h)
    BY <1>2, <1>5, <2>1, <2>4, <2>5
  <2>7. QueueFits(W, q, 0, p - 1, l, h)
    <3>1. p - 1 \in 0..Len(q) /\ 0 \in 0..Len(q)
      BY <2>2
    <3> QED
      BY Zenon, <1>3, <2>1, <3>1
  <2>8. l <= Upto(W, q[p].seq) + h /\ Upto(W, q[p].seq) + h <= q[p].seq
    BY Zenon, <2>1, <2>3
  <2> QED
    BY Zenon, <2>1, <2>6, <2>7, <2>8 DEF OldEra
<1>8. \A p : Snap(q, p) => p \in 0..Len(q)
  BY Zenon, SnapPlace
<1>9. 0 \in 0..Len(q)
  OBVIOUS
<1> QED
  BY Zenon, <1>5, <1>6, <1>7, <1>8, <1>9 DEF Flows

-----------------------------------------------------------------------------
(*****************************************************************************)
(* SnapshotBarrier.                                                          *)
(*****************************************************************************)

\* The events of the log that the connection may see.
Seen == {n \in DOMAIN log : Visible(n)}
\* The log as far as it was projected: while the observer is paused, the watermark.
Top == IF paused THEN watermark ELSE Len(log)
\* How far the numbers given out run ahead of the visible events.
Offset == projected - Upto(Seen, Top)

\* Types, with the shapes of what is in flight.
BarrierTypes ==
  /\ TypeOK
  /\ log \in Seq([epoch : Nat, gated : BOOLEAN])
  /\ queue \in Seq(Frame) /\ tasks \in Seq(IncFrame)
  /\ applied \in Seq({0, 1}) /\ gaps \in Nat /\ lost \in Nat

\* While the observer is paused its buffer is the log behind the watermark.
Buffered ==
  paused => /\ Len(buffer) = Len(log) - watermark
            /\ \A i \in 1..Len(buffer) : buffer[i] = watermark + i

\* The page is never ahead of what was projected, and it waits for a snapshot only
\* over a gap, which takes a lost increment.
Numbers ==
  /\ projected <= Top /\ last <= projected
  /\ pending => gaps > 0
  /\ lost = 0 => gaps = 0
  /\ attempt = 0 => stage = "flush"

\* An increment in flight is of a visible event that was projected.
GoodIncrement(m) == /\ m.event \in Seen /\ m.event <= Top
                    /\ m.epoch = epoch /\ m.seq <= projected

\* A snapshot in flight is of this connection, at a number that agrees with the
\* events it holds, and not older than the page.
GoodSnapshot(m) == /\ m.upto = m.seq /\ m.epoch = epoch /\ m.capable = capable
                   /\ m.seq = Upto(Seen, m.seq) + Offset
                   /\ last <= m.seq /\ m.seq <= Top

\* Everything in flight is well formed.
Framed ==
  /\ \A i \in 1..Len(tasks) : GoodIncrement(tasks[i])
  /\ \A i \in 1..Len(queue) : Inc(queue[i]) => GoodIncrement(queue[i])
  /\ \A p : Snap(queue, p) => GoodSnapshot(queue[p])

\* A barrier frame with only increments behind it.
LastFlush(q, f) == f \in 1..Len(q) /\ q[f] = FlushFrame /\ \A i \in (f + 1)..Len(q) : Inc(q[i])

\* One snapshot at a time; once the barrier frame came back only increments are
\* ahead of the snapshot, and until then that frame is still in the queue.
Ordered ==
  /\ \A o, p : Snap(queue, o) /\ Snap(queue, p) => o = p
  /\ stage = "acked" => \A i \in 1..Len(queue) : Inc(queue[i])
  /\ attempt # 0 /\ stage = "flush" => \E f : LastFlush(queue, f)

\* The numbers in flight, and what the page holds.
Streams == Flows(Seen, queue, tasks, Offset, projected, lost, applied, last, seenEpoch = epoch)

\* The inductive invariant.
BarrierInv == BarrierTypes /\ Buffered /\ Numbers /\ Framed /\ Ordered /\ Streams

\* Bounds on the counters.
LEMMA LogFacts ==
  ASSUME BarrierTypes
  PROVE  /\ Len(log) \in Nat /\ DOMAIN log = 1..Len(log)
         /\ paused = (attempt # 0) /\ attempt \in 0..2
         /\ watermark \in 0..Len(log) /\ projected \in 0..Len(log) /\ last \in 0..Len(log)
         /\ Len(applied) = Len(log) /\ Top \in 0..Len(log)
         /\ epoch \in Nat /\ seenEpoch \in 0..epoch
  BY DEF BarrierTypes, TypeOK, Sequence, Top

\* The visible events are finitely many places of the log.
LEMMA SeenFacts ==
  ASSUME BarrierTypes
  PROVE  /\ IsFiniteSet(Seen)
         /\ \A n \in Seen : n \in Nat /\ n \in 1..Len(log)
         /\ \A n : Upto(Seen, n) \in Nat
         /\ Offset \in Int
<1>1. Len(log) \in Nat /\ DOMAIN log = 1..Len(log) /\ projected \in Nat
  BY LogFacts
<1>2. Seen \in SUBSET (1..Len(log))
  BY Zenon, <1>1 DEF Seen
<1>3. IsFiniteSet(Seen)
  <2>1. IsFiniteSet(1..Len(log))
    BY <1>1, FS_Interval
  <2> QED
    BY Zenon, <1>2, <2>1, FS_Subset
<1>4. \A n : Upto(Seen, n) \in Nat
  BY Zenon, <1>3, UptoNat
<1>5. Offset \in Int
  BY <1>1, <1>4 DEF Offset
<1>6. \A n \in Seen : n \in Nat /\ n \in 1..Len(log)
  BY <1>1, <1>2
<1> QED
  BY Zenon, <1>3, <1>4, <1>5, <1>6

\* The invariant is what PageHoldsLog needs.
LEMMA BarrierHolds == BarrierInv => PageHoldsLog
<1> SUFFICES ASSUME BarrierInv PROVE PageHoldsLog
  BY Zenon DEF PageHoldsLog
<1> USE DEF BarrierInv
<1>1. \A n \in DOMAIN log : applied[n] <= 1
  <2>1. \A n \in DOMAIN log : applied[n] \in {0, 1}
    BY LogFacts DEF BarrierTypes
  <2> QED
    BY <2>1
<1>2. ASSUME Following, NEW m \in DOMAIN log, NEW n \in DOMAIN log,
             m < n, Visible(m), Visible(n), applied[n] > 0
      PROVE  applied[m] > 0
  <2>1. m \in Seen /\ n \in Seen /\ m \in Nat /\ n \in Nat
    BY Zenon, <1>2, SeenFacts DEF Seen
  <2>2. Upto(Seen, m) <= Upto(Seen, n)
    BY <1>2, <2>1, SeenFacts, UptoMono
  <2>3. \E k \in Int : Held(Seen, applied, last, k)
    <3>1. CASE \E p : Snap(queue, p)
      BY Zenon, <1>2, <3>1 DEF Streams, Flows, OldEra, Following
    <3>2. CASE \A p : ~Snap(queue, p)
      BY Zenon, <1>2, <3>2, SeenFacts DEF Streams, Flows, Following
    <3> QED
      BY Zenon, <3>1, <3>2
  <2>4. PICK k \in Int : Held(Seen, applied, last, k)
    BY Zenon, <2>3
  <2>5. (applied[m] > 0 <=> Upto(Seen, m) + k <= last) /\ (applied[n] > 0 <=> Upto(Seen, n) + k <= last)
    BY Zenon, <2>1, <2>4 DEF Held
  <2>6. last \in Int /\ Upto(Seen, m) \in Nat /\ Upto(Seen, n) \in Nat
    BY LogFacts, SeenFacts
  <2> QED
    BY <1>2, <2>2, <2>5, <2>6
<1>3. ASSUME Following, lost = 0, ~paused, tasks = <<>>, queue = <<>>
      PROVE  last = projected /\ \A n \in DOMAIN log : Visible(n) => applied[n] > 0
  <2>1. \A p : ~Snap(queue, p)
    BY <1>3 DEF Snap
  <2>2. /\ Era(Seen, queue, tasks, 0, last, Offset, projected, lost)
        /\ Held(Seen, applied, last, Offset)
    BY Zenon, <1>3, <2>1 DEF Streams, Flows, Following
  <2>3. Reaches(queue, tasks, 0, last, projected)
    BY Zenon, <1>3, <2>2 DEF Era, Runs
  <2>4. last \in Nat /\ projected \in Nat /\ last <= projected /\ Len(log) \in Nat
    BY LogFacts DEF Numbers
  <2>5. last = projected
    <3>1. ~(last < projected)
      <4> SUFFICES ASSUME last < projected PROVE FALSE
        BY Zenon
      <4>1. projected \in (last + 1)..projected
        BY <2>4
      <4>2. InQueue(queue, 0, Len(queue) + 1, projected) \/ InTasks(tasks, Len(tasks) + 1, projected)
        BY Zenon, <2>3, <4>1 DEF Reaches
      <4> QED
        BY <1>3, <4>2 DEF InQueue, InTasks
    <3> QED
      BY <2>4, <3>1
  <2>6. ASSUME NEW n \in DOMAIN log, Visible(n) PROVE applied[n] > 0
    <3>1. n \in Seen /\ n \in Nat /\ n <= Len(log)
      BY <2>6, SeenFacts DEF Seen
    <3>2. Upto(Seen, n) <= Upto(Seen, Len(log))
      BY Zenon, <2>4, <3>1, SeenFacts, UptoMono
    <3>3. Offset = projected - Upto(Seen, Len(log))
      BY Zenon, <1>3 DEF Offset, Top
    <3>4. Upto(Seen, n) + Offset <= last
      BY <2>4, <2>5, <3>2, <3>3, SeenFacts
    <3> QED
      BY Zenon, <2>2, <3>1, <3>4 DEF Held
  <2> QED
    BY Zenon, <2>5, <2>6
<1>4. lost = 0 => gaps = 0
  BY Zenon DEF Numbers
<1> QED
  BY Zenon, <1>1, <1>2, <1>3, <1>4 DEF PageHoldsLog

\* The visible events are fixed by the log and the connection.
LEMMA SeenKept ==
  ASSUME UNCHANGED <<log, epoch, capable>>
  PROVE  Seen' = Seen
  BY Zenon DEF Seen, Visible

\* So is the offset, while nothing is projected.
LEMMA OffsetKept ==
  ASSUME UNCHANGED <<log, epoch, capable, projected, paused, watermark>>
  PROVE  Seen' = Seen /\ Top' = Top /\ Offset' = Offset
<1>1. Seen' = Seen
  BY Zenon, SeenKept
<1>2. Top' = Top
  BY Zenon DEF Top
<1> QED
  BY Zenon, <1>1, <1>2 DEF Offset

\* A step that touches neither log, stream nor page.
LEMMA QuietStep ==
  ASSUME BarrierInv, BarrierTypes',
         UNCHANGED <<log, epoch, capable, projected, paused, buffer, tasks, queue, attempt, stage,
                     watermark, applied, last, seenEpoch, pending, gaps, lost>>
  PROVE  BarrierInv'
<1>1. Seen' = Seen /\ Top' = Top /\ Offset' = Offset
  BY Zenon, OffsetKept
<1>2. Buffered' /\ Numbers'
  BY Zenon, <1>1 DEF BarrierInv, Buffered, Numbers
<1>3. Framed'
  BY Zenon, <1>1 DEF BarrierInv, Framed, GoodIncrement, GoodSnapshot
<1>4. Ordered'
  BY Zenon DEF BarrierInv, Ordered
<1>5. Streams'
  BY Zenon, <1>1 DEF BarrierInv, Streams
<1> QED
  BY Zenon, <1>2, <1>3, <1>4, <1>5 DEF BarrierInv

\* emit_frame.
LEMMA EmitStep ==
  ASSUME BarrierInv, EmitFrame
  PROVE  BarrierInv'
<1> USE DEF BarrierInv
<1>1. /\ tasks # <<>> /\ tasks' = Tail(tasks) /\ queue' = Append(queue, Head(tasks))
      /\ UNCHANGED <<log, epoch, capable, projected, paused, buffer, ready, asks, attempt, stage,
                     watermark, recheck, applied, last, seenEpoch, pending, gaps, added, lost, failed>>
  BY Zenon DEF EmitFrame, handlerVars, clientVars, boundVars
<1>2. Seen' = Seen /\ Top' = Top /\ Offset' = Offset
  BY Zenon, <1>1, OffsetKept
<1>3. tasks \in Seq(IncFrame) /\ queue \in Seq(Frame)
  BY Zenon DEF BarrierTypes
<1>4. /\ Len(tasks) \in Nat /\ Len(tasks) >= 1 /\ Len(tasks') = Len(tasks) - 1
      /\ \A i \in 1..(Len(tasks) - 1) : tasks'[i] = tasks[i + 1]
      /\ Head(tasks) = tasks[1] /\ Head(tasks) \in IncFrame /\ tasks' \in Seq(IncFrame)
  BY Zenon, <1>1, <1>3, Shortened
<1>5. tasks[1] \in Frame /\ Inc(tasks[1]) /\ tasks[1].kind # "snapshot"
  BY Zenon, <1>4, IncFrames DEF Inc
<1>6. /\ Len(queue') = Len(queue) + 1 /\ Len(queue) \in Nat
      /\ \A i \in 1..Len(queue) : queue'[i] = queue[i]
      /\ queue'[Len(queue) + 1] = tasks[1] /\ queue' \in Seq(Frame)
  BY <1>1, <1>3, <1>4, <1>5, Appended
<1>7. BarrierTypes'
  BY Zenon, <1>1, <1>4, <1>6 DEF BarrierTypes, TypeOK, Sequence
<1>8. Buffered' /\ Numbers'
  BY Zenon, <1>1, <1>2 DEF Buffered, Numbers
<1>9. \A p : Snap(queue', p) <=> Snap(queue, p)
  BY <1>5, <1>6 DEF Snap
<1>10. Framed'
  <2>1. \A m : GoodIncrement(m)' <=> GoodIncrement(m)
    BY Zenon, <1>1, <1>2 DEF GoodIncrement
  <2>2. \A i \in 1..Len(tasks') : GoodIncrement(tasks'[i])
    BY <1>4 DEF Framed
  <2>3. \A i \in 1..Len(queue') : Inc(queue'[i]) => GoodIncrement(queue'[i])
    BY <1>4, <1>6 DEF Framed
  <2>4. \A p : Snap(queue', p) => GoodSnapshot(queue[p]) /\ queue'[p] = queue[p]
    BY Zenon, <1>6, <1>9 DEF Framed, Snap
  <2> QED
    BY Zenon, <1>1, <1>2, <2>2, <2>3, <2>4 DEF Framed, GoodIncrement, GoodSnapshot
<1>11. Ordered'
  <2>1. \A f : LastFlush(queue, f) => LastFlush(queue', f)
    BY <1>5, <1>6 DEF LastFlush
  <2>2. (\A i \in 1..Len(queue) : Inc(queue[i])) => \A i \in 1..Len(queue') : Inc(queue'[i])
    BY <1>5, <1>6
  <2> QED
    BY Zenon, <1>1, <1>9, <2>1, <2>2 DEF Ordered
<1>12. Streams'
  <2>1. projected \in Nat /\ last \in Nat
    BY LogFacts
  <2>2. Flows(Seen, queue', tasks', Offset, projected, lost, applied, last, seenEpoch = epoch)
    BY Zenon, <1>1, <1>3, <2>1, EmittedFlows DEF Streams
  <2> QED
    BY Zenon, <1>1, <1>2, <2>2 DEF Streams
<1> QED
  BY ZenonT(60), <1>7, <1>8, <1>10, <1>11, <1>12

\* emit_frame that raises.
LEMMA RaiseStep ==
  ASSUME BarrierInv, EmitRaises
  PROVE  BarrierInv'
<1> USE DEF BarrierInv
<1>1. /\ tasks # <<>> /\ tasks' = Tail(tasks) /\ lost' = lost + 1
      /\ UNCHANGED <<log, epoch, capable, projected, paused, buffer, queue, ready, asks, attempt, stage,
                     watermark, recheck, applied, last, seenEpoch, pending, gaps, added, failed>>
  BY Zenon DEF EmitRaises, handlerVars, clientVars
<1>2. Seen' = Seen /\ Top' = Top /\ Offset' = Offset
  BY Zenon, <1>1, OffsetKept
<1>3. tasks \in Seq(IncFrame) /\ queue \in Seq(Frame) /\ lost' \in Nat /\ lost' # 0
  BY <1>1 DEF BarrierTypes
<1>4. /\ Len(tasks) \in Nat /\ Len(tasks) >= 1 /\ Len(tasks') = Len(tasks) - 1
      /\ \A i \in 1..(Len(tasks) - 1) : tasks'[i] = tasks[i + 1]
      /\ tasks' \in Seq(IncFrame)
  BY Zenon, <1>1, <1>3, Shortened
<1>5. BarrierTypes'
  BY Zenon, <1>1, <1>3, <1>4 DEF BarrierTypes, TypeOK, Sequence
<1>6. Buffered' /\ Numbers'
  BY Zenon, <1>1, <1>2, <1>3 DEF Buffered, Numbers
<1>7. Framed'
  <2>1. \A i \in 1..Len(tasks') : GoodIncrement(tasks'[i])
    BY <1>4 DEF Framed
  <2> QED
    BY Zenon, <1>1, <1>2, <2>1 DEF Framed, GoodIncrement, GoodSnapshot
<1>8. Ordered'
  BY Zenon, <1>1 DEF Ordered
<1>9. Streams'
  <2>1. projected \in Nat /\ last \in Nat
    BY LogFacts
  <2>2. Flows(Seen, queue, tasks', Offset, projected, lost', applied, last, seenEpoch = epoch)
    BY Zenon, <1>1, <1>3, <2>1, RaisedFlows DEF Streams
  <2> QED
    BY ZenonT(60), <1>1, <1>2, <2>2 DEF Streams
<1> QED
  BY Zenon, <1>5, <1>6, <1>7, <1>8, <1>9

\* The attempt of a snapshot-request: pause, stamp, queue the barrier frame.
LEMMA BeginStep ==
  ASSUME BarrierInv, ~paused, BarrierTypes', NEW n \in {1, 2}, BeginAttempt(n),
         UNCHANGED <<log, epoch, capable, projected, buffer, tasks, applied, last, seenEpoch,
                     pending, gaps, lost>>
  PROVE  BarrierInv'
<1> USE DEF BarrierInv
<1>1. /\ attempt' = n /\ stage' = "flush" /\ paused' = TRUE /\ watermark' = Len(log)
      /\ queue' = Append(queue, FlushFrame)
  BY Zenon DEF BeginAttempt, Sequence
<1>2. Seen' = Seen /\ Top' = Top /\ Offset' = Offset
  <2>1. Seen' = Seen
    BY Zenon, SeenKept
  <2>2. Top' = Top
    BY Zenon, <1>1 DEF Top
  <2> QED
    BY Zenon, <2>1, <2>2 DEF Offset
<1>3. tasks \in Seq(IncFrame) /\ queue \in Seq(Frame)
  BY Zenon DEF BarrierTypes
<1>5. /\ Len(queue') = Len(queue) + 1 /\ Len(queue) \in Nat
      /\ \A i \in 1..Len(queue) : queue'[i] = queue[i]
      /\ queue'[Len(queue) + 1] = FlushFrame
  BY <1>1, <1>3, FlushFrames, Appended
<1>6. Buffered'
  <2>1. buffer = <<>> /\ Len(log) \in Nat
    BY Zenon, LogFacts DEF BarrierTypes, TypeOK
  <2> QED
    BY <1>1, <2>1 DEF Buffered
<1>7. Numbers'
  BY Zenon, <1>1, <1>2 DEF Numbers
<1>8. \A p : Snap(queue', p) <=> Snap(queue, p)
  BY <1>5, FlushFrames DEF Snap
<1>9. Framed'
  <2>1. \A i \in 1..Len(queue') : Inc(queue'[i]) => GoodIncrement(queue'[i])
    BY <1>5, FlushFrames DEF Framed
  <2>2. \A p : Snap(queue', p) => GoodSnapshot(queue[p]) /\ queue'[p] = queue[p]
    BY Zenon, <1>5, <1>8 DEF Framed, Snap
  <2> QED
    BY Zenon, <1>2, <2>1, <2>2 DEF Framed, GoodIncrement, GoodSnapshot
<1>10. Ordered'
  <2>1. LastFlush(queue', Len(queue) + 1)
    BY <1>5 DEF LastFlush
  <2> QED
    BY Zenon, <1>1, <1>8, <2>1 DEF Ordered
<1>11. Streams'
  <2>1. projected \in Nat /\ last \in Nat
    BY LogFacts
  <2>2. Flows(Seen, queue', tasks, Offset, projected, lost, applied, last, seenEpoch = epoch)
    BY Zenon, <1>1, <1>3, <2>1, FlushedFlows DEF Streams
  <2> QED
    BY Zenon, <1>2, <2>2 DEF Streams
<1> QED
  BY ZenonT(60), <1>6, <1>7, <1>9, <1>10, <1>11

\* on_client_message: a request is coalesced, or begins an attempt.
LEMMA MessageStep ==
  ASSUME BarrierInv, OnClientMessage
  PROVE  BarrierInv'
<1> USE DEF BarrierInv
<1>1. /\ asks \in Nat /\ asks > 0 /\ asks' = asks - 1
      /\ UNCHANGED <<log, epoch, capable, projected, buffer, tasks, ready, applied, last, seenEpoch,
                     pending, gaps, added, lost, failed>>
  BY Zenon DEF OnClientMessage, clientVars, boundVars, BarrierTypes, TypeOK
<1>2. CASE attempt # 0
  <2>1. recheck' = TRUE /\ UNCHANGED <<attempt, stage, watermark, paused, queue>>
    BY Zenon, <1>2 DEF OnClientMessage
  <2>2. BarrierTypes'
    BY <1>1, <2>1 DEF BarrierTypes, TypeOK, Sequence
  <2> QED
    BY Zenon, <1>1, <2>1, <2>2, QuietStep
<1>3. CASE attempt = 0
  <2>1. BeginAttempt(1)
    BY Zenon, <1>3 DEF OnClientMessage
  <2>2. ~paused
    BY Zenon, <1>3, LogFacts
  <2>3. queue' \in Seq(Frame)
    <3>1. FlushFrame \in Frame
      BY Zenon DEF FlushFrame, Frame
    <3> QED
      BY Zenon, <2>1, <3>1, Appended DEF BeginAttempt, BarrierTypes
  <2>4. BarrierTypes'
    <3>1. /\ paused' = TRUE /\ attempt' = 1 /\ stage' = "flush" /\ recheck' = FALSE
          /\ watermark' = Len(log)
      BY Zenon, <2>1 DEF BeginAttempt, Sequence
    <3>2. attempt' # 0 /\ attempt' \in 0..2 /\ watermark' \in 0..Len(log) /\ asks' \in Nat
      BY <1>1, <3>1, LogFacts
    <3>3. paused' = (attempt' # 0) /\ recheck' \in BOOLEAN
      BY Zenon, <3>1, <3>2
    <3> QED
      BY ZenonT(60), <1>1, <2>3, <3>1, <3>2, <3>3 DEF BarrierTypes, TypeOK, Sequence
  <2> QED
    BY ZenonT(60), <1>1, <2>1, <2>2, <2>4, BeginStep
<1> QED
  BY Zenon, <1>2, <1>3

\* A snapshot that cannot be built, a page that asks again, client-ready.
LEMMA AskStep ==
  ASSUME BarrierInv, NotBuilt \/ AskAgain \/ ClientReady
  PROVE  BarrierInv'
<1> USE DEF BarrierInv
<1>1. /\ UNCHANGED <<log, epoch, capable, projected, paused, buffer, tasks, queue, attempt, stage,
                     watermark, applied, last, seenEpoch, pending, gaps, lost>>
  BY Zenon DEF NotBuilt, AskAgain, ClientReady, clientVars, connVars, boundVars
<1>2. asks' \in Nat /\ recheck' \in BOOLEAN /\ ready' \in BOOLEAN
  <2>1. (asks' = asks - 1 /\ asks > 0) \/ asks' = asks + 1
    BY Zenon DEF NotBuilt, AskAgain, ClientReady
  <2>2. asks \in Nat
    BY Zenon DEF BarrierTypes, TypeOK
  <2>3. asks' \in Nat
    BY <2>1, <2>2
  <2>4. ready \in BOOLEAN /\ recheck \in BOOLEAN
    BY Zenon DEF BarrierTypes, TypeOK
  <2>5. (ready' = TRUE \/ ready' = ready) /\ (recheck' = FALSE \/ recheck' = recheck)
    BY Zenon DEF NotBuilt, AskAgain, ClientReady, connVars
  <2> QED
    BY Zenon, <2>3, <2>4, <2>5
<1>3. BarrierTypes'
  BY Zenon, <1>1, <1>2 DEF BarrierTypes, TypeOK, Sequence
<1> QED
  BY Zenon, <1>1, <1>3, QuietStep

\* A number within a bound.
LEMMA Within == \A a, b \in Nat : (a \in 0..b <=> a <= b) /\ a \in Int
  OBVIOUS

\* A new connection.
LEMMA ConnectedStep ==
  ASSUME BarrierInv, NEW c \in BOOLEAN, Connect(c)
  PROVE  BarrierInv'
<1> USE DEF BarrierInv
<1>1. /\ epoch < MaxEpoch /\ epoch' = epoch + 1 /\ capable' = c /\ projected' = Len(log)
      /\ paused' = FALSE /\ buffer' = <<>> /\ tasks' = <<>> /\ queue' = <<>> /\ ready' = FALSE
      /\ asks' = 0 /\ attempt' = 0 /\ stage' = "flush" /\ watermark' = 0 /\ recheck' = FALSE
      /\ UNCHANGED <<log, applied, last, seenEpoch, pending, gaps, added, lost, failed>>
  BY Zenon DEF Connect, Sequence, clientVars, boundVars
<1>2. MaxEpoch \in Nat
  BY Zenon, BarrierAssumption
<1>3. BarrierTypes'
  <2>1. /\ epoch' \in 0..MaxEpoch /\ projected' \in 0..Len(log) /\ attempt' \in 0..2
        /\ watermark' \in 0..Len(log) /\ seenEpoch \in 0..epoch' /\ asks' \in Nat /\ ~(attempt' # 0)
        /\ \A n \in DOMAIN log : log[n].epoch \in 1..epoch'
    <3>1. epoch \in Nat /\ seenEpoch \in 0..epoch /\ \A n \in DOMAIN log : log[n].epoch \in 1..epoch
      BY Zenon, LogFacts DEF BarrierTypes, TypeOK
    <3>2. /\ epoch < MaxEpoch /\ epoch' = epoch + 1 /\ projected' = Len(log) /\ attempt' = 0
          /\ asks' = 0 /\ watermark' = 0 /\ Len(log) \in Nat
      BY Zenon, <1>1, LogFacts
    <3>3. epoch \in Nat /\ seenEpoch \in 0..epoch
      BY Zenon, <3>1
    <3>4. /\ epoch' \in 0..MaxEpoch /\ projected' \in 0..Len(log) /\ attempt' \in 0..2
          /\ watermark' \in 0..Len(log) /\ seenEpoch \in 0..epoch' /\ asks' \in Nat /\ ~(attempt' # 0)
      BY <1>2, <3>2, <3>3
    <3>5. \A n \in 1..epoch : n \in 1..epoch'
      BY <3>2, <3>3
    <3> QED
      BY Zenon, <3>1, <3>4, <3>5
  <2>2. paused' = (attempt' # 0) /\ capable' \in BOOLEAN /\ ready' \in BOOLEAN /\ recheck' \in BOOLEAN
    BY Zenon, <1>1, <2>1
  <2>3. buffer' \in Seq(DOMAIN log) /\ queue' \in Seq(Frame) /\ tasks' \in Seq(IncFrame)
    BY <1>1
  <2> QED
    BY Zenon, <1>1, <2>1, <2>2, <2>3 DEF BarrierTypes, TypeOK, Sequence
<1>4. Buffered' /\ Numbers'
  BY <1>1, LogFacts DEF Buffered, Numbers, Top
<1>5. \A p : ~Snap(queue', p)
  BY <1>1 DEF Snap
<1>6. Framed' /\ Ordered'
  BY <1>1, <1>5 DEF Framed, Ordered, Snap
<1>7. seenEpoch' # epoch'
  BY <1>1, LogFacts
<1>8. Streams'
  BY Zenon, <1>5, <1>7 DEF Streams, Flows
<1> QED
  BY Zenon, <1>3, <1>4, <1>6, <1>8

\* The head of the queue is taken, and what is left is as well formed.
LEMMA TakenFramed ==
  ASSUME BarrierInv, queue # <<>>, queue' = Tail(queue),
         UNCHANGED <<log, epoch, capable, projected, paused, watermark, tasks>>,
         \A p : p # 1 /\ Snap(queue, p) => last' <= queue[p].seq
  PROVE  /\ Framed'
         /\ \A o, p : Snap(queue', o) /\ Snap(queue', p) => o = p
<1> USE DEF BarrierInv
<1>1. /\ Len(queue) \in Nat /\ Len(queue) >= 1 /\ Len(queue') = Len(queue) - 1
      /\ \A i \in 1..(Len(queue) - 1) : queue'[i] = queue[i + 1]
  BY Zenon, Shortened DEF BarrierTypes
<1>2. Seen' = Seen /\ Top' = Top /\ Offset' = Offset
  BY Zenon, OffsetKept
<1>3. ASSUME NEW p, Snap(queue', p) PROVE p \in Nat /\ p + 1 # 1 /\ Snap(queue, p + 1) /\ queue'[p] = queue[p + 1]
  BY <1>1, <1>3 DEF Snap
<1>4. \A i \in 1..Len(queue') : Inc(queue'[i]) => GoodIncrement(queue'[i])
  BY <1>1 DEF Framed
<1>5. \A p : Snap(queue', p) => GoodSnapshot(queue'[p]) /\ last' <= queue'[p].seq
  BY Zenon, <1>3 DEF Framed
<1>6. Framed'
  BY Zenon, <1>2, <1>4, <1>5 DEF Framed, GoodIncrement, GoodSnapshot
<1>7. ASSUME NEW o, NEW p, Snap(queue', o), Snap(queue', p) PROVE o = p
  <2>1. o \in Nat /\ p \in Nat /\ Snap(queue, o + 1) /\ Snap(queue, p + 1)
    BY Zenon, <1>3, <1>7
  <2>2. o + 1 = p + 1
    BY Zenon, <2>1 DEF Ordered
  <2> QED
    BY <2>1, <2>2
<1> QED
  BY Zenon, <1>6, <1>7

\* The barrier frame reaches its consumer.
LEMMA FlushStep ==
  ASSUME BarrierInv, Flush
  PROVE  BarrierInv'
<1> USE DEF BarrierInv
<1>1. /\ queue # <<>> /\ Head(queue).kind = "flush" /\ queue' = Tail(queue)
      /\ UNCHANGED <<log, epoch, capable, projected, paused, buffer, tasks, ready, asks, attempt,
                     watermark, recheck, applied, last, seenEpoch, pending, gaps, added, lost, failed>>
  BY Zenon DEF Flush, clientVars, boundVars
<1>2. /\ Len(queue) \in Nat /\ Len(queue) >= 1 /\ Len(queue') = Len(queue) - 1
      /\ \A i \in 1..(Len(queue) - 1) : queue'[i] = queue[i + 1]
      /\ Head(queue) = queue[1] /\ Head(queue) \in Frame /\ queue' \in Seq(Frame)
  BY Zenon, <1>1, Shortened DEF BarrierTypes
<1>3. ~Inc(queue[1]) /\ queue[1].kind # "snapshot"
  BY Zenon, <1>1, <1>2 DEF Inc
<1>4. stage = "flush"
  <2>1. ~(\A i \in 1..Len(queue) : Inc(queue[i]))
    BY <1>2, <1>3
  <2> QED
    BY Zenon, <2>1 DEF Ordered, BarrierTypes, TypeOK
<1>5. stage' \in {"flush", "acked"} /\ (stage' = "acked" => attempt # 0)
  BY Zenon, <1>4 DEF Flush
<1>6. BarrierTypes'
  BY Zenon, <1>1, <1>2, <1>5 DEF BarrierTypes, TypeOK, Sequence
<1>7. Seen' = Seen /\ Top' = Top /\ Offset' = Offset
  BY Zenon, <1>1, OffsetKept
<1>8. Buffered' /\ Numbers'
  BY Zenon, <1>1, <1>5, <1>7 DEF Buffered, Numbers
<1>9. Framed' /\ \A o, p : Snap(queue', o) /\ Snap(queue', p) => o = p
  BY Zenon, <1>1, TakenFramed DEF Framed, GoodSnapshot
<1>10. ASSUME stage' = "acked" PROVE \A i \in 1..Len(queue') : Inc(queue'[i])
  <2>1. attempt # 0 /\ ~\E n \in 2..Len(queue) : queue[n].kind = "flush"
    BY Zenon, <1>4, <1>10 DEF Flush
  <2>2. PICK f : LastFlush(queue, f)
    BY Zenon, <1>4, <2>1 DEF Ordered
  <2>3. queue[f].kind = "flush"
    BY <2>2 DEF LastFlush, FlushFrame
  <2>4. f = 1
    BY <1>2, <2>1, <2>2, <2>3 DEF LastFlush
  <2> QED
    BY <1>2, <2>2, <2>4 DEF LastFlush
<1>11. ASSUME attempt' # 0, stage' = "flush" PROVE \E f : LastFlush(queue', f)
  <2>1. PICK n \in 2..Len(queue) : queue[n].kind = "flush"
    BY Zenon, <1>1, <1>4, <1>11 DEF Flush
  <2>2. PICK f : LastFlush(queue, f)
    BY Zenon, <1>1, <1>4, <1>11 DEF Ordered
  <2>3. f \in 2..Len(queue)
    BY <1>2, <2>1, <2>2 DEF LastFlush, Inc
  <2>4. LastFlush(queue', f - 1)
    BY <1>2, <2>2, <2>3 DEF LastFlush
  <2> QED
    BY Zenon, <2>4
<1>12. Ordered'
  BY Zenon, <1>9, <1>10, <1>11 DEF Ordered
<1>13. Streams'
  <2>1. projected \in Nat /\ last \in Nat /\ last <= projected /\ Offset \in Int
    BY LogFacts, SeenFacts DEF Numbers
  <2>2. Flows(Seen, queue', tasks, Offset, projected, lost, applied, last, seenEpoch = epoch)
    BY ZenonT(60), <1>1, <1>2, <1>3, <2>1, SkippedFlows DEF Streams, BarrierTypes
  <2> QED
    BY Zenon, <1>1, <1>7, <2>2 DEF Streams
<1> QED
  BY ZenonT(60), <1>6, <1>8, <1>9, <1>12, <1>13

\* A frame other than a flush is taken, and the order is as before.
LEMMA TakenOrdered ==
  ASSUME BarrierInv, queue # <<>>, Head(queue).kind # "flush", queue' = Tail(queue),
         UNCHANGED <<attempt, stage>>, \A o, p : Snap(queue', o) /\ Snap(queue', p) => o = p
  PROVE  Ordered'
<1> USE DEF BarrierInv
<1>1. /\ Len(queue) \in Nat /\ Len(queue) >= 1 /\ Len(queue') = Len(queue) - 1
      /\ \A i \in 1..(Len(queue) - 1) : queue'[i] = queue[i + 1]
      /\ Head(queue) = queue[1]
  BY Zenon, Shortened DEF BarrierTypes
<1>2. ASSUME stage' = "acked" PROVE \A i \in 1..Len(queue') : Inc(queue'[i])
  BY <1>1, <1>2 DEF Ordered
<1>3. ASSUME attempt' # 0, stage' = "flush" PROVE \E f : LastFlush(queue', f)
  <2>1. PICK f : LastFlush(queue, f)
    BY Zenon, <1>3 DEF Ordered
  <2>2. queue[f].kind = "flush"
    BY <2>1 DEF LastFlush, FlushFrame
  <2>3. f \in 2..Len(queue)
    BY <1>1, <2>1, <2>2 DEF LastFlush
  <2>4. LastFlush(queue', f - 1)
    BY <1>1, <2>1, <2>3 DEF LastFlush
  <2> QED
    BY Zenon, <2>4
<1> QED
  BY Zenon, <1>2, <1>3 DEF Ordered

\* The snapshot reaches the page, which always accepts it.
LEMMA SnapshotStep ==
  ASSUME BarrierInv, Receive, Head(queue).kind = "snapshot"
  PROVE  BarrierInv'
<1> USE DEF BarrierInv
<1> DEFINE m == Head(queue)
<1>1. /\ queue # <<>> /\ queue' = Tail(queue) /\ ReceiveSnapshot(m)
      /\ UNCHANGED <<log, epoch, capable, projected, paused, buffer, tasks, ready, attempt, stage,
                     watermark, recheck, added, lost, failed>>
  BY Zenon DEF Receive, boundVars
<1>2. /\ Len(queue) \in Nat /\ Len(queue) >= 1 /\ queue' \in Seq(Frame)
      /\ m = queue[1] /\ m \in Frame
  BY Zenon, <1>1, Shortened DEF BarrierTypes
<1>3. Snap(queue, 1) /\ \A p : Snap(queue, p) => p = 1
  BY <1>2 DEF Snap, Ordered
<1>4. GoodSnapshot(m) /\ m.seq \in Nat
  BY Zenon, <1>2, <1>3, FrameKinds DEF Framed
<1>5. ~(m.seq < last \/ m.epoch < seenEpoch)
  BY <1>4, LogFacts DEF GoodSnapshot
<1>6. /\ applied' = [n \in DOMAIN log |-> IF Holds(m, n) THEN 1 ELSE 0]
      /\ last' = m.seq /\ seenEpoch' = epoch /\ pending' = FALSE /\ UNCHANGED <<gaps, asks>>
  BY Zenon, <1>1, <1>4, <1>5 DEF ReceiveSnapshot, GoodSnapshot
<1> HIDE DEF m
<1>7. m.seq <= projected /\ Era(Seen, queue, tasks, 1, queue[1].seq, Offset, projected, lost)
  BY Zenon, <1>2, <1>3 DEF Streams, Flows, Era
<1>8. BarrierTypes'
  <2>1. applied' \in Seq({0, 1}) /\ Len(applied') = Len(log)
    BY <1>6, LogFacts
  <2>2. last' \in 0..Len(log) /\ seenEpoch' \in 0..epoch
    BY <1>4, <1>6, LogFacts DEF GoodSnapshot
  <2>3. pending' \in BOOLEAN
    BY Zenon, <1>6
  <2> QED
    BY ZenonT(60), <1>1, <1>2, <1>6, <2>1, <2>2, <2>3 DEF BarrierTypes, TypeOK, Sequence
<1>9. Seen' = Seen /\ Top' = Top /\ Offset' = Offset
  BY Zenon, <1>1, OffsetKept
<1>10. Buffered' /\ Numbers'
  BY ZenonT(60), <1>1, <1>6, <1>7, <1>9 DEF Buffered, Numbers
<1>11. Framed' /\ \A o, p : Snap(queue', o) /\ Snap(queue', p) => o = p
  BY Zenon, <1>1, <1>3, TakenFramed
<1>12. Ordered'
  BY Zenon, <1>1, <1>11, TakenOrdered
<1>13. Held(Seen, applied', m.seq, Offset)
  <2> SUFFICES ASSUME NEW n \in Seen PROVE applied'[n] > 0 <=> Upto(Seen, n) + Offset <= m.seq
    BY Zenon DEF Held
  <2>1. n \in DOMAIN log /\ n \in Nat /\ (log[n].gated => capable)
    BY Zenon, SeenFacts DEF Seen, Visible
  <2>2. applied'[n] > 0 <=> n <= m.seq
    BY <1>4, <1>6, <2>1 DEF Holds, GoodSnapshot
  <2>3. /\ IsFiniteSet(Seen) /\ (\A i \in Seen : i \in Nat) /\ Offset \in Int
        /\ Upto(Seen, n) \in Nat /\ Upto(Seen, m.seq) \in Nat
    BY Zenon, SeenFacts
  <2>4. m.seq = Upto(Seen, m.seq) + Offset
    BY Zenon, <1>4 DEF GoodSnapshot
  <2>5. n <= m.seq => Upto(Seen, n) <= Upto(Seen, m.seq)
    BY Zenon, <1>4, <2>1, <2>3, UptoMono
  <2>6. m.seq < n => Upto(Seen, m.seq) + 1 <= Upto(Seen, n)
    BY Zenon, <1>4, <2>1, <2>3, UptoStrict
  <2> QED
    BY <1>4, <2>1, <2>2, <2>3, <2>4, <2>5, <2>6
<1>14. Streams'
  <2>1. projected \in Nat
    BY LogFacts
  <2>2. Flows(Seen, queue', tasks, Offset, projected, lost, applied', m.seq, TRUE)
    BY ZenonT(60), <1>1, <1>3, <1>13, <2>1, SnapshotFlows DEF Streams, BarrierTypes, m
  <2>3. (seenEpoch' = epoch') = TRUE
    BY Zenon, <1>1, <1>6
  <2> QED
    BY ZenonT(60), <1>1, <1>6, <1>9, <2>2, <2>3 DEF Streams
<1> QED
  BY Zenon, <1>8, <1>10, <1>11, <1>12, <1>14

\* With nothing lost, the next increment a following page gets continues its view.
LEMMA NoGap ==
  ASSUME BarrierInv, queue # <<>>, Inc(Head(queue)), seenEpoch = epoch, lost = 0, last < Head(queue).seq
  PROVE  Head(queue).seq = last + 1
<1> USE DEF BarrierInv
<1>1. Head(queue) = queue[1] /\ Len(queue) \in Nat /\ Len(queue) >= 1
  BY Zenon, Shortened DEF BarrierTypes
<1>2. ASSUME NEW z, QueueRuns(queue, 0, z, last), z \in Nat, z >= 1
      PROVE  queue[1].seq = last + 1
  <2>1. 1 \in (0 + 1)..z /\ Inc(queue[1]) /\ queue[1].seq > last
    <3>1. queue[1].seq \in Nat /\ last \in Nat
      BY <1>1, LogFacts, FrameKinds DEF BarrierTypes
    <3> QED
      BY <1>1, <1>2, <3>1
  <2>2. ~InQueue(queue, 0, 1, queue[1].seq - 1)
    BY DEF InQueue
  <2> QED
    BY Zenon, <1>2, <2>1, <2>2 DEF QueueRuns
<1>3. CASE \E p : Snap(queue, p)
  <2>1. PICK p : Snap(queue, p)
    BY Zenon, <1>3
  <2>2. OldEra(Seen, queue, p, applied, last, lost)
    BY Zenon, <2>1 DEF Streams, Flows
  <2>3. QueueRuns(queue, 0, p - 1, last)
    BY Zenon, <2>2 DEF OldEra
  <2>4. p \in 1..Len(queue) /\ p # 1
    BY Zenon, <1>1, <2>1 DEF Snap, Inc
  <2>5. p - 1 \in Nat /\ p - 1 >= 1
    BY <1>1, <2>4
  <2> QED
    BY Zenon, <1>1, <1>2, <2>3, <2>5
<1>4. CASE \A p : ~Snap(queue, p)
  <2>1. Era(Seen, queue, tasks, 0, last, Offset, projected, lost)
    BY Zenon, <1>4 DEF Streams, Flows
  <2>2. QueueRuns(queue, 0, Len(queue), last)
    BY Zenon, <2>1 DEF Era, Runs
  <2> QED
    BY Zenon, <1>1, <1>2, <2>2
<1> QED
  BY Zenon, <1>3, <1>4

\* The page ignores an increment, or takes it for a gap.
LEMMA SkippedStep ==
  ASSUME BarrierInv, queue # <<>>, Inc(Head(queue)), queue' = Tail(queue),
         UNCHANGED <<log, epoch, capable, projected, paused, buffer, tasks, ready, attempt, stage,
                     watermark, recheck, added, lost, failed, applied, last, seenEpoch>>,
         seenEpoch = epoch => Head(queue).seq <= last \/ lost # 0,
         asks' \in Nat, pending' \in BOOLEAN, gaps' \in Nat,
         pending' => gaps' > 0, lost = 0 => gaps' = 0
  PROVE  BarrierInv'
<1> USE DEF BarrierInv
<1>1. Head(queue).kind # "flush" /\ Head(queue).kind # "snapshot"
  BY Zenon DEF Inc
<1>2. queue' \in Seq(Frame)
  BY Zenon, Shortened DEF BarrierTypes
<1>3. BarrierTypes'
  BY Zenon, <1>2 DEF BarrierTypes, TypeOK, Sequence
<1>4. Seen' = Seen /\ Top' = Top /\ Offset' = Offset
  BY Zenon, OffsetKept
<1>5. Buffered' /\ Numbers'
  BY Zenon, <1>4 DEF Buffered, Numbers
<1>6. Framed' /\ \A o, p : Snap(queue', o) /\ Snap(queue', p) => o = p
  BY Zenon, TakenFramed DEF Framed, GoodSnapshot
<1>7. Ordered'
  BY Zenon, <1>1, <1>6, TakenOrdered
<1>8. Streams'
  <2>1. projected \in Nat /\ last \in Nat /\ last <= projected /\ Offset \in Int
    BY LogFacts, SeenFacts DEF Numbers
  <2>2. Flows(Seen, queue', tasks, Offset, projected, lost, applied, last, seenEpoch = epoch)
    BY Zenon, <1>1, <2>1, SkippedFlows DEF Streams, BarrierTypes
  <2> QED
    BY Zenon, <1>4, <2>2 DEF Streams
<1> QED
  BY ZenonT(60), <1>3, <1>5, <1>6, <1>7, <1>8

\* What the page's next increment does to the streams.
LEMMA AppliedStreams ==
  ASSUME BarrierInv, queue # <<>>, Inc(Head(queue)), seenEpoch = epoch, Head(queue).seq = last + 1,
         NEW b, b[Head(queue).event] = applied[Head(queue).event] + 1,
         \A i \in Seen : i # Head(queue).event => b[i] = applied[i]
  PROVE  /\ Flows(Seen, Tail(queue), tasks, Offset, projected, lost, b, last + 1, TRUE)
         /\ applied[Head(queue).event] = 0
         /\ \A p : Snap(queue, p) => last + 1 <= queue[p].seq
<1>1. queue \in Seq(Frame) /\ tasks \in Seq(IncFrame)
  BY Zenon DEF BarrierInv, BarrierTypes
<1>2. Head(queue) = queue[1] /\ Len(queue) \in Nat /\ Len(queue) >= 1
  BY Zenon, <1>1, Shortened
<1>3. GoodIncrement(Head(queue))
  BY <1>2 DEF BarrierInv, Framed
<1>4. projected \in Nat /\ last \in Nat /\ last + 1 <= projected
  BY <1>3, LogFacts DEF GoodIncrement, BarrierInv
<1>5. Offset \in Int /\ IsFiniteSet(Seen) /\ \A i \in Seen : i \in Nat
  BY Zenon, SeenFacts DEF BarrierInv
<1>6. \A i \in Seen : i \in Nat /\ applied[i] \in Nat
  <2>1. \A i \in 1..Len(log) : applied[i] \in {0, 1}
    BY LogFacts DEF BarrierInv, BarrierTypes
  <2> QED
    BY <2>1, SeenFacts DEF BarrierInv
<1>7. Head(queue).event \in Seen
  BY Zenon, <1>3 DEF GoodIncrement
<1>8. Applying(Seen, queue, applied, b, last)
  BY Zenon, <1>6, <1>7 DEF Applying
<1>9. Flows(Seen, queue, tasks, Offset, projected, lost, applied, last, TRUE)
  <2>1. (seenEpoch = epoch) = TRUE
    BY Zenon
  <2> QED
    BY Zenon, <2>1 DEF BarrierInv, Streams
<1> HIDE DEF BarrierInv
<1> QED
  BY Zenon, <1>1, <1>4, <1>5, <1>8, <1>9, AppliedFlows

\* The page applies an increment.
LEMMA AppliedStep ==
  ASSUME BarrierInv, queue # <<>>, Inc(Head(queue)), queue' = Tail(queue),
         UNCHANGED <<log, epoch, capable, projected, paused, buffer, tasks, ready, attempt, stage,
                     watermark, recheck, added, lost, failed, asks, seenEpoch, pending, gaps>>,
         seenEpoch = epoch, Head(queue).seq = last + 1,
         applied' = [applied EXCEPT ![Head(queue).event] = @ + 1], last' = last + 1
  PROVE  BarrierInv'
<1> USE DEF BarrierInv
<1> DEFINE m == Head(queue)
<1>1. Head(queue).kind # "flush" /\ Head(queue).kind # "snapshot"
  BY Zenon DEF Inc
<1>2. queue' \in Seq(Frame) /\ m = queue[1] /\ m \in Frame /\ Len(queue) \in Nat /\ Len(queue) >= 1
  BY Zenon, Shortened DEF BarrierTypes
<1>3. GoodIncrement(m)
  BY <1>2 DEF Framed
<1>4. /\ projected \in Nat /\ last \in Nat /\ last + 1 <= projected
      /\ \A i \in Seen : i \in Nat /\ i \in 1..Len(log)
  BY <1>3, LogFacts, SeenFacts DEF GoodIncrement
<1>6. /\ applied'[m.event] = applied[m.event] + 1
      /\ \A i \in Seen : i # m.event => applied'[i] = applied[i]
  <2>1. applied \in Seq({0, 1}) /\ Len(applied) = Len(log) /\ m.event \in 1..Len(log)
    BY Zenon, <1>3, <1>4, LogFacts DEF BarrierTypes, GoodIncrement
  <2>2. applied' = [applied EXCEPT ![m.event] = @ + 1]
    BY Zenon
  <2>3. DOMAIN applied = 1..Len(log)
    BY <2>1
  <2> HIDE DEF m
  <2> QED
    BY Zenon, <1>4, <2>1, <2>2, <2>3
<1>9. /\ Flows(Seen, Tail(queue), tasks, Offset, projected, lost, applied', last + 1, TRUE)
      /\ applied[m.event] = 0
      /\ \A p : Snap(queue, p) => last + 1 <= queue[p].seq
  <2> HIDE DEF BarrierInv
  <2> QED
    BY Zenon, <1>6, AppliedStreams
<1>10. BarrierTypes'
  <2>1. applied' \in Seq({0, 1}) /\ Len(applied') = Len(log)
    <3>1. applied \in Seq({0, 1}) /\ Len(applied) = Len(log) /\ m.event \in 1..Len(log)
      BY Zenon, <1>3, <1>4, LogFacts DEF BarrierTypes, GoodIncrement
    <3> HIDE DEF m
    <3>2. applied' = [applied EXCEPT ![m.event] = 1]
      <4>1. applied[m.event] + 1 = 1
        BY <1>9
      <4>2. applied' = [applied EXCEPT ![m.event] = applied[m.event] + 1]
        BY Zenon DEF m
      <4> QED
        BY Zenon, <4>1, <4>2
    <3>3. m.event \in 1..Len(applied) /\ 1 \in {0, 1}
      BY Zenon, <3>1
    <3>4. /\ [applied EXCEPT ![m.event] = 1] \in Seq({0, 1})
          /\ Len([applied EXCEPT ![m.event] = 1]) = Len(applied)
      BY <3>1, <3>3, ReplacedSeq
    <3> QED
      BY ZenonT(60), <3>1, <3>2, <3>4
  <2>2. last' \in 0..Len(log)
    BY <1>4, LogFacts
  <2> QED
    BY Zenon, <1>2, <2>1, <2>2 DEF BarrierTypes, TypeOK, Sequence
<1>11. Seen' = Seen /\ Top' = Top /\ Offset' = Offset
  BY Zenon, OffsetKept
<1>12. Buffered' /\ Numbers'
  BY Zenon, <1>4, <1>11 DEF Buffered, Numbers
<1>13. Framed' /\ \A o, p : Snap(queue', o) /\ Snap(queue', p) => o = p
  BY Zenon, <1>9, TakenFramed
<1>14. Ordered'
  BY Zenon, <1>1, <1>13, TakenOrdered
<1>15. Streams'
  <2>1. (seenEpoch' = epoch') = TRUE
    BY Zenon
  <2> QED
    BY Zenon, <1>9, <1>11, <2>1 DEF Streams
<1> QED
  BY ZenonT(60), <1>10, <1>12, <1>13, <1>14, <1>15

\* An increment reaches the page.
LEMMA IncrementStep ==
  ASSUME BarrierInv, Receive, Head(queue).kind # "snapshot"
  PROVE  BarrierInv'
<1> USE DEF BarrierInv
<1> DEFINE m == Head(queue)
<1>1. /\ queue # <<>> /\ m.kind # "flush" /\ queue' = Tail(queue) /\ ReceiveIncrement(m)
      /\ UNCHANGED <<log, epoch, capable, projected, paused, buffer, tasks, ready, attempt, stage,
                     watermark, recheck, added, lost, failed>>
  BY Zenon DEF Receive, boundVars
<1>2. m = queue[1] /\ m \in Frame /\ Len(queue) \in Nat /\ Len(queue) >= 1
  BY Zenon, <1>1, Shortened DEF BarrierTypes
<1>3. Inc(m) /\ m.seq \in Nat
  BY Zenon, <1>1, <1>2, FrameKinds DEF Inc
<1>4. m.epoch = epoch
  BY <1>2, <1>3 DEF Framed, GoodIncrement
<1>5. last \in Nat /\ gaps \in Nat /\ asks \in Nat /\ pending \in BOOLEAN
  <2>1. last \in Nat
    BY LogFacts
  <2> QED
    BY Zenon, <2>1 DEF BarrierTypes, TypeOK
<1>6. CASE seenEpoch # m.epoch \/ Stale(m) \/ pending
  <2>1. UNCHANGED <<applied, last, seenEpoch, pending, gaps, asks>>
    BY Zenon, <1>1, <1>6 DEF ReceiveIncrement, clientVars
  <2>2. seenEpoch = epoch => Head(queue).seq <= last \/ lost # 0
    BY <1>4, <1>5, <1>6 DEF Stale, Numbers
  <2> QED
    BY Zenon, <1>1, <1>3, <1>5, <2>1, <2>2, SkippedStep DEF Numbers
<1>7. CASE ~(seenEpoch # m.epoch \/ Stale(m) \/ pending) /\ Gap(m)
  <2>1. pending' = TRUE /\ gaps' = gaps + 1 /\ asks' = asks + 1 /\ UNCHANGED <<applied, last, seenEpoch>>
    BY Zenon, <1>1, <1>7 DEF ReceiveIncrement
  <2>2. seenEpoch = epoch /\ last < m.seq /\ m.seq # last + 1
    BY <1>3, <1>4, <1>5, <1>7 DEF Stale, Gap
  <2>3. lost # 0
    BY Zenon, <1>1, <1>3, <2>2, NoGap
  <2>4. pending' \in BOOLEAN /\ gaps' \in Nat /\ gaps' > 0 /\ asks' \in Nat
    BY <1>5, <2>1
  <2> QED
    BY Zenon, <1>1, <1>3, <2>1, <2>3, <2>4, SkippedStep
<1>8. CASE ~(seenEpoch # m.epoch \/ Stale(m) \/ pending) /\ ~Gap(m)
  <2>1. seenEpoch = epoch /\ m.seq = last + 1
    BY Zenon, <1>4, <1>8 DEF Gap
  <2>2. applied' = [applied EXCEPT ![m.event] = @ + 1] /\ last' = last + 1 /\ UNCHANGED <<seenEpoch, pending, gaps, asks>>
    BY Zenon, <1>1, <1>8, <2>1 DEF ReceiveIncrement
  <2> QED
    BY ZenonT(60), <1>1, <1>3, <2>1, <2>2, AppliedStep
<1> QED
  BY Zenon, <1>6, <1>7, <1>8

\* A session event adds a last entry to the log, which the connection may see.
LEMMA LogGrows ==
  ASSUME BarrierInv, NEW c \in 1..epoch, NEW g \in BOOLEAN, SessionEvent(c, g)
  PROVE  /\ log' \in Seq([epoch : Nat, gated : BOOLEAN]) /\ Len(log') = Len(log) + 1
         /\ \A n \in DOMAIN log' : log'[n].epoch \in 1..epoch /\ log'[n].gated \in BOOLEAN
         /\ Seen' = IF c = epoch /\ (g => capable) THEN Seen \cup {Len(log) + 1} ELSE Seen
<1> DEFINE r == [epoch |-> c, gated |-> g]
<1>0. PICK x : x = Len(log) + 1
  BY Zenon
<1>1. /\ log \in Seq([epoch : Nat, gated : BOOLEAN]) /\ epoch \in Nat
      /\ \A n \in DOMAIN log : log[n].epoch \in 1..epoch /\ log[n].gated \in BOOLEAN
      /\ Len(log) \in Nat /\ DOMAIN log = 1..Len(log)
  <2>1. epoch \in Nat /\ Len(log) \in Nat /\ DOMAIN log = 1..Len(log)
    BY Zenon, LogFacts DEF BarrierInv
  <2> QED
    BY Zenon, <2>1 DEF BarrierInv, BarrierTypes, TypeOK
<1>2. log' = Append(log, r) /\ UNCHANGED <<epoch, capable>>
  BY Zenon DEF SessionEvent
<1>3. r \in [epoch : Nat, gated : BOOLEAN] /\ r.epoch = c /\ r.gated = g
  BY <1>1
<1> HIDE DEF r
<1>4. /\ log' \in Seq([epoch : Nat, gated : BOOLEAN]) /\ Len(log') = x
      /\ \A i \in 1..Len(log) : log'[i] = log[i]
      /\ log'[x] = r
  BY <1>0, <1>1, <1>2, <1>3, Appended
<1>5. DOMAIN log' = 1..x
  BY <1>4
<1>6. \A n \in 1..x : n \in 1..Len(log) \/ n = x
  BY <1>0, <1>1
<1>7. \A n \in DOMAIN log' : log'[n].epoch \in 1..epoch /\ log'[n].gated \in BOOLEAN
  BY ZenonT(60), <1>1, <1>3, <1>4, <1>5, <1>6
<1>8. x \in 1..x /\ x \notin 1..Len(log) /\ \A n \in 1..Len(log) : n \in 1..x
  BY <1>0, <1>1
<1>9. \A n \in 1..Len(log) : Visible(n)' <=> Visible(n)
  BY Zenon, <1>2, <1>4 DEF Visible
<1>10. Visible(x)' <=> c = epoch /\ (g => capable)
  <2>1. Visible(x)' <=> log'[x].epoch = epoch' /\ (log'[x].gated => capable')
    BY Zenon DEF Visible
  <2> QED
    BY ZenonT(60), <1>2, <1>3, <1>4, <2>1
<1>11. Seen' = {n \in 1..x : Visible(n)'}
  BY Zenon, <1>5 DEF Seen
<1>12. Seen = {n \in 1..Len(log) : Visible(n)}
  BY Zenon, <1>1 DEF Seen
<1>13. ASSUME NEW n PROVE n \in Seen' <=> n \in Seen \/ (n = x /\ c = epoch /\ (g => capable))
  <2>1. CASE n \in 1..Len(log)
    BY ZenonT(60), <1>8, <1>9, <1>11, <1>12, <2>1
  <2>2. CASE n = x
    BY ZenonT(60), <1>8, <1>10, <1>11, <1>12, <2>2
  <2>3. CASE n \notin 1..x
    BY ZenonT(60), <1>8, <1>11, <1>12, <2>3
  <2> QED
    BY ZenonT(60), <1>6, <2>1, <2>2, <2>3
<1>14. Seen' = IF c = epoch /\ (g => capable) THEN Seen \cup {x} ELSE Seen
  BY Zenon, <1>13
<1> QED
  BY ZenonT(60), <1>0, <1>4, <1>7, <1>14

\* It counts in the numbering of the events the observer has projected only.
LEMMA OffsetGrown ==
  ASSUME BarrierInv, NEW c \in 1..epoch, NEW g \in BOOLEAN, SessionEvent(c, g)
  PROVE  /\ Offset' = Offset /\ Top' = IF paused THEN Top ELSE Len(log) + 1
         /\ \A n \in Nat : n <= Len(log) => Upto(Seen', n) = Upto(Seen, n)
         /\ ~paused /\ c = epoch /\ (g => capable) => projected + 1 = Upto(Seen', Len(log) + 1) + Offset
<1> DEFINE x == Len(log) + 1
<1>1. /\ Len(log) \in Nat /\ watermark \in 0..Len(log) /\ projected \in Nat
      /\ paused \in BOOLEAN
  <2>1. Len(log) \in Nat /\ watermark \in 0..Len(log) /\ projected \in Nat /\ paused = (attempt # 0)
    BY LogFacts DEF BarrierInv
  <2> QED
    BY Zenon, <2>1
<1>2. /\ IsFiniteSet(Seen) /\ (\A n \in Seen : n \in Nat /\ n \in 1..Len(log)) /\ Offset \in Int
      /\ \A n : Upto(Seen, n) \in Nat
  BY Zenon, SeenFacts DEF BarrierInv
<1>3. Len(log') = x /\ Seen' = IF c = epoch /\ (g => capable) THEN Seen \cup {x} ELSE Seen
  BY Zenon, LogGrows
<1>4. paused' = paused /\ watermark' = watermark
  BY Zenon DEF SessionEvent, handlerVars
<1>5. \A n \in Seen : n \in Nat /\ n < x
  BY <1>1, <1>2
<1>6. ASSUME NEW n \in Nat, n <= Len(log) PROVE Upto(Seen', n) = Upto(Seen, n)
  <2>1. n < x /\ x \in Nat
    BY <1>1, <1>6
  <2>2. Upto(Seen \cup {x}, n) = Upto(Seen, n)
    BY Zenon, <1>5, <2>1, UptoAdded
  <2> QED
    BY Zenon, <1>3, <2>2
<1>7. Upto(Seen', x) = IF c = epoch /\ (g => capable) THEN Upto(Seen, Len(log)) + 1 ELSE Upto(Seen, Len(log))
  <2>1. IsFiniteSet(Seen') /\ \A n \in Seen' : n \in Nat
    <3>1. IsFiniteSet(Seen \cup {x})
      BY Zenon, <1>2, FS_AddElement
    <3>2. x \in Nat
      BY <1>1
    <3> QED
      BY Zenon, <1>2, <1>3, <3>1, <3>2
  <2>2. Upto(Seen', x) = IF x \in Seen' THEN Upto(Seen', Len(log)) + 1 ELSE Upto(Seen', Len(log))
    BY Zenon, <1>1, <2>1, UptoStep
  <2>3. Upto(Seen', Len(log)) = Upto(Seen, Len(log))
    <3>1. Len(log) <= Len(log)
      BY <1>1
    <3> QED
      BY Zenon, <1>1, <1>6, <3>1
  <2>4. x \notin Seen
    BY <1>1, <1>2
  <2>5. x \in Seen' <=> c = epoch /\ (g => capable)
    BY Zenon, <1>3, <2>4
  <2> QED
    BY Zenon, <2>2, <2>3, <2>5
<1> HIDE DEF x
<1>8. CASE paused
  <2>1. projected' = projected
    BY Zenon, <1>8 DEF SessionEvent, OnEvent
  <2>2. Top = watermark /\ Top' = watermark
    BY Zenon, <1>4, <1>8 DEF Top
  <2>3. Upto(Seen', watermark) = Upto(Seen, watermark)
    BY <1>1, <1>6
  <2>4. Offset' = Offset
    BY Zenon, <2>1, <2>2, <2>3 DEF Offset
  <2> QED
    BY ZenonT(60), <1>6, <1>8, <2>2, <2>4
<1>9. CASE ~paused
  <2>1. projected' = IF c = epoch /\ (g => capable) THEN projected + 1 ELSE projected
    BY Zenon, <1>9 DEF SessionEvent, OnEvent
  <2>2. Top = Len(log) /\ Top' = x
    BY Zenon, <1>3, <1>4, <1>9 DEF Top
  <2>3. Offset = projected - Upto(Seen, Len(log)) /\ Offset' = projected' - Upto(Seen', x)
    BY Zenon, <2>2 DEF Offset
  <2>4. Offset' = Offset
    <3>1. Upto(Seen, Len(log)) \in Nat
      BY Zenon, <1>2
    <3>2. CASE c = epoch /\ (g => capable)
      BY <1>1, <1>7, <2>1, <2>3, <3>1, <3>2
    <3>3. CASE ~(c = epoch /\ (g => capable))
      BY ZenonT(60), <1>1, <1>7, <2>1, <2>3, <3>1, <3>3
    <3> QED
      BY Zenon, <3>2, <3>3
  <2>5. ASSUME c = epoch /\ (g => capable) PROVE projected + 1 = Upto(Seen', x) + Offset
    <3>1. Upto(Seen, Len(log)) \in Nat
      BY Zenon, <1>2
    <3> QED
      BY <1>1, <1>7, <2>3, <2>5, <3>1
  <2> QED
    BY ZenonT(60), <1>6, <1>9, <2>2, <2>4, <2>5 DEF x
<1> QED
  BY Zenon, <1>8, <1>9

\* The streams of a log that has grown, before the observer delivers anything.
LEMMA GrownStreams ==
  ASSUME BarrierInv, NEW c \in 1..epoch, NEW g \in BOOLEAN, SessionEvent(c, g)
  PROVE  Flows(Seen', queue, tasks, Offset, projected, lost, applied', last, seenEpoch = epoch)
<1>1. PICK x : x = Len(log) + 1
  BY Zenon
<1>2. /\ Len(log) \in Nat /\ projected \in Nat /\ last \in Nat /\ Top \in 0..Len(log)
      /\ Len(applied) = Len(log) /\ last <= projected
  BY LogFacts DEF BarrierInv, Numbers
<1>3. /\ queue \in Seq(Frame) /\ tasks \in Seq(IncFrame) /\ applied \in Seq({0, 1})
      /\ IsFiniteSet(Seen) /\ Offset \in Int
  BY Zenon, SeenFacts DEF BarrierInv, BarrierTypes
<1>4. x \in Nat /\ x > 0 /\ x - 1 = Len(log) /\ \A i \in Seen : i \in Nat /\ i < x /\ i \in 1..Len(log)
  BY <1>1, <1>2, SeenFacts DEF BarrierInv
<1>5. Seen' \in {Seen, Seen \cup {x}}
  BY Zenon, <1>1, LogGrows
<1>6. /\ \A i \in 1..Len(queue) : Inc(queue[i]) => queue[i].event \in Seen
      /\ \A i \in 1..Len(tasks) : tasks[i].event \in Seen
  BY Zenon DEF BarrierInv, Framed, GoodIncrement
<1>7. \A p : Snap(queue, p) => queue[p].seq < x
  BY <1>1, <1>2, <1>3, SnapPlace DEF BarrierInv, Framed, GoodSnapshot
<1>8. (\A i \in Seen : applied'[i] = applied[i]) /\ applied'[x] = 0
  <2>1. applied' = Append(applied, 0)
    BY Zenon DEF SessionEvent
  <2>2. 0 \in {0, 1} /\ applied \in Seq({0, 1}) /\ Len(applied) + 1 = x
    BY Zenon, <1>1, <1>2, <1>3
  <2>3. \A i \in Seen : i \in 1..Len(applied)
    BY Zenon, <1>2, <1>4
  <2> QED
    BY ZenonT(60), <2>1, <2>2, <2>3, Appended
<1>9. last <= Upto(Seen, x - 1) + Offset
  <2>1. projected = Upto(Seen, Top) + Offset
    <3>1. Upto(Seen, Top) \in Nat
      BY Zenon, SeenFacts DEF BarrierInv
    <3> QED
      BY <1>2, <3>1 DEF Offset
  <2>2. Upto(Seen, Top) <= Upto(Seen, Len(log)) /\ Upto(Seen, Top) \in Nat /\ Upto(Seen, Len(log)) \in Nat
    <3>1. Top \in Nat /\ Top <= Len(log)
      BY <1>2
    <3>2. Upto(Seen, Top) <= Upto(Seen, Len(log))
      BY ZenonT(60), <1>2, <1>3, <1>4, <3>1, UptoMono
    <3> QED
      BY Zenon, <3>2, SeenFacts DEF BarrierInv
  <2> QED
    BY SMTT(30), <1>2, <1>3, <1>4, <2>1, <2>2
<1>10. Flows(Seen, queue, tasks, Offset, projected, lost, applied, last, seenEpoch = epoch)
  BY Zenon DEF BarrierInv, Streams
<1>11. Growing(Seen, Seen', x, queue, tasks, applied, applied')
  BY ZenonT(60), <1>4, <1>5, <1>6, <1>7, <1>8 DEF Growing
<1> QED
  BY ZenonT(60), <1>2, <1>3, <1>4, <1>9, <1>10, <1>11, GrownFlows

\* What is in flight stays well formed when the log grows.
LEMMA GrownFramed ==
  ASSUME BarrierInv, NEW c \in 1..epoch, NEW g \in BOOLEAN, SessionEvent(c, g),
         \A m : (\E i \in 1..Len(tasks') : tasks'[i] = m)
                => (\E j \in 1..Len(tasks) : tasks[j] = m) \/ GoodIncrement(m)',
         projected <= projected'
  PROVE  Framed' /\ \A m : GoodIncrement(m) => m.event \in Seen'
<1>1. UNCHANGED <<epoch, capable, queue, last>>
  BY Zenon DEF SessionEvent
<1>2. /\ Offset' = Offset /\ Len(log) \in Nat /\ Top \in 0..Len(log) /\ Top' \in Nat /\ Top <= Top'
      /\ projected \in Nat /\ projected' \in Int
  <2>1. Len(log) \in Nat /\ Top \in 0..Len(log) /\ projected \in Nat
    BY LogFacts DEF BarrierInv
  <2>2. Offset' = Offset /\ Top' = IF paused THEN Top ELSE Len(log) + 1
    BY Zenon, OffsetGrown
  <2>3. projected' \in Int
    BY <2>1 DEF SessionEvent, OnEvent
  <2> QED
    BY <2>1, <2>2, <2>3
<1>3. \A n \in Nat : n <= Len(log) => Upto(Seen', n) = Upto(Seen, n)
  BY Zenon, OffsetGrown
<1>4. \A n \in Seen : n \in Seen' /\ n \in Nat
  BY Zenon, LogGrows, SeenFacts DEF BarrierInv
<1>5. ASSUME NEW m, GoodIncrement(m), m.seq \in Nat PROVE GoodIncrement(m)'
  <2>1. m.event \in Seen /\ m.event <= Top /\ m.epoch = epoch /\ m.seq <= projected
    BY Zenon, <1>5 DEF GoodIncrement
  <2>2. m.event \in Seen' /\ m.event <= Top' /\ m.epoch = epoch' /\ m.seq <= projected'
    BY <1>1, <1>2, <1>4, <1>5, <2>1
  <2> QED
    BY Zenon, <2>2 DEF GoodIncrement
<1>6. ASSUME NEW m, GoodSnapshot(m), m.seq \in Nat PROVE GoodSnapshot(m)'
  <2>1. m.seq <= Len(log) /\ m.seq <= Top'
    BY <1>2, <1>6 DEF GoodSnapshot
  <2>2. Upto(Seen', m.seq) = Upto(Seen, m.seq)
    BY Zenon, <1>3, <1>6, <2>1
  <2> QED
    BY ZenonT(60), <1>1, <1>2, <1>6, <2>1, <2>2 DEF GoodSnapshot
<1>7. queue \in Seq(Frame) /\ tasks \in Seq(IncFrame)
  BY Zenon DEF BarrierInv, BarrierTypes
<1>8. ASSUME NEW i \in 1..Len(queue), Inc(queue[i]) PROVE GoodIncrement(queue[i])'
  <2>1. GoodIncrement(queue[i]) /\ queue[i].seq \in Nat
    <3>1. queue[i] \in Frame
      BY Zenon, <1>7, MemberOfSeq
    <3> QED
      BY Zenon, <1>8, <3>1, FrameKinds DEF BarrierInv, Framed
  <2> QED
    BY Zenon, <1>5, <1>1, <2>1
<1>9. ASSUME NEW p, Snap(queue, p) PROVE GoodSnapshot(queue[p])'
  <2>1. GoodSnapshot(queue[p]) /\ queue[p].seq \in Nat
    BY Zenon, <1>7, <1>9, SnapPlace DEF BarrierInv, Framed
  <2> QED
    BY Zenon, <1>6, <1>1, <2>1
<1>10. ASSUME NEW m, \E i \in 1..Len(tasks') : tasks'[i] = m PROVE GoodIncrement(m)'
  <2>1. ASSUME NEW j \in 1..Len(tasks) PROVE GoodIncrement(tasks[j]) /\ tasks[j].seq \in Nat
    <3>1. tasks[j] \in IncFrame
      BY Zenon, <1>7, MemberOfSeq
    <3> QED
      BY Zenon, <3>1, IncFrames DEF BarrierInv, Framed
  <2> QED
    BY Zenon, <1>5, <1>10, <2>1
<1>11. \A m : GoodIncrement(m) => m.event \in Seen'
  BY Zenon, <1>4 DEF GoodIncrement
<1>12. (\A i \in 1..Len(tasks) : GoodIncrement(tasks[i]))'
  BY Zenon, <1>10
<1>13. (\A i \in 1..Len(queue) : Inc(queue[i]) => GoodIncrement(queue[i]))'
  BY Zenon, <1>1, <1>8
<1>14. (\A p : Snap(queue, p) => GoodSnapshot(queue[p]))'
  BY Zenon, <1>1, <1>9
<1> QED
  BY ZenonT(60), <1>11, <1>12, <1>13, <1>14 DEF Framed

\* What a session event leaves alone, and the types of what it does not.
LEMMA EventTypes ==
  ASSUME BarrierInv, NEW c \in 1..epoch, NEW g \in BOOLEAN, SessionEvent(c, g),
         projected' \in 0..Len(log'), tasks' \in Seq(IncFrame), buffer' \in Seq(DOMAIN log'),
         ~paused => buffer' = <<>>
  PROVE  BarrierTypes' /\ Ordered'
<1>1. /\ UNCHANGED <<epoch, capable, paused, queue, ready, asks, attempt, stage, watermark, recheck,
                     last, seenEpoch, pending, gaps, added, lost, failed>>
      /\ applied' = Append(applied, 0)
  BY Zenon DEF SessionEvent, handlerVars, boundVars
<1>2. /\ log' \in Seq([epoch : Nat, gated : BOOLEAN]) /\ Len(log') = Len(log) + 1
      /\ \A n \in DOMAIN log' : log'[n].epoch \in 1..epoch /\ log'[n].gated \in BOOLEAN
  BY Zenon, LogGrows
<1>3. /\ Len(log) \in Nat /\ watermark \in 0..Len(log) /\ last \in 0..Len(log)
      /\ Len(applied) = Len(log) /\ applied \in Seq({0, 1})
  BY Zenon, LogFacts DEF BarrierInv, BarrierTypes
<1>4. watermark' \in 0..Len(log') /\ last' \in 0..Len(log')
  <2>1. /\ watermark' = watermark /\ last' = last /\ Len(log') = Len(log) + 1 /\ Len(log) \in Nat
        /\ watermark \in 0..Len(log) /\ last \in 0..Len(log)
    BY Zenon, <1>1, <1>2, <1>3
  <2> QED
    BY <2>1
<1>5. applied' \in Seq({0, 1}) /\ Len(applied') = Len(log')
  <2>1. 0 \in {0, 1}
    BY Zenon
  <2>2. Append(applied, 0) \in Seq({0, 1}) /\ Len(Append(applied, 0)) = Len(applied) + 1
    BY Zenon, <1>3, <2>1, Appended
  <2> QED
    BY ZenonT(60), <1>1, <1>2, <1>3, <2>2
<1>6. BarrierTypes'
  BY ZenonT(60), <1>1, <1>2, <1>4, <1>5 DEF BarrierInv, BarrierTypes, TypeOK, Sequence
<1>7. Ordered'
  BY Zenon, <1>1 DEF BarrierInv, Ordered, Snap, LastFlush
<1> QED
  BY Zenon, <1>6, <1>7

\* SessionState._emit, with the observer's projection of the event.
LEMMA EventStep ==
  ASSUME BarrierInv, NEW c \in 1..epoch, NEW g \in BOOLEAN, SessionEvent(c, g)
  PROVE  BarrierInv'
<1>1. UNCHANGED <<epoch, capable, paused, queue, attempt, stage, watermark, last, seenEpoch, pending, gaps, lost>>
  BY Zenon DEF SessionEvent, handlerVars, boundVars
<1>2. /\ Len(log) \in Nat /\ watermark \in 0..Len(log) /\ last \in Nat /\ projected \in Nat /\ Top \in 0..Len(log)
      /\ last <= projected /\ projected <= Top
  BY LogFacts DEF BarrierInv, Numbers
<1>3. /\ Offset' = Offset /\ Top' = IF paused THEN Top ELSE Len(log) + 1
  BY Zenon, OffsetGrown
<1>4. Len(log') = Len(log) + 1 /\ DOMAIN log' = 1..(Len(log) + 1) /\ DOMAIN log = 1..Len(log)
  BY LogGrows, LogFacts DEF BarrierInv
<1>5. /\ buffer \in Seq(DOMAIN log) /\ tasks \in Seq(IncFrame) /\ (~paused => buffer = <<>>)
      /\ Len(buffer) \in Nat
  BY DEF BarrierInv, BarrierTypes, TypeOK
<1>6. Flows(Seen', queue, tasks, Offset, projected, lost, applied', last, seenEpoch = epoch)
  BY Zenon, GrownStreams
<1>7. (pending => gaps > 0) /\ (lost = 0 => gaps = 0) /\ (attempt = 0 => stage = "flush")
  BY Zenon DEF BarrierInv, Numbers
<1>8. CASE paused
  <2>1. buffer' = Append(buffer, Len(log) + 1) /\ UNCHANGED <<projected, tasks>>
    BY Zenon, <1>8 DEF SessionEvent, OnEvent, Sequence
  <2>2. /\ buffer' \in Seq(DOMAIN log') /\ Len(buffer') = Len(buffer) + 1
        /\ (\A i \in 1..Len(buffer) : buffer'[i] = buffer[i]) /\ buffer'[Len(buffer) + 1] = Len(log) + 1
    <3>1. buffer \in Seq(1..(Len(log) + 1)) /\ Len(log) + 1 \in 1..(Len(log) + 1)
      BY <1>2, <1>4, <1>5
    <3>2. /\ Append(buffer, Len(log) + 1) \in Seq(1..(Len(log) + 1))
          /\ Len(Append(buffer, Len(log) + 1)) = Len(buffer) + 1
          /\ \A i \in 1..Len(buffer) : Append(buffer, Len(log) + 1)[i] = buffer[i]
          /\ Append(buffer, Len(log) + 1)[Len(buffer) + 1] = Len(log) + 1
      BY ZenonT(60), <3>1, Appended
    <3> QED
      BY Zenon, <1>4, <2>1, <3>2
  <2>3. BarrierTypes' /\ Ordered'
    <3>1. projected' \in 0..Len(log')
      BY <1>2, <1>4, <2>1
    <3> QED
      BY Zenon, <1>5, <1>8, <2>1, <2>2, <3>1, EventTypes
  <2>4. Buffered'
    <3>1. Len(buffer) = Len(log) - watermark /\ \A i \in 1..Len(buffer) : buffer[i] = watermark + i
      BY Zenon, <1>8 DEF BarrierInv, Buffered
    <3>2. Len(buffer') = Len(log') - watermark
      BY <1>2, <1>4, <1>5, <2>2, <3>1
    <3>3. \A i \in 1..Len(buffer') : i \in 1..Len(buffer) \/ i = Len(buffer) + 1
      BY <1>5, <2>2
    <3>4. watermark + (Len(buffer) + 1) = Len(log) + 1
      BY <1>2, <1>5, <3>1
    <3>5. \A i \in 1..Len(buffer') : buffer'[i] = watermark + i
      BY Zenon, <2>2, <3>1, <3>3, <3>4
    <3> QED
      BY Zenon, <1>1, <3>2, <3>5 DEF Buffered
  <2>5. Numbers'
    BY Zenon, <1>1, <1>2, <1>3, <1>7, <1>8, <2>1 DEF Numbers
  <2>6. Framed'
    <3>1. projected <= projected'
      BY <1>2, <2>1
    <3> QED
      BY Zenon, <2>1, <3>1, GrownFramed
  <2>7. Streams'
    BY ZenonT(60), <1>1, <1>3, <1>6, <2>1 DEF Streams
  <2> QED
    BY ZenonT(60), <2>3, <2>4, <2>5, <2>6, <2>7 DEF BarrierInv
<1>9. CASE ~paused /\ ~(c = epoch /\ (g => capable))
  <2>1. UNCHANGED <<projected, tasks, buffer>>
    BY Zenon, <1>9 DEF SessionEvent, OnEvent
  <2>2. BarrierTypes' /\ Ordered'
    <3>1. projected' \in 0..Len(log') /\ buffer' \in Seq(DOMAIN log')
      BY <1>2, <1>4, <1>5, <1>9, <2>1
    <3> QED
      BY ZenonT(60), <1>5, <1>9, <2>1, <3>1, EventTypes
  <2>3. Buffered'
    BY Zenon, <1>1, <1>9 DEF Buffered
  <2>4. Numbers'
    BY <1>1, <1>2, <1>3, <1>7, <1>9, <2>1 DEF Numbers
  <2>5. Framed'
    <3>1. projected <= projected'
      BY <1>2, <2>1
    <3> QED
      BY Zenon, <2>1, <3>1, GrownFramed
  <2>6. Streams'
    BY ZenonT(60), <1>1, <1>3, <1>6, <2>1 DEF Streams
  <2> QED
    BY Zenon, <2>2, <2>3, <2>4, <2>5, <2>6 DEF BarrierInv
<1>10. CASE ~paused /\ c = epoch /\ (g => capable)
  <2>1. PICK m : m = Increment(Len(log) + 1, projected + 1)
    BY Zenon
  <2>2. projected' = projected + 1 /\ tasks' = Append(tasks, m) /\ buffer' = buffer
    BY Zenon, <1>10, <2>1 DEF SessionEvent, OnEvent, Sequence
  <2>3. m \in IncFrame /\ m.event = Len(log) + 1 /\ m.seq = projected + 1 /\ m.epoch = epoch
    <3>1. epoch \in Nat
      BY Zenon, LogFacts DEF BarrierInv
    <3> QED
      BY <1>2, <2>1, <3>1 DEF Increment, IncFrame
  <2>4. /\ tasks' \in Seq(IncFrame) /\ Len(tasks') = Len(tasks) + 1 /\ Len(tasks) \in Nat
        /\ (\A i \in 1..Len(tasks) : tasks'[i] = tasks[i]) /\ tasks'[Len(tasks) + 1] = m
    BY <1>5, <2>2, <2>3, Appended
  <2>5. BarrierTypes' /\ Ordered'
    <3>1. projected' \in 0..Len(log') /\ buffer' \in Seq(DOMAIN log')
      BY <1>2, <1>4, <1>5, <1>10, <2>2
    <3> QED
      BY Zenon, <1>5, <1>10, <2>2, <2>4, <3>1, EventTypes
  <2>6. Buffered'
    BY Zenon, <1>1, <1>10 DEF Buffered
  <2>7. Top' = Len(log) + 1 /\ Top = Len(log)
    BY Zenon, <1>3, <1>10 DEF Top
  <2>8. Numbers'
    BY SMTT(30), <1>1, <1>2, <1>7, <2>2, <2>7 DEF Numbers
  <2>9. GoodIncrement(m)'
    <3>1. Seen' = Seen \cup {Len(log) + 1}
      BY Zenon, <1>10, LogGrows
    <3> QED
      BY <1>1, <1>2, <2>2, <2>3, <2>7, <3>1 DEF GoodIncrement
  <2>10. Framed'
    <3>1. projected <= projected'
      BY <1>2, <2>2
    <3>2. \A n : (\E i \in 1..Len(tasks') : tasks'[i] = n) => (\E j \in 1..Len(tasks) : tasks[j] = n) \/ n = m
      BY <2>4
    <3>3. \A n : (\E i \in 1..Len(tasks') : tasks'[i] = n)
                 => (\E j \in 1..Len(tasks) : tasks[j] = n) \/ GoodIncrement(n)'
      BY Zenon, <2>9, <3>2
    <3> QED
      BY Zenon, <3>1, <3>3, GrownFramed
  <2>11. Streams'
    <3>1. projected + 1 = Upto(Seen', Len(log) + 1) + Offset
      BY Zenon, <1>10, OffsetGrown
    <3>2. <<m>> \in Seq(IncFrame) /\ Len(<<m>>) = 1 /\ tasks' = tasks \o <<m>>
      BY <1>5, <2>2, <2>3
    <3>3. \A n \in 1..Len(<<m>>) : /\ <<m>>[n].seq = projected + n
                                   /\ <<m>>[n].seq = Upto(Seen', <<m>>[n].event) + Offset
      BY <2>3, <3>1, <3>2
    <3>4. queue \in Seq(Frame)
      BY Zenon DEF BarrierInv, BarrierTypes
    <3>5. Flows(Seen', queue, tasks \o <<m>>, Offset, projected + Len(<<m>>), lost, applied', last, seenEpoch = epoch)
      BY ZenonT(60), <1>2, <1>5, <1>6, <3>2, <3>3, <3>4, DeliveredFlows
    <3> QED
      BY ZenonT(60), <1>1, <1>3, <2>2, <3>2, <3>5 DEF Streams
  <2> QED
    BY Zenon, <2>5, <2>6, <2>8, <2>10, <2>11 DEF BarrierInv
<1> QED
  BY Zenon, <1>8, <1>9, <1>10

\* The places a replay projects are those of the events seen since the pause.
LEMMA Replays ==
  ASSUME BarrierInv, paused, NEW w \in 0..watermark
  PROVE  /\ Replayed(w) = {i \in 1..Len(buffer) : watermark + i \in Seen}
         /\ Cardinality(Replayed(w)) = Upto(Seen, Len(log)) - Upto(Seen, watermark)
         /\ Upto(Seen, watermark) <= Upto(Seen, Len(log))
         /\ \A i \in 1..Len(buffer) :
              Rank(w, i) = Upto(Seen, watermark + i) - Upto(Seen, watermark)
         /\ watermark + Len(buffer) = Len(log)
<1>1. Len(log) \in Nat /\ watermark \in 0..Len(log) /\ watermark \in Nat /\ DOMAIN log = 1..Len(log)
  BY LogFacts DEF BarrierInv
<1>2. /\ Len(buffer) = Len(log) - watermark /\ \A i \in 1..Len(buffer) : buffer[i] = watermark + i
      /\ DOMAIN buffer = 1..Len(buffer)
  <2>1. buffer \in Seq(DOMAIN log)
    BY Zenon DEF BarrierInv, BarrierTypes, TypeOK
  <2>2. DOMAIN buffer = 1..Len(buffer)
    BY <2>1
  <2> QED
    BY Zenon, <2>2 DEF BarrierInv, Buffered
<1>3. watermark + Len(buffer) = Len(log) /\ Len(buffer) \in Nat
  BY <1>1, <1>2
<1>4. IsFiniteSet(Seen) /\ (\A n \in Seen : n \in Nat) /\ \A n : Upto(Seen, n) \in Nat
  BY Zenon, SeenFacts DEF BarrierInv
<1>5. ASSUME NEW i \in 1..Len(buffer)
      PROVE  buffer[i] > w /\ (Visible(buffer[i]) <=> watermark + i \in Seen)
  <2>1. buffer[i] = watermark + i /\ watermark + i > w /\ watermark + i \in DOMAIN log
    BY <1>1, <1>2
  <2>2. Visible(watermark + i) <=> watermark + i \in Seen
    BY Zenon, <2>1 DEF Seen
  <2> QED
    BY Zenon, <2>1, <2>2
<1>6. Replayed(w) = {i \in 1..Len(buffer) : watermark + i \in Seen}
  <2>1. Replayed(w) = {i \in 1..Len(buffer) : buffer[i] > w /\ Visible(buffer[i])}
    BY Zenon, <1>2 DEF Replayed
  <2> QED
    BY Zenon, <1>5, <2>1
<1>7. Cardinality(Replayed(w)) = Upto(Seen, Len(log)) - Upto(Seen, watermark)
  <2>1. Cardinality({i \in 1..Len(buffer) : watermark + i \in Seen})
          = Upto(Seen, watermark + Len(buffer)) - Upto(Seen, watermark)
    BY ZenonT(60), <1>1, <1>3, <1>4, ShiftCount
  <2> QED
    BY Zenon, <1>3, <1>6, <2>1
<1>8. Upto(Seen, watermark) <= Upto(Seen, Len(log))
  <2>1. watermark <= Len(log)
    BY <1>1
  <2> QED
    BY ZenonT(60), <1>1, <1>4, <2>1, UptoMono
<1>9. ASSUME NEW i \in 1..Len(buffer)
      PROVE  Rank(w, i) = Upto(Seen, watermark + i) - Upto(Seen, watermark)
  <2>1. i \in Nat /\ \A j : j \in 1..i <=> j \in 1..Len(buffer) /\ j <= i
    BY <1>3
  <2>2. {j \in Replayed(w) : j <= i} = {j \in 1..i : watermark + j \in Seen}
    BY Zenon, <1>6, <2>1
  <2>3. Cardinality({j \in 1..i : watermark + j \in Seen}) = Upto(Seen, watermark + i) - Upto(Seen, watermark)
    BY ZenonT(60), <1>1, <1>4, <2>1, ShiftCount
  <2> QED
    BY Zenon, <2>2, <2>3 DEF Rank
<1> QED
  BY ZenonT(60), <1>3, <1>6, <1>7, <1>8, <1>9

\* The tasks of a replay: numbered on from the counter, each with an event seen
\* since the pause, in order.
LEMMA ReplayTasks ==
  ASSUME BarrierInv, paused, NEW w \in 0..watermark, NEW c \in Nat
  PROVE  /\ Tasks(w, c) \in Seq(IncFrame)
         /\ Len(Tasks(w, c)) = Upto(Seen, Len(log)) - Upto(Seen, watermark)
         /\ \A n \in 1..Len(Tasks(w, c)) :
              LET m == Tasks(w, c)[n]
              IN  /\ m.seq = c + n /\ m.event \in Seen /\ m.epoch = epoch
                  /\ m.seq = Upto(Seen, m.event) + (c - Upto(Seen, watermark))
<1> DEFINE z == Cardinality(Replayed(w))
           f(n) == CHOOSE i \in Replayed(w) : Rank(w, i) = n
<1>1. /\ Replayed(w) = {i \in 1..Len(buffer) : watermark + i \in Seen}
      /\ z = Upto(Seen, Len(log)) - Upto(Seen, watermark)
      /\ Upto(Seen, watermark) <= Upto(Seen, Len(log))
      /\ \A i \in 1..Len(buffer) : Rank(w, i) = Upto(Seen, watermark + i) - Upto(Seen, watermark)
      /\ watermark + Len(buffer) = Len(log)
  BY Zenon, Replays
<1>2. /\ Len(log) \in Nat /\ watermark \in Nat /\ epoch \in Nat
      /\ IsFiniteSet(Seen) /\ (\A n \in Seen : n \in Nat) /\ \A n : Upto(Seen, n) \in Nat
  BY LogFacts, SeenFacts DEF BarrierInv
<1>3. /\ Len(buffer) \in Nat /\ \A i \in 1..Len(buffer) : buffer[i] = watermark + i
  <2>1. buffer \in Seq(DOMAIN log) /\ \A i \in 1..Len(buffer) : buffer[i] = watermark + i
    BY Zenon DEF BarrierInv, Buffered, BarrierTypes, TypeOK
  <2> QED
    BY <2>1
<1>4. z \in Nat
  <2>1. Upto(Seen, Len(log)) \in Nat /\ Upto(Seen, watermark) \in Nat
    BY Zenon, <1>2
  <2> QED
    BY <1>1, <2>1
<1> HIDE DEF z
<1>5. ASSUME NEW n \in 1..z
      PROVE  /\ f(n) \in 1..Len(buffer) /\ watermark + f(n) \in Seen
             /\ Upto(Seen, watermark + f(n)) - Upto(Seen, watermark) = n
  <2>1. n \in 1..(Upto(Seen, watermark + Len(buffer)) - Upto(Seen, watermark))
    BY Zenon, <1>1
  <2>2. PICK i \in 1..Len(buffer) : watermark + i \in Seen /\ Upto(Seen, watermark + i) - Upto(Seen, watermark) = n
    BY Zenon, <1>2, <1>3, <2>1, RankReached
  <2>3. \E j \in Replayed(w) : Rank(w, j) = n
    BY Zenon, <1>1, <2>2
  <2>4. f(n) \in Replayed(w) /\ Rank(w, f(n)) = n
    BY Zenon, <2>3
  <2> HIDE DEF f
  <2> QED
    BY Zenon, <1>1, <2>4
<1> DEFINE T == Tasks(w, c)
<1>6. T = [n \in 1..z |-> Increment(buffer[f(n)], c + n)]
  BY Zenon DEF Tasks, z
<1> HIDE DEF f, T
<1>7. ASSUME NEW n \in 1..z
      PROVE  /\ T[n] \in IncFrame /\ T[n].seq = c + n /\ T[n].event \in Seen /\ T[n].epoch = epoch
             /\ T[n].seq = Upto(Seen, T[n].event) + (c - Upto(Seen, watermark))
  <2>1. T[n] = Increment(watermark + f(n), c + n)
    <3>1. buffer[f(n)] = watermark + f(n)
      BY Zenon, <1>3, <1>5
    <3> QED
      BY Zenon, <1>6, <3>1
  <2>2. watermark + f(n) \in Nat /\ c + n \in Nat /\ n \in Nat
    <3>1. watermark + f(n) \in Nat
      BY Zenon, <1>2, <1>5
    <3> QED
      BY <1>4, <3>1
  <2>3. /\ T[n].event = watermark + f(n) /\ T[n].seq = c + n /\ T[n].epoch = epoch
        /\ T[n] \in IncFrame
    BY <1>2, <2>1, <2>2 DEF Increment, IncFrame
  <2>4. Upto(Seen, T[n].event) - Upto(Seen, watermark) = n /\ T[n].event \in Seen
    BY Zenon, <1>5, <2>3
  <2>5. Upto(Seen, T[n].event) \in Nat /\ Upto(Seen, watermark) \in Nat
    BY Zenon, <1>2
  <2>6. T[n].seq = Upto(Seen, T[n].event) + (c - Upto(Seen, watermark))
    BY <2>2, <2>3, <2>4, <2>5
  <2> QED
    BY Zenon, <2>3, <2>4, <2>6
<1>8. T \in Seq(IncFrame) /\ Len(T) = z
  BY <1>4, <1>6, <1>7
<1> QED
  BY Zenon, <1>1, <1>7, <1>8 DEF T

\* The numbers of a replay from a counter c that is at most the watermark.
LEMMA ReplayNumbers ==
  ASSUME BarrierInv, paused, NEW w \in 0..watermark, NEW c \in Nat, c <= watermark,
         Deliver(w, c), log' = log, epoch' = epoch, capable' = capable, Top' = Len(log)
  PROVE  /\ projected' \in Nat /\ projected' = c + Len(Tasks(w, c)) /\ projected' <= Len(log)
         /\ c <= projected' /\ Seen' = Seen /\ Offset' = c - Upto(Seen, watermark)
         /\ tasks' = tasks \o Tasks(w, c) /\ tasks' \in Seq(IncFrame)
         /\ \A i \in 1..Len(tasks') : \/ \E j \in 1..Len(tasks) : tasks'[i] = tasks[j]
                                      \/ /\ tasks'[i].event \in Seen /\ tasks'[i].epoch = epoch
                                         /\ tasks'[i].seq <= projected'
<1> DEFINE u == Tasks(w, c)
<1>1. /\ u \in Seq(IncFrame) /\ Len(u) = Upto(Seen, Len(log)) - Upto(Seen, watermark)
      /\ \A n \in 1..Len(u) : u[n].seq = c + n /\ u[n].event \in Seen /\ u[n].epoch = epoch
  BY Zenon, ReplayTasks
<1>2. Cardinality(Replayed(w)) = Upto(Seen, Len(log)) - Upto(Seen, watermark)
  BY Zenon, Replays
<1>3. projected' = c + Len(u) /\ tasks' = tasks \o u
  BY Zenon, <1>1, <1>2 DEF Deliver
<1>4. /\ Len(log) \in Nat /\ watermark \in Nat /\ watermark <= Len(log) /\ tasks \in Seq(IncFrame)
      /\ IsFiniteSet(Seen) /\ (\A n \in Seen : n \in Nat)
  BY LogFacts, SeenFacts DEF BarrierInv, BarrierTypes
<1>5. Upto(Seen, Len(log)) \in Nat /\ Upto(Seen, watermark) \in Nat
  BY Zenon, SeenFacts DEF BarrierInv
<1> HIDE DEF u
<1>6. Len(u) \in Nat
  BY <1>1
<1>7. Upto(Seen, Len(log)) <= Upto(Seen, watermark) + (Len(log) - watermark)
  BY Zenon, <1>4, UptoSpread
<1>8. projected' \in Nat /\ projected' <= Len(log) /\ c <= projected'
  BY SMTT(30), <1>1, <1>3, <1>4, <1>5, <1>6, <1>7
<1>9. Seen' = Seen
  BY Zenon, SeenKept
<1>10. Offset' = c - Upto(Seen, watermark)
  <2>1. Offset' = projected' - Upto(Seen, Len(log))
    BY Zenon, <1>9 DEF Offset
  <2> QED
    BY SMTT(30), <1>1, <1>3, <1>5, <1>6, <2>1
<1>11. /\ tasks' \in Seq(IncFrame) /\ Len(tasks') = Len(tasks) + Len(u) /\ Len(tasks) \in Nat
       /\ \A i \in 1..Len(tasks) : tasks'[i] = tasks[i]
       /\ \A i \in 1..Len(u) : tasks'[Len(tasks) + i] = u[i]
  <2>1. /\ tasks \o u \in Seq(IncFrame) /\ Len(tasks \o u) = Len(tasks) + Len(u)
        /\ \A i \in 1..Len(tasks) : (tasks \o u)[i] = tasks[i]
        /\ \A i \in 1..Len(u) : (tasks \o u)[Len(tasks) + i] = u[i]
    <3>1. tasks \in Seq(IncFrame) /\ u \in Seq(IncFrame)
      BY Zenon, <1>1, <1>4
    <3> QED
      BY SMT, <3>1, Joined
  <2>2. Len(tasks) \in Nat
    BY <1>4
  <2> QED
    BY Zenon, <1>3, <2>1, <2>2
<1>12. ASSUME NEW i \in 1..Len(tasks'), ~\E j \in 1..Len(tasks) : tasks'[i] = tasks[j]
       PROVE  /\ tasks'[i].event \in Seen /\ tasks'[i].epoch = epoch
              /\ tasks'[i].seq <= projected'
  <2>1. i \notin 1..Len(tasks)
    BY Zenon, <1>11, <1>12
  <2>2. i - Len(tasks) \in 1..Len(u) /\ Len(tasks) + (i - Len(tasks)) = i
    BY <1>6, <1>11, <2>1
  <2>3. tasks'[i] = u[i - Len(tasks)]
    BY Zenon, <1>11, <2>2
  <2>4. u[i - Len(tasks)].seq = c + (i - Len(tasks))
    BY Zenon, <1>1, <2>2
  <2>5. tasks'[i].seq <= projected'
    BY SMTT(30), <1>3, <1>6, <1>11, <2>2, <2>3, <2>4
  <2> QED
    BY ZenonT(60), <1>1, <2>2, <2>3, <2>5
<1> QED
  BY ZenonT(60), <1>3, <1>8, <1>9, <1>10, <1>11, <1>12 DEF u

\* The acknowledged snapshot is installed.
LEMMA InstallStep ==
  ASSUME BarrierInv, Install
  PROVE  BarrierInv'
<1>1. /\ attempt # 0 /\ stage = "acked" /\ queue' = Append(queue, SnapshotFrame)
      /\ Deliver(watermark, watermark) /\ buffer' = <<>> /\ paused' = FALSE
      /\ attempt' = 0 /\ stage' = "flush"
      /\ UNCHANGED <<log, epoch, capable, ready, asks, watermark, recheck, applied, last, seenEpoch,
                     pending, gaps, added, lost, failed>>
  BY Zenon DEF Install, Resume, clientVars, boundVars
<1>2. paused = TRUE
  BY Zenon, <1>1 DEF BarrierInv, BarrierTypes, TypeOK
<1>3. Top = watermark /\ Top' = Len(log)
  BY Zenon, <1>1, <1>2 DEF Top
<1>4. /\ Len(log) \in Nat /\ watermark \in 0..Len(log) /\ watermark \in Nat /\ projected \in Nat /\ last \in Nat
      /\ last <= projected /\ projected <= watermark /\ epoch \in Nat /\ last \in 0..Len(log)
  BY <1>3, LogFacts DEF BarrierInv, Numbers
<1>5. PICK u : u = Tasks(watermark, watermark)
  BY Zenon
<1>6. watermark \in 0..watermark /\ watermark <= watermark
  BY <1>4
<1>7. /\ projected' \in Nat /\ projected' = watermark + Len(u) /\ projected' <= Len(log)
      /\ watermark <= projected' /\ Seen' = Seen /\ Offset' = watermark - Upto(Seen, watermark)
      /\ tasks' = tasks \o u /\ tasks' \in Seq(IncFrame)
      /\ \A i \in 1..Len(tasks') : \/ \E j \in 1..Len(tasks) : tasks'[i] = tasks[j]
                                   \/ /\ tasks'[i].event \in Seen /\ tasks'[i].epoch = epoch
                                      /\ tasks'[i].seq <= projected'
  BY ZenonT(60), <1>1, <1>2, <1>3, <1>4, <1>5, <1>6, ReplayNumbers
<1>8. /\ u \in Seq(IncFrame)
      /\ \A n \in 1..Len(u) : /\ u[n].seq = watermark + n
                              /\ u[n].seq = Upto(Seen, u[n].event) + (watermark - Upto(Seen, watermark))
  BY ZenonT(60), <1>2, <1>4, <1>5, <1>6, ReplayTasks
<1>9. PICK x : x = SnapshotFrame
  BY Zenon
<1>10. /\ x \in SnapFrame /\ x.seq = watermark /\ x.upto = watermark /\ x.epoch = epoch /\ x.capable = capable
  <2>1. capable \in BOOLEAN
    BY Zenon DEF BarrierInv, BarrierTypes, TypeOK
  <2> QED
    BY ZenonT(60), <1>4, <1>9, <2>1 DEF SnapshotFrame, SnapFrame
<1>11. queue \in Seq(Frame) /\ tasks \in Seq(IncFrame) /\ \A i \in 1..Len(queue) : Inc(queue[i])
  BY Zenon, <1>1 DEF BarrierInv, BarrierTypes, Ordered
<1>12. /\ queue' \in Seq(Frame) /\ Len(queue') = Len(queue) + 1 /\ Len(queue) \in Nat
       /\ (\A i \in 1..Len(queue) : queue'[i] = queue[i]) /\ queue'[Len(queue) + 1] = x
  <2>1. x \in Frame
    BY Zenon, <1>10, SnapFrames
  <2> QED
    BY <1>1, <1>9, <1>11, <2>1, Appended
<1>13. (\A p : ~Snap(queue, p)) /\ \A p : Snap(queue', p) <=> p = Len(queue) + 1
  <2>1. \A i \in 1..Len(queue) : queue[i].kind # "snapshot"
    BY Zenon, <1>11 DEF Inc
  <2>2. x.kind = "snapshot"
    BY Zenon, <1>10, SnapFrames
  <2>3. \A p \in 1..Len(queue') : p \in 1..Len(queue) \/ p = Len(queue) + 1
    BY <1>12
  <2>4. Len(queue) + 1 \in 1..Len(queue')
    BY <1>12
  <2> QED
    BY ZenonT(60), <1>12, <2>1, <2>2, <2>3, <2>4 DEF Snap
<1>14. BarrierTypes'
  <2>1. /\ projected' \in 0..Len(log) /\ attempt' \in 0..2 /\ ~(attempt' # 0) /\ buffer' \in Seq(DOMAIN log)
    BY <1>1, <1>4, <1>7
  <2>2. paused' = (attempt' # 0)
    BY Zenon, <1>1, <2>1
  <2> QED
    BY ZenonT(60), <1>1, <1>7, <1>12, <2>1, <2>2 DEF BarrierInv, BarrierTypes, TypeOK, Sequence
<1>15. Buffered'
  BY Zenon, <1>1 DEF Buffered
<1>16. Numbers'
  <2>1. projected' <= Top' /\ last' <= projected'
    BY <1>1, <1>3, <1>4, <1>7
  <2> QED
    BY Zenon, <1>1, <2>1 DEF BarrierInv, Numbers
<1>17. ASSUME NEW m, GoodIncrement(m), m \in IncFrame PROVE GoodIncrement(m)'
  <2>1. m.seq \in Nat /\ m.event \in Nat /\ m.event \in Seen /\ m.event <= watermark /\ m.epoch = epoch
        /\ m.seq <= projected
    BY ZenonT(60), <1>3, <1>17, IncFrames DEF GoodIncrement
  <2>2. m.event <= Len(log) /\ m.seq <= projected'
    BY SMTT(30), <1>4, <1>7, <2>1
  <2> QED
    BY ZenonT(60), <1>1, <1>3, <1>7, <2>1, <2>2 DEF GoodIncrement
<1>18. Framed'
  <2>1. ASSUME NEW i \in 1..Len(tasks') PROVE GoodIncrement(tasks[i])'
    <3>1. CASE \E j \in 1..Len(tasks) : tasks'[i] = tasks[j]
      <4>1. PICK j \in 1..Len(tasks) : tasks'[i] = tasks[j]
        BY Zenon, <3>1
      <4>2. GoodIncrement(tasks[j]) /\ tasks[j] \in IncFrame
        <5>1. tasks[j] \in IncFrame
          BY Zenon, <1>11, MemberOfSeq
        <5> QED
          BY Zenon, <5>1 DEF BarrierInv, Framed
      <4>3. PICK m : m = tasks[j]
        BY Zenon
      <4>4. GoodIncrement(m)'
        BY ZenonT(60), <1>17, <4>2, <4>3
      <4> QED
        BY ZenonT(60), <4>1, <4>3, <4>4 DEF GoodIncrement
    <3>2. CASE /\ tasks'[i].event \in Seen /\ tasks'[i].epoch = epoch /\ tasks'[i].seq <= projected'
      <4>1. tasks'[i].event <= Len(log)
        <5>1. tasks'[i].event \in 1..Len(log) /\ Len(log) \in Nat
          BY Zenon, <1>4, <3>2, SeenFacts DEF BarrierInv
        <5> QED
          BY <5>1
      <4> QED
        BY ZenonT(60), <1>1, <1>3, <1>7, <3>2, <4>1 DEF GoodIncrement
    <3> QED
      BY ZenonT(60), <1>7, <3>1, <3>2
  <2>2. ASSUME NEW i \in 1..Len(queue'), Inc(queue'[i]) PROVE GoodIncrement(queue[i])'
    <3>1. i \in 1..Len(queue)
      <4>1. i # Len(queue) + 1
        BY Zenon, <1>10, <1>12, <2>2, SnapFrames
      <4>2. Len(queue') = Len(queue) + 1 /\ Len(queue) \in Nat
        BY Zenon, <1>12
      <4> QED
        BY <4>1, <4>2
    <3>2. GoodIncrement(queue[i]) /\ queue[i] \in IncFrame /\ queue'[i] = queue[i]
      <4>1. queue[i] \in Frame /\ queue'[i] = queue[i]
        BY Zenon, <1>11, <1>12, <3>1, MemberOfSeq
      <4> QED
        BY Zenon, <1>11, <3>1, <4>1, FrameKinds DEF BarrierInv, Framed
    <3>3. PICK m : m = queue[i]
      BY Zenon
    <3>4. GoodIncrement(m)'
      BY ZenonT(60), <1>17, <3>2, <3>3
    <3> QED
      BY ZenonT(60), <3>2, <3>3, <3>4 DEF GoodIncrement
  <2>3. ASSUME NEW p, Snap(queue', p) PROVE GoodSnapshot(queue[p])'
    <3>1. queue'[p] = x
      BY ZenonT(60), <1>12, <1>13, <2>3
    <3>2. Upto(Seen, watermark) \in Nat
      BY Zenon, SeenFacts DEF BarrierInv
    <3>3. watermark = Upto(Seen, watermark) + Offset' /\ last <= watermark /\ watermark <= Len(log)
      <4>1. /\ Offset' = watermark - Upto(Seen, watermark) /\ watermark \in Nat /\ last \in Nat /\ projected \in Nat
            /\ last <= projected /\ projected <= watermark /\ watermark \in 0..Len(log) /\ Len(log) \in Nat
        BY Zenon, <1>4, <1>7
      <4> QED
        BY <3>2, <4>1
    <3> QED
      BY ZenonT(60), <1>1, <1>3, <1>7, <1>10, <3>1, <3>3 DEF GoodSnapshot
  <2> QED
    BY ZenonT(60), <2>1, <2>2, <2>3 DEF Framed, Snap
<1>19. Ordered'
  <2>1. stage' # "acked"
    BY Zenon, <1>1
  <2>2. \A o, p : Snap(queue', o) /\ Snap(queue', p) => o = p
    BY Zenon, <1>13
  <2> QED
    BY ZenonT(60), <1>1, <2>1, <2>2 DEF Ordered
<1>20. Streams'
  <2>1. \A i \in 1..Len(queue) : Inc(queue[i]) => queue[i].event <= x.seq
    BY Zenon, <1>3, <1>10 DEF BarrierInv, Framed, GoodIncrement
  <2>2. \A i \in 1..Len(tasks) : tasks[i].seq <= x.seq
    <3> SUFFICES ASSUME NEW i \in 1..Len(tasks) PROVE tasks[i].seq <= watermark
      BY Zenon, <1>10
    <3>1. tasks[i].seq <= projected /\ tasks[i].seq \in Nat
      BY <1>11, IncFrames DEF BarrierInv, Framed, GoodIncrement
    <3> QED
      BY <1>4, <3>1
  <2>3. Upto(Seen, watermark) + Offset = projected /\ Offset \in Int
    <3>1. Upto(Seen, watermark) \in Nat /\ Offset \in Int
      BY Zenon, SeenFacts DEF BarrierInv
    <3>2. Offset = projected - Upto(Seen, watermark)
      BY Zenon, <1>3 DEF Offset
    <3> QED
      BY <1>4, <3>1, <3>2
  <2>4. last <= Upto(Seen, x.seq) + Offset /\ Upto(Seen, x.seq) + Offset <= x.seq
    BY ZenonT(60), <1>4, <1>10, <2>3
  <2>5. \A n \in 1..Len(u) : u[n].seq = x.seq + n /\ u[n].seq = Upto(Seen, u[n].event) + Offset'
    BY ZenonT(60), <1>7, <1>8, <1>10
  <2>6. Flows(Seen, queue, tasks, Offset, projected, lost, applied, last, seenEpoch = epoch)
    BY Zenon DEF BarrierInv, Streams
  <2>7. Flows(Seen, Append(queue, x), tasks \o u, Offset', x.seq + Len(u), lost, applied, last, seenEpoch = epoch)
    BY ZenonT(60), <1>4, <1>8, <1>10, <1>11, <1>13, <2>1, <2>2, <2>3, <2>4, <2>5, <2>6, InstalledFlows
  <2> QED
    BY ZenonT(60), <1>1, <1>7, <1>9, <1>10, <2>7 DEF Streams
<1> QED
  BY Zenon, <1>14, <1>15, <1>16, <1>18, <1>19, <1>20 DEF BarrierInv

\* What a failed barrier leaves: the streams go on with their numbering.
LEMMA FailFacts ==
  ASSUME BarrierInv, Fail
  PROVE  /\ Top = watermark /\ Top' = Len(log) /\ Seen' = Seen /\ Offset' = Offset
         /\ projected' \in 0..Len(log) /\ projected <= projected' /\ watermark <= Len(log)
         /\ tasks' \in Seq(IncFrame)
         /\ \A i \in 1..Len(tasks') : \/ \E j \in 1..Len(tasks) : tasks'[i] = tasks[j]
                                      \/ /\ tasks'[i].event \in Seen /\ tasks'[i].epoch = epoch
                                         /\ tasks'[i].seq <= projected'
         /\ Flows(Seen, queue, tasks', Offset, projected', lost, applied, last, seenEpoch = epoch)
<1>1. /\ attempt # 0 /\ Deliver(0, projected) /\ UNCHANGED <<log, epoch, capable>>
      /\ paused' = FALSE \/ watermark' = Len(log)
  BY Zenon DEF Fail, ReplayAll, BeginAttempt, Sequence
<1>2. paused = TRUE
  BY Zenon, <1>1 DEF BarrierInv, BarrierTypes, TypeOK
<1>3. Top = watermark /\ Top' = Len(log)
  BY Zenon, <1>1, <1>2 DEF Top
<1>4. /\ Len(log) \in Nat /\ watermark \in 0..Len(log) /\ watermark \in Nat /\ projected \in Nat /\ last \in Nat
      /\ projected <= watermark /\ watermark <= Len(log) /\ 0 \in 0..watermark
  BY <1>3, LogFacts DEF BarrierInv, Numbers
<1>5. PICK u : u = Tasks(0, projected)
  BY Zenon
<1>6. /\ projected' \in Nat /\ projected' = projected + Len(u) /\ projected' <= Len(log)
      /\ projected <= projected' /\ Seen' = Seen /\ Offset' = projected - Upto(Seen, watermark)
      /\ tasks' = tasks \o u /\ tasks' \in Seq(IncFrame)
      /\ \A i \in 1..Len(tasks') : \/ \E j \in 1..Len(tasks) : tasks'[i] = tasks[j]
                                   \/ /\ tasks'[i].event \in Seen /\ tasks'[i].epoch = epoch
                                      /\ tasks'[i].seq <= projected'
  BY ZenonT(60), <1>1, <1>2, <1>3, <1>4, <1>5, ReplayNumbers
<1>7. /\ u \in Seq(IncFrame)
      /\ \A n \in 1..Len(u) : /\ u[n].seq = projected + n
                              /\ u[n].seq = Upto(Seen, u[n].event) + (projected - Upto(Seen, watermark))
  BY ZenonT(60), <1>2, <1>4, <1>5, ReplayTasks
<1>8. Offset = projected - Upto(Seen, watermark)
  BY Zenon, <1>3 DEF Offset
<1>9. Flows(Seen, queue, tasks \o u, Offset, projected + Len(u), lost, applied, last, seenEpoch = epoch)
  <2>1. queue \in Seq(Frame) /\ tasks \in Seq(IncFrame)
    BY Zenon DEF BarrierInv, BarrierTypes
  <2>2. \A n \in 1..Len(u) : u[n].seq = projected + n /\ u[n].seq = Upto(Seen, u[n].event) + Offset
    BY ZenonT(60), <1>7, <1>8
  <2>3. Flows(Seen, queue, tasks, Offset, projected, lost, applied, last, seenEpoch = epoch)
    BY Zenon DEF BarrierInv, Streams
  <2> QED
    BY ZenonT(60), <1>4, <1>7, <2>1, <2>2, <2>3, DeliveredFlows
<1>10. projected' \in 0..Len(log)
  BY Zenon, <1>4, <1>6, Within
<1> QED
  BY ZenonT(60), <1>3, <1>4, <1>6, <1>8, <1>9, <1>10

\* What is in flight stays well formed when a barrier fails.
LEMMA FailFramed ==
  ASSUME BarrierInv, Fail, \A i \in 1..Len(queue') : queue'[i] = FlushFrame \/ (i \in 1..Len(queue) /\ queue'[i] = queue[i])
  PROVE  Framed' /\ \A p : Snap(queue', p) => Snap(queue, p)
<1>1. UNCHANGED <<log, epoch, capable, last>>
  BY Zenon DEF Fail, clientVars
<1>2. /\ Top = watermark /\ Top' = Len(log) /\ Seen' = Seen /\ Offset' = Offset /\ watermark \in Nat
      /\ Len(log) \in Nat /\ watermark <= Len(log) /\ projected \in Nat /\ projected' \in Nat
      /\ projected <= projected'
  <2>1. Len(log) \in Nat /\ watermark \in Nat /\ projected \in Nat
    <3>1. Len(log) \in Nat /\ watermark \in 0..Len(log) /\ projected \in 0..Len(log)
      BY Zenon, LogFacts DEF BarrierInv
    <3> QED
      BY <3>1
  <2>2. /\ Top = watermark /\ Top' = Len(log) /\ Seen' = Seen /\ Offset' = Offset /\ projected' \in 0..Len(log)
        /\ watermark <= Len(log) /\ projected <= projected'
    BY Zenon, FailFacts
  <2>3. projected' \in Nat
    <3>1. projected' \in 0..Len(log) /\ Len(log) \in Nat
      BY Zenon, <2>1, <2>2
    <3> QED
      BY <3>1
  <2> QED
    BY Zenon, <2>1, <2>2, <2>3
<1>3. ASSUME NEW m, GoodIncrement(m), m \in IncFrame PROVE GoodIncrement(m)'
  <2>1. /\ m.seq \in Nat /\ m.event \in Nat /\ m.event \in Seen /\ m.event <= watermark /\ m.epoch = epoch
        /\ m.seq <= projected
    BY Zenon, <1>2, <1>3, IncFrames DEF GoodIncrement
  <2>2. m.event <= Len(log) /\ m.seq <= projected'
    BY <1>2, <2>1
  <2> QED
    BY Zenon, <1>1, <1>2, <2>1, <2>2 DEF GoodIncrement
<1>4. ASSUME NEW m, GoodSnapshot(m), m \in SnapFrame PROVE GoodSnapshot(m)'
  <2>1. m.seq \in Nat /\ m.seq <= watermark
    BY ZenonT(60), <1>2, <1>4, SnapFrames DEF GoodSnapshot
  <2>2. m.seq <= Len(log)
    BY <1>2, <2>1
  <2> QED
    BY ZenonT(60), <1>1, <1>2, <1>4, <2>2 DEF GoodSnapshot
<1>5. queue \in Seq(Frame) /\ tasks \in Seq(IncFrame)
  BY Zenon DEF BarrierInv, BarrierTypes
<1>6. ASSUME NEW i \in 1..Len(tasks') PROVE GoodIncrement(tasks[i])'
  <2>1. CASE \E j \in 1..Len(tasks) : tasks'[i] = tasks[j]
    <3>1. PICK j \in 1..Len(tasks) : tasks'[i] = tasks[j]
      BY Zenon, <2>1
    <3>2. GoodIncrement(tasks[j]) /\ tasks[j] \in IncFrame
      <4>1. tasks[j] \in IncFrame
        BY Zenon, <1>5, MemberOfSeq
      <4> QED
        BY Zenon, <4>1 DEF BarrierInv, Framed
    <3>3. PICK m : m = tasks[j]
      BY Zenon
    <3>4. GoodIncrement(m)'
      BY ZenonT(60), <1>3, <3>2, <3>3
    <3> QED
      BY Zenon, <3>1, <3>3, <3>4 DEF GoodIncrement
  <2>2. CASE /\ tasks'[i].event \in Seen /\ tasks'[i].epoch = epoch /\ tasks'[i].seq <= projected'
    <3>1. tasks'[i].event <= Len(log)
      <4>1. tasks'[i].event \in 1..Len(log) /\ Len(log) \in Nat
        BY Zenon, <1>2, <2>2, SeenFacts DEF BarrierInv
      <4> QED
        BY <4>1
    <3> QED
      BY ZenonT(60), <1>1, <1>2, <2>2, <3>1 DEF GoodIncrement
  <2> QED
    BY Zenon, <2>1, <2>2, FailFacts
<1>7. FlushFrame.kind = "flush" /\ ~Inc(FlushFrame) /\ FlushFrame.kind # "snapshot"
  BY Zenon DEF FlushFrame, Inc
<1>8. ASSUME NEW i \in 1..Len(queue'), Inc(queue'[i]) PROVE GoodIncrement(queue[i])'
  <2>1. i \in 1..Len(queue) /\ queue'[i] = queue[i]
    BY Zenon, <1>7, <1>8
  <2>2. GoodIncrement(queue[i]) /\ queue[i] \in IncFrame
    BY <1>5, <1>8, <2>1, FrameKinds DEF BarrierInv, Framed
  <2>3. PICK m : m = queue[i]
    BY Zenon
  <2>4. GoodIncrement(m)'
    BY Zenon, <1>3, <2>2, <2>3
  <2> QED
    BY ZenonT(60), <2>1, <2>3, <2>4 DEF GoodIncrement
<1>9. ASSUME NEW p, Snap(queue', p) PROVE Snap(queue, p) /\ queue'[p] = queue[p]
  BY Zenon, <1>7, <1>9 DEF Snap
<1>10. ASSUME NEW p, Snap(queue', p) PROVE GoodSnapshot(queue[p])'
  <2>1. Snap(queue, p) /\ queue'[p] = queue[p]
    BY Zenon, <1>9, <1>10
  <2>2. GoodSnapshot(queue[p]) /\ queue[p] \in SnapFrame
    BY Zenon, <1>5, <2>1, SnapPlace DEF BarrierInv, Framed
  <2>3. PICK m : m = queue[p]
    BY Zenon
  <2>4. GoodSnapshot(m)'
    BY ZenonT(60), <1>4, <2>2, <2>3
  <2> QED
    BY ZenonT(60), <2>1, <2>3, <2>4 DEF GoodSnapshot
<1> QED
  BY ZenonT(60), <1>6, <1>8, <1>9, <1>10 DEF Framed, Snap

\* A barrier that times out: the buffered events are replayed behind what was
\* projected, and the second attempt begins or the request is dropped.
LEMMA FailStep ==
  ASSUME BarrierInv, Fail
  PROVE  BarrierInv'
<1>1. /\ attempt # 0 /\ stage = "flush" /\ buffer' = <<>>
      /\ UNCHANGED <<log, epoch, capable, ready, asks, applied, last, seenEpoch, pending, gaps, lost>>
  BY Zenon DEF Fail, ReplayAll, clientVars
<1>2. /\ Top = watermark /\ Top' = Len(log) /\ Seen' = Seen /\ Offset' = Offset
      /\ projected' \in 0..Len(log) /\ projected <= projected' /\ tasks' \in Seq(IncFrame)
      /\ Flows(Seen, queue, tasks', Offset, projected', lost, applied, last, seenEpoch = epoch)
  BY Zenon, FailFacts
<1>3. /\ Len(log) \in Nat /\ watermark \in 0..Len(log) /\ projected \in Nat /\ last \in Nat /\ last <= projected
  BY LogFacts DEF BarrierInv, Numbers
<1>4. projected' \in Nat /\ projected' <= Len(log) /\ last <= projected'
  BY <1>2, <1>3
<1>5. queue \in Seq(Frame) /\ Len(queue) \in Nat
  BY DEF BarrierInv, BarrierTypes
<1>6. Numbers' \/ ~(attempt' = 0 => stage' = "flush")
  BY Zenon, <1>1, <1>2, <1>4 DEF BarrierInv, Numbers
<1>7. CASE BeginAttempt(2)
  <2>1. /\ attempt' = 2 /\ stage' = "flush" /\ recheck' = FALSE /\ paused' = TRUE /\ watermark' = Len(log)
        /\ queue' = Append(queue, FlushFrame)
    BY Zenon, <1>7 DEF BeginAttempt, Sequence
  <2>3. /\ queue' \in Seq(Frame) /\ Len(queue') = Len(queue) + 1
        /\ (\A i \in 1..Len(queue) : queue'[i] = queue[i]) /\ queue'[Len(queue) + 1] = FlushFrame
    BY SMTT(30), <1>5, <2>1, FlushFrames, Appended
  <2>4. \A i \in 1..Len(queue') : i \in 1..Len(queue) \/ i = Len(queue) + 1
    BY <1>5, <2>3
  <2>5. \A i \in 1..Len(queue') : queue'[i] = FlushFrame \/ (i \in 1..Len(queue) /\ queue'[i] = queue[i])
    BY Zenon, <2>3, <2>4
  <2>6. Framed' /\ \A p : Snap(queue', p) => Snap(queue, p)
    BY Zenon, <2>5, FailFramed
  <2>7. BarrierTypes'
    <3>1. /\ attempt' \in 0..2 /\ attempt' # 0 /\ buffer' \in Seq(DOMAIN log) /\ watermark' \in 0..Len(log)
          /\ stage' \in {"flush", "acked"}
      BY <1>1, <1>3, <2>1
    <3>2. paused' = (attempt' # 0) /\ paused' \in BOOLEAN /\ recheck' \in BOOLEAN
      BY Zenon, <2>1, <3>1
    <3> QED
      BY Zenon, <1>1, <1>2, <2>1, <2>3, <3>1, <3>2 DEF BarrierInv, BarrierTypes, TypeOK, Sequence
  <2>8. Buffered'
    <3>1. Len(buffer') = Len(log) - watermark' /\ \A i \in 1..Len(buffer') : buffer'[i] = watermark' + i
      BY <1>1, <1>3, <2>1
    <3> QED
      BY Zenon, <1>1, <3>1 DEF Buffered
  <2>9. Numbers'
    BY Zenon, <1>6, <2>1
  <2>10. Ordered'
    <3>1. stage' # "acked" /\ LastFlush(queue', Len(queue) + 1)
      BY <1>5, <2>1, <2>3 DEF LastFlush
    <3> QED
      BY Zenon, <2>6, <3>1 DEF BarrierInv, Ordered
  <2>11. Streams'
    <3>1. Flows(Seen, Append(queue, FlushFrame), tasks', Offset, projected', lost, applied, last, seenEpoch = epoch)
      BY ZenonT(60), <1>2, <1>3, <1>4, <1>5, FlushedFlows
    <3> QED
      BY ZenonT(60), <1>1, <1>2, <2>1, <3>1 DEF Streams
  <2> QED
    BY ZenonT(60), <2>6, <2>7, <2>8, <2>9, <2>10, <2>11 DEF BarrierInv
<1>8. CASE attempt' = 0 /\ stage' = "flush" /\ paused' = FALSE /\ UNCHANGED <<watermark, recheck, queue>>
  <2>1. Framed'
    BY Zenon, <1>8, FailFramed
  <2>2. BarrierTypes'
    <3>1. attempt' \in 0..2 /\ ~(attempt' # 0) /\ buffer' \in Seq(DOMAIN log)
      BY <1>1, <1>8
    <3>2. paused' = (attempt' # 0)
      BY Zenon, <1>8, <3>1
    <3> QED
      BY ZenonT(60), <1>1, <1>2, <1>8, <3>1, <3>2 DEF BarrierInv, BarrierTypes, TypeOK, Sequence
  <2>3. Buffered' /\ Numbers'
    BY Zenon, <1>6, <1>8 DEF Buffered
  <2>4. Ordered'
    <3>1. stage' # "acked"
      BY Zenon, <1>8
    <3> QED
      BY Zenon, <1>8, <3>1 DEF BarrierInv, Ordered
  <2>5. Streams'
    BY Zenon, <1>1, <1>2, <1>8 DEF Streams
  <2> QED
    BY ZenonT(60), <2>1, <2>2, <2>3, <2>4, <2>5 DEF BarrierInv
<1> QED
  BY Zenon, <1>7, <1>8 DEF Fail

\* Nothing is in flight when the session starts.
LEMMA BarrierInit == Init => BarrierInv
<1> SUFFICES ASSUME Init PROVE BarrierInv
  BY Zenon
<1>1. /\ log = <<>> /\ epoch = 0 /\ capable = FALSE /\ projected = 0 /\ paused = FALSE
      /\ buffer = <<>> /\ tasks = <<>> /\ queue = <<>> /\ ready = FALSE
      /\ asks = 0 /\ attempt = 0 /\ stage = "flush" /\ watermark = 0 /\ recheck = FALSE
      /\ applied = <<>> /\ last = 0 /\ seenEpoch = 0 /\ pending = FALSE /\ gaps = 0 /\ lost = 0
  BY Zenon DEF Init
<1>2. MaxEpoch \in Nat
  BY Zenon, BarrierAssumption
<1>3. Len(log) = 0 /\ DOMAIN log = {} /\ (\A n : ~(n \in 1..Len(queue))) /\ (\A n : ~(n \in 1..Len(tasks)))
  BY <1>1
<1>4. \A p : ~Snap(queue, p)
  BY Zenon, <1>3 DEF Snap
<1>5. BarrierTypes
  <2>1. /\ epoch \in 0..MaxEpoch /\ projected \in 0..Len(log) /\ buffer \in Seq(DOMAIN log) /\ asks \in Nat
        /\ attempt \in 0..2 /\ stage \in {"flush", "acked"} /\ watermark \in 0..Len(log)
        /\ Len(applied) = Len(log) /\ last \in 0..Len(log) /\ seenEpoch \in 0..epoch /\ ~(attempt # 0)
    BY <1>1, <1>2, <1>3
  <2>2. /\ log \in Seq([epoch : Nat, gated : BOOLEAN]) /\ queue \in Seq(Frame) /\ tasks \in Seq(IncFrame)
        /\ applied \in Seq({0, 1}) /\ gaps \in Nat /\ lost \in Nat
    BY <1>1
  <2>3. paused = (attempt # 0) /\ capable \in BOOLEAN /\ ready \in BOOLEAN /\ recheck \in BOOLEAN /\ pending \in BOOLEAN
    BY Zenon, <1>1, <2>1
  <2> QED
    BY ZenonT(60), <1>1, <1>3, <2>1, <2>2, <2>3 DEF BarrierTypes, TypeOK, Sequence
<1>6. Buffered /\ Numbers
  BY <1>1, <1>3 DEF Buffered, Numbers, Top
<1>7. Framed
  BY Zenon, <1>3, <1>4 DEF Framed
<1>8. Ordered
  <2>1. stage # "acked"
    BY Zenon, <1>1
  <2> QED
    BY Zenon, <1>1, <1>4, <2>1 DEF Ordered
<1>9. Streams
  <2>1. Seen = {}
    BY Zenon, <1>3 DEF Seen
  <2>2. tasks \in Seq(IncFrame) /\ queue \in Seq(Frame)
    BY Zenon, <1>5 DEF BarrierTypes
  <2>3. Held(Seen, applied, last, Offset)
    BY Zenon, <2>1 DEF Held
  <2>4. QueueFits(Seen, queue, 0, Len(queue), last, Offset) /\ TasksFit(Seen, tasks, last, Offset)
    BY <1>1, <1>3 DEF QueueFits, TasksFit
  <2>5. Runs(queue, tasks, 0, last, projected)
    BY <1>1, <1>3 DEF Runs, QueueRuns, TasksRun, Reaches
  <2>6. last <= projected
    BY <1>1
  <2> QED
    BY ZenonT(60), <1>4, <2>3, <2>4, <2>5, <2>6 DEF Streams, Flows, Era
<1> QED
  BY ZenonT(60), <1>5, <1>6, <1>7, <1>8, <1>9 DEF BarrierInv

\* Every step of the observer, the barrier, the worker and the page keeps the
\* streams in order.
LEMMA BarrierStep ==
  ASSUME BarrierInv, Next
  PROVE  BarrierInv'
<1>1. ASSUME NEW c \in 1..epoch, NEW g \in BOOLEAN, SessionEvent(c, g) PROVE BarrierInv'
  BY Zenon, <1>1, EventStep
<1>2. CASE EmitFrame
  BY Zenon, <1>2, EmitStep
<1>3. CASE EmitRaises
  BY ZenonT(60), <1>3, RaiseStep
<1>4. CASE OnClientMessage
  BY Zenon, <1>4, MessageStep
<1>5. CASE NotBuilt \/ AskAgain \/ ClientReady
  BY ZenonT(60), <1>5, AskStep
<1>6. CASE Install
  BY Zenon, <1>6, InstallStep
<1>7. CASE Fail
  BY Zenon, <1>7, FailStep
<1>8. CASE Flush
  BY Zenon, <1>8, FlushStep
<1>9. CASE Receive
  BY ZenonT(60), <1>9, SnapshotStep, IncrementStep
<1>10. ASSUME NEW c \in BOOLEAN, Connect(c) PROVE BarrierInv'
  BY Zenon, <1>10, ConnectedStep
<1> QED
  BY ZenonT(60), <1>1, <1>2, <1>3, <1>4, <1>5, <1>6, <1>7, <1>8, <1>9, <1>10 DEF Next

\* PageHoldsLog, for every number of events, connections, requests, losses and
\* failures.
THEOREM PageHoldsLogAlways == Spec => []PageHoldsLog
<1>1. Init => BarrierInv
  BY Zenon, BarrierInit
<1>2. BarrierInv /\ [Next]_vars => BarrierInv'
  <2>1. CASE Next
    BY Zenon, <2>1, BarrierStep
  <2>2. CASE UNCHANGED vars
    <3>1. UNCHANGED <<log, epoch, capable, projected, paused, buffer, tasks, queue, ready, asks, attempt,
                      stage, watermark, recheck, applied, last, seenEpoch, pending, gaps, lost>>
      BY Zenon, <2>2 DEF vars, connVars, handlerVars, clientVars, boundVars
    <3>2. BarrierInv => BarrierTypes'
      BY ZenonT(60), <3>1 DEF BarrierInv, BarrierTypes, TypeOK, Sequence
    <3> QED
      BY ZenonT(60), <3>1, <3>2, QuietStep
  <2> QED
    BY Zenon, <2>1, <2>2
<1>3. BarrierInv => PageHoldsLog
  BY Zenon, BarrierHolds
<1> QED
  BY <1>1, <1>2, <1>3, PTL DEF Spec
=============================================================================
