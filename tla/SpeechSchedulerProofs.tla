------------------------- MODULE SpeechSchedulerProofs -------------------------
(***************************************************************************)
(* Proofs about the speech scheduler and the early acks.                   *)
(*                                                                         *)
(* The scheduler's four safety properties, for any items, work items and   *)
(* roles: RecordsAgree, SpeechOnce, AcksAccountedFor, DiscardedForGood.    *)
(*                                                                         *)
(* Only DiscardedForGood is a conjunct of the invariant.  The others follow *)
(* from where an utterance can be (Sound): the queue, _paused and the lease *)
(* are disjoint, what is paused or leased went through the slot, only      *)
(* admitted utterances have a call under way, and a record is open while   *)
(* its utterance is held.  The lease is the slot's (LeaseAgrees), and a lane *)
(* that lost its connection has been swept (LaneAgrees).                   *)
(*                                                                         *)
(* start_next is most of the argument.  Every caller hands it a queue, the *)
(* records, a lease and a holder of the slot; StartNextKeeps shows that it *)
(* keeps Sound whatever it admits or drops, and StartStep that its caller  *)
(* keeps IInv, provided that what it hands over is sound.                  *)
(*                                                                         *)
(* The ledger over the scheduler that it drives: NoAckAfterResult and      *)
(* QueuedAckHasChain, for any turns, emissions, attempts and map limit.    *)
(*                                                                         *)
(* LInv relates acks, latch and chains.  A turn is latched only between its *)
(* emission and its end (Unlatched); an ack of a turn that is not over is  *)
(* queued only under the latch (Latched); a claim number belongs to one    *)
(* chain (OneChain); and every queued ack has a chain to itself that is not *)
(* stale and will come back to it (Kept, by the injection of Served).  A   *)
(* turn whose paused ack was dropped is exempt, as in the property.        *)
(*                                                                         *)
(* Most scheduler steps put no ack in the queue: Calm says so once, and    *)
(* CalmKeeps carries LInv over all of them.  The others are the emissions  *)
(* and the steps of a chain, one lemma each (EmitKeeps, ChainKeeps).       *)
(***************************************************************************)
EXTENDS TurnAckLedger, WellFoundedInduction, FiniteSetTheorems, TLAPS

-----------------------------------------------------------------------------
(* Numbers *)

\* Every nonempty set of naturals has a least element.
LEMMA LeastElement ==
  ASSUME NEW B, B \subseteq Nat, B # {}
  PROVE  \E m \in B : \A n \in B : m <= n
<1>1. PICK m \in B : \A n \in B : ~(<<n, m>> \in OpToRel(<, Nat))
  BY Zenon, NatLessThanWellFounded, WFMin
<1>2. ASSUME NEW n \in B PROVE m <= n
  <2>1. m \in Nat /\ n \in Nat
    BY Zenon
  <2>2. ~(n < m)
    BY Zenon, <1>1, <2>1 DEF OpToRel
  <2> QED
    BY <2>1, <2>2
<1> QED
  BY Zenon, <1>2

\* Induction, for a set of naturals.
LEMMA SetInduction ==
  ASSUME NEW T, 0 \in T, \A n \in Nat : n \in T => n + 1 \in T
  PROVE  \A n \in Nat : n \in T
<1> DEFINE B == {n \in Nat : n \notin T}
<1> SUFFICES ASSUME B # {} PROVE FALSE
  BY Zenon
<1>1. PICK m \in B : \A n \in B : m <= n
  BY Zenon, LeastElement
<1>2. m \in Nat /\ m # 0
  BY Zenon
<1>3. m - 1 \in Nat /\ ~(m <= m - 1)
  BY <1>2
<1>4. m - 1 \in T
  BY Zenon, <1>1, <1>3
<1>5. (m - 1) + 1 \in T
  BY Zenon, <1>3, <1>4
<1> QED
  BY <1>2, <1>5

\* The least position of a nonempty set of positions.
LEMMA MinIsLeast ==
  ASSUME NEW B, B \subseteq Nat, B # {}
  PROVE  Min(B) \in B /\ \A n \in B : Min(B) <= n
BY Zenon, LeastElement DEF Min

\* The greatest position of a nonempty set of positions.
LEMMA MaxIsGreatest ==
  ASSUME NEW N \in Nat, NEW B, B \subseteq 1..N, B # {}
  PROVE  Max(B) \in B
<1> DEFINE C == {N - n : n \in B}
<1>1. C \subseteq Nat /\ C # {}
  <2>1. \A n \in B : N - n \in Nat
    OBVIOUS
  <2> QED
    BY Zenon, <2>1
<1>2. PICK c \in C : \A d \in C : c <= d
  BY Zenon, <1>1, LeastElement
<1>3. PICK m \in B : c = N - m
  BY Zenon
<1>4. ASSUME NEW n \in B PROVE m >= n
  <2>1. N - m <= N - n
    BY Zenon, <1>2, <1>3
  <2>2. m \in Nat /\ n \in Nat
    OBVIOUS
  <2> QED
    BY <2>1, <2>2
<1>5. \E x \in B : \A y \in B : x >= y
  BY Zenon, <1>4
<1> QED
  BY Zenon, <1>5 DEF Max

-----------------------------------------------------------------------------
(* The queue *)

\* What is left of a queue is what was not taken out.
LEMMA WithoutFacts ==
  ASSUME NEW q \in Seq(Items), NEW S
  PROVE  Without(q, S) \in Seq(Items) /\ Range(Without(q, S)) = Range(q) \ S
<1> DEFINE St(f, n) == IF n = 0 THEN <<>>
                       ELSE IF q[n] \in S THEN f[n - 1] ELSE Append(f[n - 1], q[n])
           Good(f, m) == f = [n \in 0..m |-> St(f, n)]
           kept == CHOOSE f : Good(f, Len(q))
           T == {m \in Nat : \E f : Good(f, m)}
<1>1. 0 \in T
  <2>1. Good([n \in 0..0 |-> <<>>], 0)
    OBVIOUS
  <2> QED
    BY Zenon, <2>1
<1>2. ASSUME NEW m \in Nat, m \in T PROVE m + 1 \in T
  <2>1. PICK g : Good(g, m)
    BY Zenon, <1>2
  <2> DEFINE h == [n \in 0..(m + 1) |-> IF n <= m THEN g[n] ELSE St(g, m + 1)]
  <2>2. \A n \in 0..m : h[n] = g[n]
    OBVIOUS
  <2>3. \A n \in 0..(m + 1) : St(h, n) = St(g, n)
    BY <2>2
  <2>4. \A n \in 0..m : g[n] = St(g, n)
    BY Zenon, <2>1
  <2>5. Good(h, m + 1)
    BY <2>3, <2>4
  <2>6. \E f : Good(f, m + 1)
    BY Zenon, <2>5
  <2>7. m + 1 \in Nat
    OBVIOUS
  <2> HIDE DEF Good
  <2> QED
    BY Zenon, <2>6, <2>7
<1>3. Len(q) \in T
  <2> HIDE DEF T
  <2>1. Len(q) \in Nat
    OBVIOUS
  <2> QED
    BY Zenon, <1>1, <1>2, <2>1, SetInduction
<1>4. Good(kept, Len(q))
  <2> HIDE DEF Good
  <2> QED
    BY Zenon, <1>3
<1>5. Without(q, S) = kept[Len(q)]
  BY Zenon DEF Without
<1> HIDE DEF kept, T
<1>6. \A n \in 0..Len(q) : kept[n] = St(kept, n)
  BY Zenon, <1>4
<1> HIDE DEF Good
<1> DEFINE P(n) == /\ kept[n] \in Seq(Items)
                   /\ \A x : (\E k \in 1..Len(kept[n]) : kept[n][k] = x)
                             <=> (\E k \in 1..n : q[k] = x) /\ x \notin S
           U == {n \in Nat : n <= Len(q) => P(n)}
<1>7. 0 \in U
  <2>1. kept[0] = <<>>
    BY <1>6
  <2>2. kept[0] \in Seq(Items) /\ Len(kept[0]) = 0
    BY <2>1
  <2>3. ~\E k \in 1..0 : TRUE
    OBVIOUS
  <2>4. P(0)
    BY Zenon, <2>2, <2>3
  <2> HIDE DEF P
  <2> QED
    BY Zenon, <2>4
<1>8. ASSUME NEW n \in Nat, n \in U PROVE n + 1 \in U
  <2> SUFFICES ASSUME n + 1 <= Len(q) PROVE P(n + 1)
    OBVIOUS
  <2>1. n \in 0..Len(q) /\ n + 1 \in 1..Len(q) /\ n + 1 \in 0..Len(q) /\ (n + 1) - 1 = n /\ n + 1 # 0
    OBVIOUS
  <2>2. P(n)
    BY <1>8, <2>1
  <2>3. q[n + 1] \in Items
    BY <2>1
  <2>4. kept[n + 1] = IF q[n + 1] \in S THEN kept[n] ELSE Append(kept[n], q[n + 1])
    BY Zenon, <1>6, <2>1
  <2>5. \A x : (\E k \in 1..(n + 1) : q[k] = x) <=> (\E k \in 1..n : q[k] = x) \/ x = q[n + 1]
    OBVIOUS
  <2>6. CASE q[n + 1] \in S
    <3>1. kept[n + 1] = kept[n]
      BY Zenon, <2>4, <2>6
    <3> QED
      BY Zenon, <2>2, <2>5, <2>6, <3>1
  <2>7. CASE q[n + 1] \notin S
    <3>1. kept[n + 1] = Append(kept[n], q[n + 1])
      BY Zenon, <2>4, <2>7
    <3>2. kept[n + 1] \in Seq(Items)
      BY <2>2, <2>3, <3>1
    <3>3. \A x : (\E k \in 1..Len(kept[n + 1]) : kept[n + 1][k] = x)
                 <=> (\E k \in 1..Len(kept[n]) : kept[n][k] = x) \/ x = q[n + 1]
      BY <2>2, <2>3, <3>1
    <3> QED
      BY Zenon, <2>2, <2>5, <2>7, <3>2, <3>3
  <2> QED
    BY Zenon, <2>6, <2>7
<1>9. Len(q) \in U
  <2> HIDE DEF U
  <2>1. Len(q) \in Nat
    OBVIOUS
  <2> QED
    BY Zenon, <1>7, <1>8, <2>1, SetInduction
<1>10. P(Len(q))
  BY <1>9
<1>11. Range(kept[Len(q)]) = {x \in Items : \E k \in 1..Len(q) : q[k] = x} \ S
  BY <1>10 DEF Range
<1>12. Range(q) = {x \in Items : \E k \in 1..Len(q) : q[k] = x}
  BY DEF Range
<1> QED
  BY Zenon, <1>5, <1>10, <1>11, <1>12

\* An appended item joins the queue and displaces none.
LEMMA AppendFacts ==
  ASSUME NEW q \in Seq(Items), NEW i \in Items
  PROVE  Append(q, i) \in Seq(Items) /\ Range(Append(q, i)) = Range(q) \cup {i}
<1> DEFINE s == Append(q, i)
<1>1. /\ s \in Seq(Items)
      /\ DOMAIN s = 1..(Len(q) + 1) /\ DOMAIN q = 1..Len(q) /\ Len(q) \in Nat
      /\ \A n \in 1..Len(q) : s[n] = q[n]
      /\ s[Len(q) + 1] = i
  OBVIOUS
<1> HIDE DEF s
<1>2. \A n \in 1..(Len(q) + 1) : n \in 1..Len(q) \/ n = Len(q) + 1
  BY <1>1
<1>3. Len(q) + 1 \in 1..(Len(q) + 1) /\ \A n \in 1..Len(q) : n \in 1..(Len(q) + 1)
  BY <1>1
<1>4. Range(s) = Range(q) \cup {i}
  BY Zenon, <1>1, <1>2, <1>3 DEF Range
<1> QED
  BY Zenon, <1>1, <1>4 DEF s

\* The elements of two sequences, one behind the other.
LEMMA ConcatFacts ==
  ASSUME NEW R, NEW a \in Seq(R), NEW b \in Seq(R)
  PROVE  /\ a \o b \in Seq(R) /\ Len(a \o b) = Len(a) + Len(b)
         /\ \A n \in 1..(Len(a) + Len(b)) :
               (a \o b)[n] = IF n <= Len(a) THEN a[n] ELSE b[n - Len(a)]
OBVIOUS

\* An inserted item joins the queue and displaces none.
LEMMA InsertFacts ==
  ASSUME NEW q \in Seq(Items), NEW i \in Items
  PROVE  Insert(q, i) \in Seq(Items) /\ Range(Insert(q, i)) = Range(q) \cup {i}
<1> DEFINE same == {n \in DOMAIN q : KeyOf[q[n]] = KeyOf[i]}
<1>1. CASE same = {}
  <2>1. Insert(q, i) = Append(q, i)
    BY Zenon, <1>1 DEF Insert
  <2> QED
    BY Zenon, <2>1, AppendFacts
<1>2. CASE same # {}
  <2> DEFINE m == Max(same)
             a == SubSeq(q, 1, m)
             b == SubSeq(q, m + 1, Len(q))
             c == a \o <<i>>
             s == c \o b
  <2>1. m \in 1..Len(q)
    <3>1. Len(q) \in Nat /\ same \subseteq 1..Len(q)
      OBVIOUS
    <3> QED
      BY Zenon, <1>2, <3>1, MaxIsGreatest
  <2>2. Insert(q, i) = s
    BY Zenon, <1>2 DEF Insert
  <2> HIDE DEF m, same
  <2>3. a \in Seq(Items) /\ Len(a) = m /\ \A n \in 1..m : a[n] = q[n]
    BY <2>1
  <2>4. b \in Seq(Items) /\ Len(b) = Len(q) - m /\ \A n \in 1..(Len(q) - m) : b[n] = q[m + n]
    BY <2>1
  <2> HIDE DEF a, b
  <2>5. c \in Seq(Items) /\ Len(c) = m + 1
    BY <2>1, <2>3
  <2>6. (\A n \in 1..m : c[n] = q[n]) /\ c[m + 1] = i
    BY <2>1, <2>3
  <2> HIDE DEF c
  <2>7. s \in Seq(Items) /\ Len(s) = Len(q) + 1
    <3>1. s \in Seq(Items) /\ Len(s) = Len(c) + Len(b)
      BY Zenon, <2>4, <2>5, ConcatFacts
    <3> QED
      BY <2>1, <2>4, <2>5, <3>1
  <2>8. /\ \A n \in 1..(m + 1) : s[n] = c[n]
        /\ \A n \in (m + 2)..(Len(q) + 1) : s[n] = b[n - (m + 1)]
    <3>1. \A n \in 1..(Len(c) + Len(b)) :
             s[n] = IF n <= Len(c) THEN c[n] ELSE b[n - Len(c)]
      BY Zenon, <2>4, <2>5, ConcatFacts
    <3> QED
      BY <2>1, <2>4, <2>5, <3>1
  <2> HIDE DEF s
  <2>9. /\ \A n \in 1..m : s[n] = q[n]
        /\ s[m + 1] = i
        /\ \A n \in (m + 2)..(Len(q) + 1) : s[n] = q[n - 1]
    <3>1. \A n \in (m + 2)..(Len(q) + 1) :
             n - (m + 1) \in 1..(Len(q) - m) /\ m + (n - (m + 1)) = n - 1
      BY <2>1
    <3>2. \A n \in (m + 2)..(Len(q) + 1) : s[n] = q[n - 1]
      BY Zenon, <2>4, <2>8, <3>1
    <3>3. \A n \in 1..m : n \in 1..(m + 1)
      BY <2>1
    <3>4. m + 1 \in 1..(m + 1)
      BY <2>1
    <3> QED
      BY Zenon, <2>6, <2>8, <3>2, <3>3, <3>4
  <2>10. ASSUME NEW n \in 1..(Len(q) + 1)
         PROVE  s[n] = i \/ \E l \in 1..Len(q) : s[n] = q[l]
    <3>1. CASE n <= m
      BY <2>1, <2>9, <3>1
    <3>2. CASE n = m + 1
      BY Zenon, <2>9, <3>2
    <3>3. CASE n > m + 1
      <4>1. n \in (m + 2)..(Len(q) + 1) /\ n - 1 \in 1..Len(q)
        BY <2>1, <3>3
      <4> QED
        BY Zenon, <2>9, <4>1
    <3> QED
      BY <2>1, <3>1, <3>2, <3>3
  <2>11. ASSUME NEW l \in 1..Len(q)
         PROVE  \E n \in 1..(Len(q) + 1) : s[n] = q[l]
    <3>1. CASE l <= m
      BY <2>1, <2>9, <3>1
    <3>2. CASE l > m
      <4>1. l + 1 \in (m + 2)..(Len(q) + 1) /\ (l + 1) - 1 = l /\ l + 1 \in 1..(Len(q) + 1)
        BY <2>1, <3>2
      <4> QED
        BY Zenon, <2>9, <4>1
    <3> QED
      BY <2>1, <3>1, <3>2
  <2>12. m + 1 \in 1..(Len(q) + 1)
    BY <2>1
  <2>13. DOMAIN s = 1..(Len(q) + 1) /\ DOMAIN q = 1..Len(q)
    BY <2>7
  <2>14. Range(s) = Range(q) \cup {i}
    <3>1. \A x \in Range(s) : x \in Range(q) \cup {i}
      BY Zenon, <2>10, <2>13 DEF Range
    <3>2. \A x \in Range(q) : x \in Range(s)
      BY Zenon, <2>11, <2>13 DEF Range
    <3>3. i \in Range(s)
      BY Zenon, <2>9, <2>12, <2>13 DEF Range
    <3> QED
      BY Zenon, <3>1, <3>2, <3>3
  <2> QED
    BY Zenon, <2>2, <2>7, <2>14
<1> QED
  BY Zenon, <1>1, <1>2

\* A paused item takes the place of the entry of its key, and of no other.
LEMMA PutPausedFacts ==
  ASSUME NEW p \in Seq(Items), NEW i \in Items
  PROVE  /\ PutPaused(p, i) \in Seq(Items)
         /\ Range(PutPaused(p, i)) = {j \in Range(p) : KeyOf[j] # KeyOf[i]} \cup {i}
<1>1. CASE \E n \in DOMAIN p : KeyOf[p[n]] = KeyOf[i]
  <2> DEFINE s == [n \in DOMAIN p |-> IF KeyOf[p[n]] = KeyOf[i] THEN i ELSE p[n]]
  <2>1. PutPaused(p, i) = s
    BY Zenon, <1>1 DEF PutPaused
  <2>2. s \in Seq(Items) /\ DOMAIN s = DOMAIN p
    OBVIOUS
  <2>3. Range(s) = {j \in Range(p) : KeyOf[j] # KeyOf[i]} \cup {i}
    BY Zenon, <1>1 DEF Range
  <2> QED
    BY Zenon, <2>1, <2>2, <2>3
<1>2. CASE ~\E n \in DOMAIN p : KeyOf[p[n]] = KeyOf[i]
  <2>1. PutPaused(p, i) = Append(p, i)
    BY Zenon, <1>2 DEF PutPaused
  <2>2. Range(Append(p, i)) = Range(p) \cup {i}
    BY Zenon, AppendFacts
  <2>3. \A j \in Range(p) : KeyOf[j] # KeyOf[i]
    BY Zenon, <1>2 DEF Range
  <2> QED
    BY <2>1, <2>2, <2>3
<1> QED
  BY Zenon, <1>1, <1>2

\* A sequence without elements is empty.
LEMMA EmptyQueue ==
  ASSUME NEW q \in Seq(Items), Range(q) = {}
  PROVE  q = <<>>
<1>1. ASSUME NEW n \in 1..Len(q) PROVE FALSE
  <2>1. n \in DOMAIN q
    OBVIOUS
  <2> QED
    BY Zenon, <2>1 DEF Range
<1>2. Len(q) = 0
  BY <1>1
<1> QED
  BY <1>2

-----------------------------------------------------------------------------
(* Public delivery records *)

\* An open record can always be ended.
LEMMA Ranks ==
  /\ Terminal \subseteq States
  /\ \A s \in States \ Terminal, t \in Terminal : Rank[t] >= Rank[s]
<1>1. States = {"none", "queued", "started", "resumed", "synthesis_ended", "paused",
                "unknown", "interrupted"}
  BY Zenon DEF States, Rank
<1>2. \A s \in States \ Terminal : Rank[s] \in 0..3
  BY <1>1 DEF Terminal, Rank
<1>3. Rank["unknown"] = 5 /\ Rank["interrupted"] = 7
  BY Zenon DEF Rank
<1> QED
  BY <1>1, <1>2, <1>3 DEF Terminal

\* _emit_progress touches the open records of the named items, no ack's, and ends
\* them all when it is to.
LEMMA EmitFacts ==
  ASSUME NEW rc \in [Items -> States], NEW S, NEW state \in States, NEW open \in BOOLEAN
  PROVE  LET e == Emit(rc, S, state, open)
         IN  /\ e \in [Items -> States]
             /\ \A i \in Items :
                   /\ e[i] = rc[i] \/ e[i] = state
                   /\ i \notin S \/ IsAck(i) \/ rc[i] \in Terminal => e[i] = rc[i]
                   /\ state \in Terminal /\ open /\ i \in S /\ ~IsAck(i) => e[i] \in Terminal
BY Zenon, Ranks DEF Emit

-----------------------------------------------------------------------------
(* The items of a scheduler *)

CallStates == {"idle", "speak", "advance", "doomed", "fail"}

\* What queue, paused, used, record, the lease, call, settled and admitted are to
\* each other in every state, as a predicate of their values: so the proof takes a
\* handler apart into the moves below.
Sound(Q, P, u, rc, a, cl, st, adm) ==
  /\ u \subseteq Items /\ st \subseteq Items
  /\ rc \in [Items -> States] /\ cl \in [Items -> CallStates]
  /\ Q \cup P \cup adm \subseteq u
  /\ Q \cap adm = {} /\ P \subseteq adm
  /\ a = None \/ a \in adm \ P
  /\ \A i \in Items :
        /\ cl[i] # "idle" => i \in adm
        /\ i \notin u => rc[i] = "none"
        /\ cl[i] = "fail" /\ ~IsAck(i) => rc[i] \in Terminal
        /\ i \in u /\ ~IsAck(i) /\ rc[i] \notin Terminal => i \in Q \cup P \cup {a}
        /\ i \in Q \cup {a} /\ ~IsAck(i) => rc[i] \notin Terminal \/ cl[i] = "fail"
        /\ i \in u /\ IsAck(i) => i \in Q \cup adm \cup st
  /\ \A i, j \in Q \cup P \cup ({a} \ {None}) :
        KeyOf[i] = KeyOf[j] /\ ~IsAck(i) => i = j

\* Items D are dropped, from wherever they are, and their records ended.
LEMMA Drop ==
  ASSUME NEW Q, NEW P, NEW u, NEW rc, NEW a, NEW cl, NEW st, NEW adm,
         Sound(Q, P, u, rc, a, cl, st, adm),
         NEW D, D \subseteq Q \cup P \cup ({a} \ {None}),
         NEW state \in Terminal, NEW open \in BOOLEAN,
         open \/ \A i \in D : IsAck(i),
         NEW st2, st2 \subseteq Items, st \cup (Acks(D) \cap Q) \subseteq st2,
         NEW a2, a2 = IF a \in D THEN None ELSE a
  PROVE  Sound(Q \ D, P \ D, u, Emit(rc, D, state, open), a2, cl, st2, adm)
<1> DEFINE e == Emit(rc, D, state, open)
<1>1. rc \in [Items -> States] /\ state \in States
  BY Zenon, Ranks DEF Sound
<1>2. /\ e \in [Items -> States]
      /\ \A i \in Items :
            /\ i \notin D \/ IsAck(i) \/ rc[i] \in Terminal => e[i] = rc[i]
            /\ i \in D /\ ~IsAck(i) => e[i] \in Terminal
  BY <1>1, EmitFacts
<1> HIDE DEF e
<1>3. None \notin Items
  BY Zenon, SchedulerAssumption
<1>4. Sound(Q \ D, P \ D, u, e, a2, cl, st2, adm)
  BY Zenon, <1>2, <1>3 DEF Sound, Acks
<1> QED
  BY Zenon, <1>4 DEF e

\* Queued item i is given the slot.
LEMMA Admit ==
  ASSUME NEW Q, NEW P, NEW u, NEW rc, NEW cl, NEW st, NEW adm,
         Sound(Q, P, u, rc, None, cl, st, adm),
         NEW i \in Q, NEW open \in BOOLEAN, NEW how \in CallStates \ {"fail"},
         NEW state \in States \ Terminal
  PROVE  Sound(Q \ {i}, P, u, Emit(rc, {i}, state, open), i,
               [cl EXCEPT ![i] = how], st, adm \cup {i})
<1> DEFINE e == Emit(rc, {i}, state, open)
<1>1. rc \in [Items -> States] /\ i \in Items
  BY Zenon DEF Sound
<1>2. /\ e \in [Items -> States]
      /\ \A j \in Items :
            /\ e[j] = rc[j] \/ e[j] = state
            /\ j # i \/ IsAck(j) \/ rc[j] \in Terminal => e[j] = rc[j]
  BY <1>1, EmitFacts
<1> HIDE DEF e
<1>3. None \notin Items
  BY Zenon, SchedulerAssumption
<1>4. Sound(Q \ {i}, P, u, e, i, [cl EXCEPT ![i] = how], st, adm \cup {i})
  BY Zenon, <1>1, <1>2, <1>3 DEF Sound
<1> QED
  BY Zenon, <1>4 DEF e

\* New item i is queued; no other speech of its work item is held.
LEMMA Enqueue ==
  ASSUME NEW Q, NEW P, NEW u, NEW rc, NEW a, NEW cl, NEW st, NEW adm,
         Sound(Q, P, u, rc, a, cl, st, adm),
         NEW i \in Items \ u, NEW open \in BOOLEAN, NEW state \in States \ Terminal,
         IsAck(i) \/ \A j \in Q \cup P \cup ({a} \ {None}) : KeyOf[j] # KeyOf[i]
  PROVE  Sound(Q \cup {i}, P, u \cup {i}, Emit(rc, {i}, state, open), a, cl, st, adm)
<1> DEFINE e == Emit(rc, {i}, state, open)
<1>1. rc \in [Items -> States]
  BY Zenon DEF Sound
<1>2. /\ e \in [Items -> States]
      /\ \A j \in Items :
            /\ e[j] = rc[j] \/ e[j] = state
            /\ j # i \/ IsAck(j) \/ rc[j] \in Terminal => e[j] = rc[j]
  BY <1>1, EmitFacts
<1> HIDE DEF e
<1>3. None \notin Items /\ \A j, k \in Items : KeyOf[j] = KeyOf[k] => (IsAck(j) <=> IsAck(k))
  BY Zenon, SchedulerAssumption DEF IsAck
<1>4. "none" \notin Terminal
  BY Zenon DEF Terminal
<1>5. Sound(Q \cup {i}, P, u \cup {i}, e, a, cl, st, adm)
  BY <1>2, <1>3, <1>4 DEF Sound
<1> QED
  BY Zenon, <1>5 DEF e

\* The lease is paused.  Only acks of the same key can lose their place to it.
LEMMA PauseLease ==
  ASSUME NEW Q, NEW P, NEW u, NEW rc, NEW a \in Items, NEW cl, NEW st, NEW adm,
         Sound(Q, P, u, rc, a, cl, st, adm),
         NEW open \in BOOLEAN, NEW state \in States \ Terminal
  PROVE  Sound(Q, {i \in P : KeyOf[i] # KeyOf[a]} \cup {a}, u,
               Emit(rc, {a}, state, open), None, cl, st, adm)
<1> DEFINE e == Emit(rc, {a}, state, open)
<1>1. rc \in [Items -> States]
  BY Zenon DEF Sound
<1>2. /\ e \in [Items -> States]
      /\ \A j \in Items :
            /\ e[j] = rc[j] \/ e[j] = state
            /\ j # a \/ IsAck(j) \/ rc[j] \in Terminal => e[j] = rc[j]
  BY <1>1, EmitFacts
<1> HIDE DEF e
<1>3. None \notin Items /\ \A j, k \in Items : KeyOf[j] = KeyOf[k] => (IsAck(j) <=> IsAck(k))
  BY Zenon, SchedulerAssumption DEF IsAck
<1>4. Sound(Q, {i \in P : KeyOf[i] # KeyOf[a]} \cup {a}, u, e, None, cl, st, adm)
  BY <1>2, <1>3 DEF Sound
<1> QED
  BY Zenon, <1>4 DEF e

\* The records of held items move on.
LEMMA Progress ==
  ASSUME NEW Q, NEW P, NEW u, NEW rc, NEW a \in Items, NEW cl, NEW st, NEW adm,
         Sound(Q, P, u, rc, a, cl, st, adm),
         NEW open \in BOOLEAN, NEW state \in States \ Terminal
  PROVE  Sound(Q, P, u, Emit(rc, {a}, state, open), a, cl, st, adm)
<1> DEFINE e == Emit(rc, {a}, state, open)
<1>1. rc \in [Items -> States]
  BY Zenon DEF Sound
<1>2. /\ e \in [Items -> States]
      /\ \A j \in Items :
            /\ e[j] = rc[j] \/ e[j] = state
            /\ j # a \/ IsAck(j) \/ rc[j] \in Terminal => e[j] = rc[j]
  BY <1>1, EmitFacts
<1> HIDE DEF e
<1>3. None \notin Items
  BY Zenon, SchedulerAssumption
<1>4. Sound(Q, P, u, e, a, cl, st, adm)
  BY Zenon, <1>2, <1>3 DEF Sound
<1> QED
  BY Zenon, <1>4 DEF e

\* speak raised for item i.
LEMMA Raise ==
  ASSUME NEW Q, NEW P, NEW u, NEW rc, NEW a, NEW cl, NEW st, NEW adm,
         Sound(Q, P, u, rc, a, cl, st, adm),
         NEW i \in Items, cl[i] # "idle",
         NEW open \in BOOLEAN, NEW state \in Terminal,
         open \/ i \notin Q \cup P \cup {a} \/ IsAck(i)
  PROVE  Sound(Q, P, u, Emit(rc, {i}, state, open), a, [cl EXCEPT ![i] = "fail"], st, adm)
<1> DEFINE e == Emit(rc, {i}, state, open)
<1>1. rc \in [Items -> States] /\ state \in States
  BY Zenon, Ranks DEF Sound
<1>2. /\ e \in [Items -> States]
      /\ \A j \in Items :
            /\ e[j] = rc[j] \/ e[j] = state
            /\ j # i \/ IsAck(j) \/ rc[j] \in Terminal => e[j] = rc[j]
            /\ j = i /\ open /\ ~IsAck(j) => e[j] \in Terminal
  BY SMTT(60), <1>1, EmitFacts
<1> HIDE DEF e
<1>3. ~IsAck(i) => e[i] \in Terminal
  BY Zenon, <1>2 DEF Sound
<1>4. "fail" \in CallStates
  BY Zenon DEF CallStates
<1>5. Sound(Q, P, u, e, a, [cl EXCEPT ![i] = "fail"], st, adm)
  BY Zenon, <1>2, <1>3, <1>4 DEF Sound
<1> QED
  BY Zenon, <1>5 DEF e

\* The call of item i ends: a failed one gives the lease up.
LEMMA EndCall ==
  ASSUME NEW Q, NEW P, NEW u, NEW rc, NEW a, NEW cl, NEW st, NEW adm,
         Sound(Q, P, u, rc, a, cl, st, adm),
         NEW i \in Items, cl[i] # "idle",
         NEW a2, a2 = IF a = i /\ cl[i] = "fail" THEN None ELSE a
  PROVE  Sound(Q, P, u, rc, a2, [cl EXCEPT ![i] = "idle"], st, adm)
<1>1. None \notin Items /\ "idle" \in CallStates
  BY Zenon, SchedulerAssumption DEF CallStates
<1> QED
  BY Zenon, <1>1 DEF Sound

\* What start_next did with queue q: the lease and the slot are as they were given to
\* it, or both belong to an item that it admitted.
Started(q, P, u, lease, holder) ==
  /\ queue' \in Seq(Items) /\ Range(queue') \subseteq Range(q)
  /\ Sound(Range(queue'), P, u, record', active', call', settled', admitted')
  /\ admitted \subseteq admitted'
  /\ \/ active' = lease /\ slot' = holder /\ call' = call
     \/ /\ lease = None /\ holder = None
        /\ active' \in Range(q) \ admitted /\ slot' = active' /\ active' \in admitted'
        /\ ~Rejected(active')

\* start_next keeps the items' accounts, whatever it drops on its way.
LEMMA StartNextKeeps ==
  ASSUME NEW ks, NEW q \in Seq(Items), NEW P, NEW u, NEW rc, NEW lease, NEW holder,
         NEW how \in {"speak", "advance"},
         Sound(Range(q), P, u, rc, lease, call, settled, admitted),
         \A i \in Range(q) : Open \/ IsAck(i),
         StartNext(ks, q, rc, lease, holder, how)
  PROVE  Started(q, P, u, lease, holder)
<1> DEFINE scan == {n \in DOMAIN q : KeyOf[q[n]] \in ks}
           live == {n \in scan : ~Rejected(q[n])}
           dropped == {q[n] : n \in {m \in scan : \A l \in live : m < l}}
           fallen == Emit(rc, dropped, "unknown", Open)
           i == q[Min(live)]
<1>1. CASE lease # None \/ holder # None
  <2>1. /\ queue' = q /\ record' = rc /\ active' = lease /\ slot' = holder
        /\ settled' = settled /\ call' = call /\ admitted' = admitted
    BY Zenon, <1>1 DEF StartNext
  <2> QED
    BY Zenon, <2>1 DEF Started
<1>2. CASE lease = None /\ holder = None
  <2>1. settled' = settled \cup Acks(dropped)
    BY Zenon, <1>2 DEF StartNext
  <2>2. dropped \subseteq Range(q)
    BY Zenon DEF Range
  <2>3. Sound(Range(q) \ dropped, P, u, fallen, None, call, settled', admitted)
    <3> HIDE DEF dropped, live, scan
    <3>1. Sound(Range(q), P, u, rc, None, call, settled, admitted)
      BY Zenon, <1>2
    <3>2. dropped \subseteq Range(q) \cup P \cup ({None} \ {None})
      BY Zenon, <2>2
    <3>3. "unknown" \in Terminal /\ Open \in BOOLEAN /\ (Open \/ \A j \in dropped : IsAck(j))
      BY Zenon, <2>2 DEF Terminal, Open
    <3>4. settled' \subseteq Items /\ settled \cup (Acks(dropped) \cap Range(q)) \subseteq settled'
      BY Zenon, <2>1, <2>2, <3>1 DEF Acks, Sound
    <3>5. Sound(Range(q) \ dropped, P \ dropped, u, fallen, None, call, settled', admitted)
      BY Zenon, <3>1, <3>2, <3>3, <3>4, Drop
    <3>6. P \ dropped = P
      BY Zenon, <2>2, <3>1 DEF Sound
    <3> QED
      BY Zenon, <3>5, <3>6
  <2>4. CASE live = {}
    <3>1. /\ queue' = Without(q, dropped) /\ record' = fallen
          /\ active' = None /\ slot' = None /\ call' = call /\ admitted' = admitted
      BY Zenon, <1>2, <2>4 DEF StartNext
    <3> HIDE DEF dropped, fallen
    <3>2. queue' \in Seq(Items) /\ Range(queue') = Range(q) \ dropped
      BY Zenon, <3>1, WithoutFacts
    <3> QED
      BY Zenon, <1>2, <2>3, <3>1, <3>2 DEF Started
  <2>5. CASE live # {}
    <3> DEFINE place == IF Acceptable THEN how ELSE "doomed"
    <3>1. /\ queue' = Without(q, dropped \cup {i})
          /\ record' = Emit(fallen, {i}, "started", Open)
          /\ active' = i /\ slot' = i
          /\ admitted' = admitted \cup {i}
          /\ call' = [call EXCEPT ![i] = place]
      BY Zenon, <1>2, <2>5 DEF StartNext
    <3>2. Min(live) \in live /\ \A n \in live : Min(live) <= n
      <4>1. live \subseteq Nat
        OBVIOUS
      <4> QED
        BY Zenon, <2>5, <4>1, MinIsLeast
    <3>3. i \in Range(q) /\ ~Rejected(i)
      BY Zenon, <3>2 DEF Range
    <3>4. i \notin dropped
      <4> SUFFICES ASSUME NEW m \in scan, \A l \in live : m < l, q[m] = i PROVE FALSE
        BY Zenon
      <4>1. m \in live
        BY Zenon, <3>3
      <4> QED
        BY <4>1
    <3> HIDE DEF dropped, fallen, i, scan, live, place
    <3>5. queue' \in Seq(Items) /\ Range(queue') = (Range(q) \ dropped) \ {i}
      BY <3>1, WithoutFacts
    <3>6. place \in CallStates \ {"fail"} /\ Open \in BOOLEAN /\ "started" \in States \ Terminal
      BY Zenon DEF place, CallStates, Open, States, Rank, Terminal
    <3>7. Sound((Range(q) \ dropped) \ {i}, P, u, record', i, call', settled', admitted')
      BY Zenon, <2>3, <3>1, <3>3, <3>4, <3>6, Admit
    <3>8. i \notin admitted
      BY Zenon, <2>3, <3>3, <3>4 DEF Sound
    <3> QED
      BY Zenon, <1>2, <3>1, <3>3, <3>5, <3>7, <3>8 DEF Started
  <2> QED
    BY Zenon, <2>4, <2>5
<1> QED
  BY Zenon, <1>1, <1>2

-----------------------------------------------------------------------------
(* The inductive invariant *)

\* A lease is the slot's, and not interrupted; the slot's holder was admitted.
LeaseAgrees ==
  /\ active # None => slot = active /\ ~stopped
  /\ slot # None => slot \in admitted

\* A lane that lost its connection, or is being closed, has been swept.
LaneAgrees ==
  /\ epoch # "current" => discarded
  /\ discarded => ~up
  /\ shutdown = "closing" => discarded

\* RecordsAgree, SpeechOnce and AcksAccountedFor are consequences of Sound, which adds
\* where an item can be at all: the queue, _paused and the lease hold different
\* items, only admitted ones have a call under way.
IInv ==
  /\ TypeOK
  /\ Sound(Queued, Paused, used, record, active, call, settled, admitted)
  /\ LeaseAgrees
  /\ LaneAgrees
  /\ DiscardedForGood

\* Queue, records, lease and slot as a caller hands them to start_next.
Handed(q, rc, lease, holder) ==
  /\ q \in Seq(Items) /\ paused' \in Seq(Items)
  /\ Sound(Range(q), Range(paused'), used', rc, lease, call, settled, admitted)
  /\ lease \in {None, active} /\ holder \in {None, slot}
  /\ lease # None => holder = slot
  /\ discarded => (\A i \in Range(q) : IsAck(i)) /\ paused' = <<>>
  /\ advances' \subseteq advances /\ notify' \subseteq notify
  /\ UNCHANGED <<discarded, closed, hostVars>>

\* A handler that ends in start_next keeps the invariant.
LEMMA StartStep ==
  ASSUME IInv,
         NEW ks, NEW q, NEW rc, NEW lease, NEW holder, NEW how \in {"speak", "advance"},
         Handed(q, rc, lease, holder),
         StartNext(ks, q, rc, lease, holder, how),
         Refresh
  PROVE  IInv'
<1>1. Started(q, Range(paused'), used', lease, holder)
  <2>1. \A i \in Range(q) : Open \/ IsAck(i)
    BY Zenon DEF IInv, LaneAgrees, Handed, Open
  <2> QED
    BY Zenon, <2>1, StartNextKeeps DEF Handed
<1>2. None \notin Items
  BY Zenon, SchedulerAssumption
<1>3. Sound(Queued, Paused, used, record, active, call, settled, admitted)'
  BY Zenon, <1>1 DEF Started, Queued, Paused
<1>4. active' \in Items \cup {None} /\ slot' \in Items \cup {None}
  BY <1>1 DEF Started, Handed, Sound, IInv, TypeOK
<1>5. TypeOK'
  BY Zenon, <1>1, <1>4 DEF Started, Handed, Sound, CallStates, IInv, TypeOK, hostVars, Refresh
<1>6. LeaseAgrees'
  <2>1. CASE active' = lease /\ slot' = holder
    BY Zenon, <1>1, <2>1 DEF Started, Handed, IInv, LeaseAgrees, Refresh
  <2>2. CASE active' \in Range(q) \ admitted /\ slot' = active' /\ active' \in admitted'
    <3>1. active' # None
      BY Zenon, <1>2, <2>2 DEF Handed, Sound
    <3>2. slot' # slot
      BY Zenon, <2>2, <3>1 DEF IInv, LeaseAgrees
    <3> QED
      BY Zenon, <2>2, <3>2 DEF LeaseAgrees, Refresh
  <2> QED
    BY Zenon, <1>1, <2>1, <2>2 DEF Started
<1>7. LaneAgrees'
  BY Zenon DEF Handed, IInv, LaneAgrees, hostVars
<1>8. DiscardedForGood'
  <2> SUFFICES ASSUME discarded
               PROVE  DiscardedForGood'
    BY Zenon DEF Handed, DiscardedForGood
  <2>1. ~Acceptable /\ \A i \in Range(q) : IsAck(i)
    BY Zenon DEF IInv, LaneAgrees, Handed, Acceptable
  <2>2. active' = lease /\ call' = call
    BY Zenon, <1>1, <2>1 DEF Started, Rejected
  <2>3. active' = None /\ paused' = <<>> /\ advances' = {}
    BY Zenon, <2>2 DEF Handed, IInv, DiscardedForGood
  <2>4. Range(queue') = {i \in Range(queue') : IsAck(i)}
    BY Zenon, <1>1, <2>1 DEF Started
  <2>5. \A i \in Items : call'[i] # "advance"
    BY Zenon, <2>2 DEF IInv, DiscardedForGood
  <2> QED
    BY Zenon, <2>3, <2>4, <2>5 DEF DiscardedForGood, Queued, Acks
<1> QED
  BY Zenon, <1>3, <1>5, <1>6, <1>7, <1>8 DEF IInv

-----------------------------------------------------------------------------
(* Handlers that end in start_next *)

\* _commit_and_speak: a turn's result or notice joins the queue and its key is probed.
LEMMA CommitAndSpeakKeeps ==
  ASSUME IInv, NEW i \in Items, CommitAndSpeak(i)
  PROVE  IInv'
<1> DEFINE rc == Emit(record, {i}, "queued", Open)
           q == Insert(queue, i)
<1>1. q \in Seq(Items) /\ Range(q) = Queued \cup {i}
  BY Zenon, InsertFacts DEF IInv, TypeOK, Queued
<1>2. Sound(Range(q), Paused, used', rc, active, call, settled, admitted)
  <2>1. i \in Items \ used /\ Open \in BOOLEAN /\ "queued" \in States \ Terminal
    BY Zenon DEF CommitAndSpeak, Open, States, Rank, Terminal
  <2>2. \A j \in Queued \cup Paused \cup ({active} \ {None}) : KeyOf[j] # KeyOf[i]
    BY Zenon DEF CommitAndSpeak, IInv, Sound
  <2>3. Sound(Queued, Paused, used, record, active, call, settled, admitted)
    BY Zenon DEF IInv
  <2>4. used' = used \cup {i}
    BY Zenon DEF CommitAndSpeak
  <2>5. Sound(Queued \cup {i}, Paused, used \cup {i}, rc, active, call, settled, admitted)
    BY Zenon, <2>1, <2>2, <2>3, Enqueue
  <2> HIDE DEF q, rc
  <2> QED
    BY Zenon, <1>1, <2>4, <2>5
<1>3. ~discarded
  BY Zenon DEF CommitAndSpeak, Acceptable, IInv, LaneAgrees
<1>4. StartNext({KeyOf[i]}, q, rc, active, slot, "speak") /\ Refresh
  BY Zenon DEF CommitAndSpeak
<1> HIDE DEF q, rc
<1>5. Handed(q, rc, active, slot)
  BY Zenon, <1>1, <1>2, <1>3 DEF CommitAndSpeak, Handed, Paused, IInv, TypeOK
<1> QED
  BY Zenon, <1>4, <1>5, StartStep

\* resume: a paused item is replayed as a fresh utterance of its work item.
LEMMA ResumeKeeps ==
  ASSUME IInv, NEW i \in Items, NEW j \in Items, Resume(i, j)
  PROVE  IInv'
<1> DEFINE ended == Emit(record, {i}, "interrupted", Open)
           rc == Emit(ended, {j}, "resumed", Open)
           q == Insert(queue, j)
<1>1. q \in Seq(Items) /\ Range(q) = Queued \cup {j}
  BY Zenon, InsertFacts DEF IInv, TypeOK, Queued
<1>2. paused' \in Seq(Items) /\ Range(paused') = Paused \ {i}
  BY Zenon, WithoutFacts DEF Resume, Unpause, IInv, TypeOK, Paused
<1>3. i \in Paused /\ ~discarded
  <2>1. Paused # {} => paused # <<>>
    BY DEF Paused, Range
  <2> QED
    BY Zenon, <2>1 DEF Resume, IInv, DiscardedForGood
<1>4. Open = TRUE
  BY Zenon, <1>3 DEF IInv, LaneAgrees, Open
<1>5. Sound(Queued, Paused, used, record, active, call, settled, admitted)
  BY Zenon DEF IInv
<1>6. Sound(Queued, Paused \ {i}, used, ended, active, call, settled, admitted)
  <2>1. "interrupted" \in Terminal /\ settled \subseteq Items
    BY Zenon, <1>5 DEF Terminal, Sound
  <2>2. i \notin Queued /\ active # i
    BY Zenon, <1>3, <1>5, SchedulerAssumption DEF Sound
  <2>3. {i} \subseteq Queued \cup Paused \cup ({active} \ {None})
    BY Zenon, <1>3
  <2>4. settled \cup (Acks({i}) \cap Queued) \subseteq settled
    BY Zenon, <2>2 DEF Acks
  <2>5. active = IF active \in {i} THEN None ELSE active
    BY Zenon, <2>2
  <2>6. Sound(Queued \ {i}, Paused \ {i}, used, ended, active, call, settled, admitted)
    BY Zenon, <1>4, <1>5, <2>1, <2>3, <2>4, <2>5, Drop
  <2>7. Queued \ {i} = Queued
    BY Zenon, <2>2
  <2> QED
    BY Zenon, <2>6, <2>7
<1> HIDE DEF ended
<1>7. Sound(Range(q), Paused \ {i}, used', rc, active, call, settled, admitted)
  <2>1. j \in Items \ used /\ "resumed" \in States \ Terminal /\ used' = used \cup {j}
    BY Zenon DEF Resume, States, Rank, Terminal
  <2>2. \A k \in Queued \cup (Paused \ {i}) \cup ({active} \ {None}) : KeyOf[k] # KeyOf[j]
    BY Zenon, <1>3, <1>5 DEF Resume, Sound
  <2>3. Sound(Queued \cup {j}, Paused \ {i}, used \cup {j}, rc, active, call, settled, admitted)
    BY Zenon, <1>4, <1>6, <2>1, <2>2, Enqueue
  <2> HIDE DEF q, rc
  <2> QED
    BY Zenon, <1>1, <2>1, <2>3
<1>8. StartNext({KeyOf[j]}, q, rc, active, slot, "speak") /\ Refresh
  BY Zenon DEF Resume, ended
<1> HIDE DEF q, rc
<1>9. Handed(q, rc, active, slot)
  BY Zenon, <1>1, <1>2, <1>3, <1>7 DEF Resume, Handed
<1> QED
  BY Zenon, <1>8, <1>9, StartStep

\* The queue, the records, the lease and the slot as they are.
LEMMA HandedAsIs ==
  ASSUME IInv, UNCHANGED <<used, paused, discarded, closed, hostVars>>,
         advances' \subseteq advances, notify' \subseteq notify
  PROVE  Handed(queue, record, active, slot)
<1>1. \A i \in Queued : discarded => IsAck(i)
  BY Zenon DEF IInv, DiscardedForGood, Acks
<1> QED
  BY Zenon, <1>1 DEF IInv, TypeOK, DiscardedForGood, Handed, Queued, Paused

\* admit_ack probes the key of an ack that was enqueued.
LEMMA AdmitAckKeeps ==
  ASSUME IInv, NEW k, AdmitAck(k)
  PROVE  IInv'
<1>1. Handed(queue, record, active, slot)
  BY Zenon, HandedAsIs DEF AdmitAck
<1>2. StartNext({k}, queue, record, active, slot, "speak") /\ Refresh
  BY Zenon DEF AdmitAck
<1> QED
  BY Zenon, <1>1, <1>2, StartStep

\* The scheduled probe of the first other key.
LEMMA AdvanceKeeps ==
  ASSUME IInv, NEW i, Advance(i)
  PROVE  IInv'
<1>1. Handed(queue, record, active, slot)
  BY Zenon, HandedAsIs DEF Advance
<1>2. PICK ks : StartNext(ks, queue, record, active, slot, "advance")
  BY Zenon DEF Advance
<1>3. Refresh
  BY Zenon DEF Advance
<1> QED
  BY Zenon, <1>1, <1>2, <1>3, StartStep

\* on_terminal, when a lease that stays has its slot.
LEMMA OnTerminalKeeps ==
  ASSUME IInv, NEW i, NEW unknown \in BOOLEAN, NEW holder \in {None, slot},
         OnTerminal(i, unknown, holder),
         holder = slot \/ (i = slot /\ unknown = ~stopped),
         UNCHANGED <<used, paused, discarded, closed, hostVars>>,
         advances' \subseteq advances, notify' \subseteq notify
  PROVE  IInv'
<1> DEFINE mine == epoch = "current" /\ unknown /\ active = i
           lease == IF mine THEN None ELSE active
           rc == IF mine THEN Emit(record, {i}, "unknown", Open) ELSE record
<1>1. Handed(queue, record, active, slot)
  BY Zenon, HandedAsIs
<1>2. PICK ks : StartNext(ks, queue, rc, lease, holder, "speak")
  BY Zenon DEF OnTerminal
<1>3. Refresh
  BY Zenon DEF OnTerminal
<1>4. lease # None => holder = slot
  BY Zenon DEF IInv, LeaseAgrees, LaneAgrees, DiscardedForGood
<1>5. Sound(Queued, Paused, used, rc, lease, call, settled, admitted)
  <2>1. Sound(Queued, Paused, used, record, active, call, settled, admitted)
    BY Zenon DEF IInv
  <2>2. CASE mine /\ active # None
    <3>1. active \notin Queued /\ active \notin Paused
      BY Zenon, <2>1, <2>2 DEF Sound
    <3>2. "unknown" \in Terminal /\ settled \subseteq Items /\ Open = TRUE
      BY Zenon, <2>1, <2>2 DEF Terminal, Sound, Open
    <3>3. {active} \subseteq Queued \cup Paused \cup ({active} \ {None})
      BY Zenon, <2>2
    <3>4. settled \cup (Acks({active}) \cap Queued) \subseteq settled
      BY Zenon, <3>1 DEF Acks
    <3>5. None = IF active \in {active} THEN None ELSE active
      BY Zenon
    <3>6. Sound(Queued \ {active}, Paused \ {active}, used,
                Emit(record, {active}, "unknown", Open), None, call, settled, admitted)
      BY Zenon, <2>1, <3>2, <3>3, <3>4, <3>5, Drop
    <3>7. Queued \ {active} = Queued /\ Paused \ {active} = Paused
      BY Zenon, <3>1
    <3> QED
      BY Zenon, <2>2, <3>6, <3>7
  <2>3. CASE mine /\ active = None
    <3>1. record \in [Items -> States] /\ "unknown" \in States /\ Open \in BOOLEAN
      BY Zenon, <2>1 DEF Sound, States, Rank, Open
    <3>2. \A j \in Items : rc[j] = record[j]
      BY Zenon, <2>3, SchedulerAssumption DEF Emit
    <3>3. rc = record
      BY Zenon, <2>3, <3>1, <3>2 DEF Emit
    <3> QED
      BY Zenon, <2>1, <2>3, <3>3
  <2>4. CASE ~mine
    BY Zenon, <2>1, <2>4
  <2> QED
    BY Zenon, <2>2, <2>3, <2>4
<1> HIDE DEF rc
<1>6. Handed(queue, rc, lease, holder)
  <2>1. lease \in {None, active}
    BY Zenon
  <2> HIDE DEF lease
  <2> QED
    BY Zenon, <1>1, <1>4, <1>5, <2>1 DEF Handed, Queued, Paused
<1> HIDE DEF lease
<1> QED
  BY Zenon, <1>2, <1>3, <1>6, StartStep

\* The slot's holder leaves, and the whole queue is probed for the free slot.
LEMMA SettleKeeps ==
  ASSUME IInv, Settle
  PROVE  IInv'
<1>1. (~stopped) \in BOOLEAN
  BY Zenon
<1> QED
  BY Zenon, <1>1, OnTerminalKeeps DEF Settle

\* The delayed on_terminal call of a generation the scheduler released itself.
LEMMA NotifyKeeps ==
  ASSUME IInv, NEW i, Notify(i)
  PROVE  IInv'
BY Zenon, OnTerminalKeeps DEF Notify

-----------------------------------------------------------------------------
(* Handlers that admit nothing *)

\* Such a handler keeps the invariant when it keeps the items' accounts, does not
\* touch the slot of a lease that stays, and adds nothing but acks to a discarded
\* scheduler.
QuietStep ==
  /\ queue' \in Seq(Items) /\ paused' \in Seq(Items)
  /\ Sound(Range(queue'), Range(paused'), used', record', active', call', settled', admitted')
  /\ active' \in {None, active} /\ slot' \in {None, slot}
  /\ bound' \in BOOLEAN /\ stopped' \in BOOLEAN
  /\ active' # None => slot' = slot /\ stopped' = stopped
  /\ advances' \subseteq Items /\ notify' \subseteq Items
  /\ admitted' = admitted
  /\ discarded => /\ \A i \in Range(queue') : IsAck(i)
                  /\ Range(paused') \subseteq Paused
                  /\ advances' \subseteq advances
                  /\ \A i \in Items : call'[i] = "advance" => call[i] = "advance"
  /\ UNCHANGED <<discarded, closed, hostVars>>

\* A step that leaves the leases and the slot alone, and only loses or reorders queued work.
LEMMA QuietKeeps ==
  ASSUME IInv, QuietStep
  PROVE  IInv'
<1>1. Sound(Queued, Paused, used, record, active, call, settled, admitted)'
  BY Zenon DEF QuietStep, Queued, Paused
<1>2. TypeOK'
  BY ZenonT(60) DEF QuietStep, Sound, CallStates, IInv, TypeOK, hostVars
<1>3. LeaseAgrees'
  BY Zenon DEF QuietStep, IInv, LeaseAgrees
<1>4. LaneAgrees'
  BY Zenon DEF QuietStep, IInv, LaneAgrees, hostVars
<1>5. DiscardedForGood'
  <2> SUFFICES ASSUME discarded
               PROVE  DiscardedForGood'
    BY Zenon DEF QuietStep, DiscardedForGood
  <2>1. Paused = {}
    BY DEF IInv, DiscardedForGood, Paused, Range
  <2>2. paused' = <<>>
    BY Zenon, <2>1, EmptyQueue DEF QuietStep
  <2>3. active' = None /\ advances' = {} /\ \A i \in Items : call'[i] # "advance"
    BY Zenon DEF QuietStep, IInv, DiscardedForGood
  <2>4. Range(queue') = {i \in Range(queue') : IsAck(i)}
    BY Zenon DEF QuietStep
  <2> QED
    BY Zenon, <2>2, <2>3, <2>4 DEF DiscardedForGood, Queued, Acks
<1> QED
  BY Zenon, <1>1, <1>2, <1>3, <1>4, <1>5 DEF IInv

\* Acks have no public record.
LEMMA AcksInvisible ==
  ASSUME NEW rc \in [Items -> States], NEW S, \A i \in S : IsAck(i), NEW state, NEW open
  PROVE  Emit(rc, S, state, open) = rc
BY Zenon DEF Emit

\* What a discarded scheduler still has is acks, and the epoch fence only closes
\* behind a discarded one.
LEMMA Remains ==
  ASSUME IInv
  PROVE  /\ Sound(Queued, Paused, used, record, active, call, settled, admitted)
         /\ queue \in Seq(Items) /\ paused \in Seq(Items)
         /\ discarded => (\A i \in Queued : IsAck(i)) /\ Paused = {} /\ active = None
         /\ Open \in BOOLEAN /\ (~Open => discarded)
         /\ None \notin Items
<1>1. Paused # {} => paused # <<>>
  BY DEF Paused, Range
<1>2. discarded => (\A i \in Queued : IsAck(i)) /\ Paused = {} /\ active = None
  BY Zenon, <1>1 DEF IInv, DiscardedForGood, Acks
<1> QED
  BY Zenon, <1>2, SchedulerAssumption DEF IInv, TypeOK, LaneAgrees, Open

\* pause moves the leased item to the paused ones, so it is in one place still.
LEMMA PauseKeeps ==
  ASSUME IInv, Pause
  PROVE  IInv'
<1>0. /\ Sound(Queued, Paused, used, record, active, call, settled, admitted)
      /\ queue \in Seq(Items) /\ paused \in Seq(Items)
      /\ ~discarded /\ Open \in BOOLEAN /\ active \in Items
  BY Zenon, Remains DEF Pause, IInv, TypeOK
<1>1. /\ paused' \in Seq(Items)
      /\ Range(paused') = {i \in Paused : KeyOf[i] # KeyOf[active]} \cup {active}
  BY Zenon, <1>0, PutPausedFacts DEF Pause, Paused
<1>2. Sound(Queued, Range(paused'), used, record', None, call, settled, admitted)
  <2>1. "paused" \in States \ Terminal
    BY Zenon DEF States, Rank, Terminal
  <2>2. record' = Emit(record, {active}, "paused", Open)
    BY Zenon DEF Pause
  <2> QED
    BY SMTT(60), <1>0, <1>1, <2>1, <2>2, PauseLease
<1>3. active' = None /\ bound' \in BOOLEAN /\ stopped' \in BOOLEAN
  BY Zenon DEF Pause, StopLease, IInv, TypeOK
<1>4. QuietStep
  BY Zenon, <1>0, <1>1, <1>2, <1>3 DEF Pause, QuietStep, Queued, IInv, TypeOK
<1> QED
  BY Zenon, <1>4, QuietKeeps

\* resume of a paused ack drops it.
LEMMA ResumeAckKeeps ==
  ASSUME IInv, NEW i \in Items, ResumeAck(i)
  PROVE  IInv'
<1>0. /\ Sound(Queued, Paused, used, record, active, call, settled, admitted)
      /\ queue \in Seq(Items) /\ paused \in Seq(Items)
      /\ discarded => \A j \in Queued : IsAck(j)
      /\ None \notin Items
  BY Zenon, Remains
<1>1. paused' \in Seq(Items) /\ Range(paused') = Paused \ {i}
  BY Zenon, <1>0, WithoutFacts DEF ResumeAck, Unpause, Paused
<1>2. IsAck(i) /\ settled' = settled \cup {i}
  BY Zenon DEF ResumeAck, Acks
<1>3. Sound(Queued, Paused \ {i}, used, record, active, call, settled', admitted)
  BY Zenon, <1>0, <1>2 DEF Sound
<1>4. QuietStep
  BY Zenon, <1>0, <1>1, <1>3 DEF ResumeAck, QuietStep, Queued, IInv, TypeOK, leaseVars, slotVars
<1> QED
  BY Zenon, <1>4, QuietKeeps

\* cancel sweeps what waits for a work item, or for all, and stops what is spoken for it.
LEMMA CancelKeeps ==
  ASSUME IInv, NEW ks, Cancel(ks)
  PROVE  IInv'
<1> DEFINE swept == {i \in Queued \cup Paused : KeyOf[i] \in ks}
           stop == {i \in {active} \ {None} : KeyOf[i] \in ks}
           D == swept \cup stop
<1>0. /\ Sound(Queued, Paused, used, record, active, call, settled, admitted)
      /\ queue \in Seq(Items) /\ paused \in Seq(Items)
      /\ discarded => (\A j \in Queued : IsAck(j)) /\ Paused = {} /\ active = None
      /\ Open \in BOOLEAN /\ (~Open => discarded)
      /\ None \notin Items
  BY Zenon, Remains
<1>1. /\ queue' = Without(queue, swept) /\ paused' = Without(paused, swept)
      /\ record' = Emit(record, D, "interrupted", Open)
      /\ settled' = settled \cup Acks(swept)
      /\ StopLease(stop)
      /\ UNCHANGED <<used, call, advances, discarded, admitted, slot, notify, closed, hostVars>>
  BY Zenon DEF Cancel, NotifySwept
<1>2. /\ swept \subseteq Queued \cup Paused
      /\ stop \subseteq {active} \ {None}
  BY Zenon
<1> HIDE DEF swept, stop
<1>3. /\ queue' \in Seq(Items) /\ Range(queue') = Queued \ swept
      /\ paused' \in Seq(Items) /\ Range(paused') = Paused \ swept
  BY Zenon, <1>0, <1>1, WithoutFacts DEF Queued, Paused
<1>4. Queued \ D = Queued \ swept /\ Paused \ D = Paused \ swept
  BY Zenon, <1>0, <1>2 DEF Sound
<1>5. active' = (IF active \in D THEN None ELSE active)
  BY Zenon, <1>0, <1>1, <1>2 DEF StopLease, Sound
<1>6. Sound(Range(queue'), Range(paused'), used, record', active', call, settled', admitted)
  <2>1. D \subseteq Queued \cup Paused \cup ({active} \ {None})
    BY Zenon, <1>2
  <2>2. Open \/ \A i \in D : IsAck(i)
    BY Zenon, <1>0, <1>2
  <2>3. settled' \subseteq Items /\ settled \cup (Acks(D) \cap Queued) \subseteq settled'
    BY Zenon, <1>0, <1>1, <1>2 DEF Sound, Acks
  <2>4. "interrupted" \in Terminal
    BY Zenon DEF Terminal
  <2> HIDE DEF D
  <2>5. Sound(Queued \ D, Paused \ D, used, record', active', call, settled', admitted)
    BY Zenon, <1>0, <1>1, <1>5, <2>1, <2>2, <2>3, <2>4, Drop
  <2> QED
    BY Zenon, <1>3, <1>4, <2>5
<1>7. /\ active' \in {None, active} /\ bound' \in BOOLEAN /\ stopped' \in BOOLEAN
      /\ active' # None => stopped' = stopped
  BY Zenon, <1>1 DEF StopLease, IInv, TypeOK
<1>8. QuietStep
  BY Zenon, <1>0, <1>1, <1>3, <1>6, <1>7 DEF QuietStep, IInv, TypeOK
<1> QED
  BY Zenon, <1>8, QuietKeeps

\* Queued items S are taken out: notices with their records, or acks.
LEMMA UnqueueKeeps ==
  ASSUME IInv, NEW S, S \subseteq Queued, NEW state \in Terminal,
         queue' = Without(queue, S),
         record' = Emit(record, S, state, Open),
         settled' \subseteq Items, settled \cup Acks(S) \subseteq settled',
         UNCHANGED <<used, leaseVars, paused, call, advances, discarded,
                     admitted, slotVars, notify, closed, hostVars>>
  PROVE  IInv'
<1>0. /\ Sound(Queued, Paused, used, record, active, call, settled, admitted)
      /\ queue \in Seq(Items) /\ paused \in Seq(Items)
      /\ discarded => (\A j \in Queued : IsAck(j)) /\ Paused = {} /\ active = None
      /\ Open \in BOOLEAN /\ (~Open => discarded)
      /\ None \notin Items
  BY Zenon, Remains
<1>1. queue' \in Seq(Items) /\ Range(queue') = Queued \ S
  BY Zenon, <1>0, WithoutFacts DEF Queued
<1>2. Paused \ S = Paused /\ active \notin S
  BY Zenon, <1>0 DEF Sound
<1>3. Sound(Range(queue'), Paused, used, record', active, call, settled', admitted)
  <2>1. S \subseteq Queued \cup Paused \cup ({active} \ {None})
    BY Zenon
  <2>2. Open \/ \A i \in S : IsAck(i)
    BY Zenon, <1>0
  <2>3. settled \cup (Acks(S) \cap Queued) \subseteq settled'
    BY Zenon
  <2>4. active = IF active \in S THEN None ELSE active
    BY Zenon, <1>2
  <2>5. Sound(Queued \ S, Paused \ S, used, record', active, call, settled', admitted)
    BY Zenon, <1>0, <2>1, <2>2, <2>3, <2>4, Drop
  <2> QED
    BY Zenon, <1>1, <1>2, <2>5
<1>4. QuietStep
  BY Zenon, <1>0, <1>1, <1>3 DEF QuietStep, Paused, IInv, TypeOK, leaseVars, slotVars
<1> QED
  BY Zenon, <1>4, QuietKeeps

\* discard_queued_notice: a notice leaves the queue before it is spoken.
LEMMA DiscardQueuedNoticeKeeps ==
  ASSUME IInv, NEW k, DiscardQueuedNotice(k)
  PROVE  IInv'
<1> DEFINE S == {i \in Queued : KeyOf[i] = k /\ RoleOf[i] = "timeout_notice"}
<1>1. S \subseteq Queued /\ Acks(S) = {} /\ "interrupted" \in Terminal
  BY Zenon DEF Acks, IsAck, Terminal
<1>2. /\ queue' = Without(queue, S) /\ record' = Emit(record, S, "interrupted", Open)
      /\ settled' = settled
      /\ UNCHANGED <<used, leaseVars, paused, call, advances, discarded,
                     admitted, slotVars, notify, closed, hostVars>>
  BY Zenon DEF DiscardQueuedNotice
<1>3. settled \subseteq Items
  BY Zenon DEF IInv, TypeOK
<1> HIDE DEF S
<1> QED
  BY Zenon, <1>1, <1>2, <1>3, UnqueueKeeps

\* discard_queued_ack: an ack leaves the queue before it is spoken.
LEMMA DiscardQueuedAckKeeps ==
  ASSUME IInv, NEW k, DiscardQueuedAck(k)
  PROVE  IInv'
<1> DEFINE S == {i \in Acks(Queued) : KeyOf[i] = k}
<1>1. S \subseteq Queued /\ Acks(S) = S /\ (\A i \in S : IsAck(i)) /\ "unknown" \in Terminal
  BY Zenon DEF Acks, Terminal
<1>2. /\ queue' = Without(queue, S) /\ settled' = settled \cup S /\ record' = record
      /\ UNCHANGED <<used, leaseVars, paused, call, advances, discarded,
                     admitted, slotVars, notify, closed, hostVars>>
  BY Zenon DEF DiscardQueuedAck, RemoveQueuedAck
<1> HIDE DEF S
<1>3. settled' \subseteq Items
  BY Zenon, <1>1, <1>2 DEF IInv, TypeOK, Sound
<1>4. record' = Emit(record, S, "unknown", Open)
  BY Zenon, <1>1, <1>2, AcksInvisible DEF IInv, TypeOK
<1> QED
  BY Zenon, <1>1, <1>2, <1>3, <1>4, UnqueueKeeps

\* enqueue_ack: a fresh ack joins the queue.
LEMMA EnqueueAckKeeps ==
  ASSUME IInv, NEW i \in Items, EnqueueAck(i)
  PROVE  IInv'
<1>0. /\ Sound(Queued, Paused, used, record, active, call, settled, admitted)
      /\ queue \in Seq(Items) /\ paused \in Seq(Items)
      /\ discarded => (\A j \in Queued : IsAck(j)) /\ Paused = {} /\ active = None
      /\ Open \in BOOLEAN /\ (~Open => discarded)
      /\ None \notin Items
  BY Zenon, Remains
<1>1. queue' \in Seq(Items) /\ Range(queue') = Queued \cup {i}
  BY Zenon, <1>0, InsertFacts DEF EnqueueAck, Queued
<1>2. IsAck(i) /\ i \notin used /\ used' = used \cup {i}
  BY Zenon DEF EnqueueAck
<1>3. Sound(Range(queue'), Paused, used', record, active, call, settled, admitted)
  <2>1. Emit(record, {i}, "queued", Open) = record
    BY Zenon, <1>2, AcksInvisible DEF IInv, TypeOK
  <2>2. "queued" \in States \ Terminal
    BY Zenon DEF States, Rank, Terminal
  <2>3. Sound(Queued \cup {i}, Paused, used \cup {i}, Emit(record, {i}, "queued", Open),
              active, call, settled, admitted)
    BY Zenon, <1>0, <1>2, <2>2, Enqueue
  <2> QED
    BY Zenon, <1>1, <1>2, <2>1, <2>3
<1>4. QuietStep
  BY Zenon, <1>0, <1>1, <1>2, <1>3 DEF EnqueueAck, QuietStep, Paused, IInv, TypeOK, leaseVars, slotVars
<1> QED
  BY Zenon, <1>4, QuietKeeps

\* speak returns: the call is over and the lease stays with the item.
LEMMA SpeakReturnsKeeps ==
  ASSUME IInv, NEW i \in Items, SpeakReturns(i)
  PROVE  IInv'
<1>0. /\ Sound(Queued, Paused, used, record, active, call, settled, admitted)
      /\ queue \in Seq(Items) /\ paused \in Seq(Items)
      /\ discarded => (\A j \in Queued : IsAck(j)) /\ Paused = {} /\ active = None
      /\ Open \in BOOLEAN /\ (~Open => discarded)
      /\ None \notin Items
  BY Zenon, Remains
<1>1. call[i] # "idle" /\ call[i] # "fail" /\ call' = [call EXCEPT ![i] = "idle"]
  BY Zenon DEF SpeakReturns
<1>2. Sound(Queued, Paused, used, record, active, call', settled, admitted)
  <2>1. active = IF active = i /\ call[i] = "fail" THEN None ELSE active
    BY Zenon, <1>1
  <2> QED
    BY Zenon, <1>0, <1>1, <2>1, EndCall
<1>3. \A j \in Items : call'[j] = "advance" => call[j] = "advance"
  BY Zenon, <1>1 DEF IInv, TypeOK
<1>4. QuietStep
  BY Zenon, <1>0, <1>2, <1>3 DEF SpeakReturns, QuietStep, Queued, Paused, IInv, TypeOK, leaseVars, slotVars
<1> QED
  BY Zenon, <1>4, QuietKeeps

\* speak raises: the item's record is settled and its release is still to come.
LEMMA SpeakRaisesKeeps ==
  ASSUME IInv, NEW i \in Items, SpeakRaises(i)
  PROVE  IInv'
<1>0. /\ Sound(Queued, Paused, used, record, active, call, settled, admitted)
      /\ queue \in Seq(Items) /\ paused \in Seq(Items)
      /\ discarded => (\A j \in Queued : IsAck(j)) /\ Paused = {} /\ active = None
      /\ Open \in BOOLEAN /\ (~Open => discarded)
      /\ None \notin Items
  BY Zenon, Remains
<1>1. /\ call[i] # "idle" /\ call' = [call EXCEPT ![i] = "fail"]
      /\ record' = Emit(record, {i}, "unknown", Open)
  BY Zenon DEF SpeakRaises
<1>2. Sound(Queued, Paused, used, record', active, call', settled, admitted)
  <2>1. "unknown" \in Terminal
    BY Zenon DEF Terminal
  <2>2. Open \/ i \notin Queued \cup Paused \cup {active} \/ IsAck(i)
    BY Zenon, <1>0
  <2> QED
    BY Zenon, <1>0, <1>1, <2>1, <2>2, Raise
<1>3. \A j \in Items : call'[j] = "advance" => call[j] = "advance"
  BY Zenon, <1>1 DEF IInv, TypeOK
<1>4. QuietStep
  BY Zenon, <1>0, <1>2, <1>3 DEF SpeakRaises, QuietStep, Queued, Paused, IInv, TypeOK, leaseVars, slotVars
<1> QED
  BY Zenon, <1>4, QuietKeeps

\* After a failed speak the slot and the lease are released.
LEMMA FailReleaseKeeps ==
  ASSUME IInv, NEW i \in Items, FailRelease(i)
  PROVE  IInv'
<1>0. /\ Sound(Queued, Paused, used, record, active, call, settled, admitted)
      /\ queue \in Seq(Items) /\ paused \in Seq(Items)
      /\ discarded => (\A j \in Queued : IsAck(j)) /\ Paused = {} /\ active = None
      /\ Open \in BOOLEAN /\ (~Open => discarded)
      /\ None \notin Items
  BY Zenon, Remains
<1>1. /\ call[i] = "fail" /\ call' = [call EXCEPT ![i] = "idle"]
      /\ slot' = IF slot = i THEN None ELSE slot
      /\ stopped' = (stopped /\ slot # i)
      /\ active' = IF active = i THEN None ELSE active
      /\ bound' = (bound /\ active # i)
      /\ advances' = IF discarded THEN advances ELSE advances \cup {i}
      /\ UNCHANGED <<used, queue, paused, settled, discarded, record, admitted, notify,
                     closed, hostVars>>
  BY Zenon DEF FailRelease, ReleaseSubmission, Release, ScheduleQueueAdvance
<1>2. Sound(Queued, Paused, used, record, active', call', settled, admitted)
  <2>1. call[i] # "idle" /\ active' = IF active = i /\ call[i] = "fail" THEN None ELSE active
    BY Zenon, <1>1
  <2> QED
    BY Zenon, <1>0, <1>1, <2>1, EndCall
<1>3. \A j \in Items : call'[j] = "advance" => call[j] = "advance"
  BY Zenon, <1>1 DEF IInv, TypeOK
<1>4. active' # None => slot' = slot /\ stopped' = stopped
  BY Zenon, <1>1 DEF IInv, LeaseAgrees, TypeOK
<1>5. QuietStep
  BY Zenon, <1>0, <1>1, <1>2, <1>3, <1>4 DEF QuietStep, Queued, Paused, IInv, TypeOK
<1> QED
  BY Zenon, <1>5, QuietKeeps

\* The provider reports the start of the leased item.
LEMMA ProviderStartedKeeps ==
  ASSUME IInv, ProviderStarted
  PROVE  IInv'
<1>0. /\ Sound(Queued, Paused, used, record, active, call, settled, admitted)
      /\ queue \in Seq(Items) /\ paused \in Seq(Items)
      /\ discarded => (\A j \in Queued : IsAck(j)) /\ Paused = {} /\ active = None
      /\ Open \in BOOLEAN /\ (~Open => discarded)
      /\ None \notin Items
  BY Zenon, Remains
<1>1. QuietStep
  BY Zenon, <1>0 DEF ProviderStarted, QuietStep, Queued, Paused, IInv, TypeOK, slotVars
<1> QED
  BY Zenon, <1>1, QuietKeeps

\* The provider reports the end of the synthesis of the leased item.
LEMMA SynthesisEndedKeeps ==
  ASSUME IInv, SynthesisEnded
  PROVE  IInv'
<1>0. /\ Sound(Queued, Paused, used, record, active, call, settled, admitted)
      /\ queue \in Seq(Items) /\ paused \in Seq(Items)
      /\ discarded => (\A j \in Queued : IsAck(j)) /\ Paused = {} /\ active = None
      /\ Open \in BOOLEAN /\ (~Open => discarded)
      /\ None \notin Items
  BY Zenon, Remains
<1>1. Sound(Queued, Paused, used, record', active, call, settled, admitted)
  <2>1. active \in Items /\ "synthesis_ended" \in States \ Terminal
    BY Zenon DEF SynthesisEnded, IInv, TypeOK, States, Rank, Terminal
  <2>2. record' = Emit(record, {active}, "synthesis_ended", Open)
    BY Zenon DEF SynthesisEnded
  <2> QED
    BY Zenon, <1>0, <2>1, <2>2, Progress
<1>2. QuietStep
  BY Zenon, <1>0, <1>1 DEF SynthesisEnded, QuietStep, Queued, Paused, IInv, TypeOK, leaseVars, slotVars
<1> QED
  BY Zenon, <1>2, QuietKeeps

\* provider_delivery_unknown: the scheduler frees the slot itself and is told later.
LEMMA ProviderDeliveryUnknownKeeps ==
  ASSUME IInv, ProviderDeliveryUnknown
  PROVE  IInv'
<1>0. /\ Sound(Queued, Paused, used, record, active, call, settled, admitted)
      /\ queue \in Seq(Items) /\ paused \in Seq(Items)
      /\ discarded => (\A j \in Queued : IsAck(j)) /\ Paused = {} /\ active = None
      /\ Open \in BOOLEAN /\ (~Open => discarded)
      /\ None \notin Items
  BY Zenon, Remains
<1>1. /\ active # None /\ active' = None /\ slot' \in {None, slot}
      /\ record' = Emit(record, {active}, "unknown", Open)
      /\ bound' \in BOOLEAN /\ stopped' \in BOOLEAN /\ notify' \subseteq Items
      /\ UNCHANGED <<used, queue, paused, call, advances, discarded, settled, admitted,
                     closed, hostVars>>
  BY Zenon DEF ProviderDeliveryUnknown, Release, IInv, TypeOK
<1>2. Sound(Queued, Paused, used, record', None, call, settled, admitted)
  <2>1. active \notin Queued /\ active \notin Paused
    BY Zenon, <1>0, <1>1 DEF Sound
  <2>2. "unknown" \in Terminal /\ settled \subseteq Items /\ (Open \/ \A i \in {active} : IsAck(i))
    BY Zenon, <1>0, <1>1 DEF Terminal, Sound
  <2>3. {active} \subseteq Queued \cup Paused \cup ({active} \ {None})
    BY Zenon, <1>1
  <2>4. settled \cup (Acks({active}) \cap Queued) \subseteq settled
    BY Zenon, <2>1 DEF Acks
  <2>5. None = IF active \in {active} THEN None ELSE active
    BY Zenon
  <2>6. Sound(Queued \ {active}, Paused \ {active}, used, record', None, call, settled, admitted)
    BY Zenon, <1>0, <1>1, <2>2, <2>3, <2>4, <2>5, Drop
  <2>7. Queued \ {active} = Queued /\ Paused \ {active} = Paused
    BY Zenon, <2>1
  <2> QED
    BY Zenon, <2>6, <2>7
<1>3. QuietStep
  BY Zenon, <1>0, <1>1, <1>2 DEF QuietStep, Queued, Paused, IInv, TypeOK
<1> QED
  BY Zenon, <1>3, QuietKeeps

-----------------------------------------------------------------------------
(* The end of the connection *)

\* The sweep of deactivate leaves nothing behind.
Swept ==
  /\ queue' = <<>> /\ paused' = <<>> /\ active' = None /\ advances' = {}
  /\ discarded' = TRUE /\ up' = FALSE
  /\ bound' \in BOOLEAN /\ stopped' \in BOOLEAN /\ slot' = slot /\ admitted' = admitted
  /\ Sound({}, {}, used', record', None, call', settled', admitted')
  /\ \A i \in Items : call'[i] # "advance"

\* deactivate empties the queues and withdraws every pending advance.
LEMMA DeactivateSweeps ==
  ASSUME IInv, Deactivate
  PROVE  Swept
<1>0. /\ Sound(Queued, Paused, used, record, active, call, settled, admitted)
      /\ queue \in Seq(Items) /\ paused \in Seq(Items)
      /\ discarded => (\A j \in Queued : IsAck(j)) /\ Paused = {} /\ active = None
      /\ Open \in BOOLEAN /\ (~Open => discarded)
      /\ None \notin Items
  BY Zenon, Remains
<1> DEFINE D == Queued \cup Paused \cup ({active} \ {None})
<1>1. /\ up' = FALSE /\ discarded' = TRUE /\ queue' = <<>> /\ paused' = <<>> /\ advances' = {}
      /\ record' = Emit(record, D, "interrupted", TRUE)
      /\ settled' = settled \cup Acks(Queued \cup Paused)
      /\ call' = [i \in Items |-> IF call[i] = "advance" THEN "doomed" ELSE call[i]]
      /\ UNCHANGED <<used, admitted, slot>>
  BY Zenon DEF Deactivate, SweepRecords
<1>2. active' = None /\ bound' \in BOOLEAN /\ stopped' \in BOOLEAN
  BY Zenon DEF Deactivate, StopLease, IInv, TypeOK
<1>3. Sound({}, {}, used, record', None, call, settled', admitted)
  <2>1. settled' \subseteq Items /\ settled \cup (Acks(D) \cap Queued) \subseteq settled'
    BY Zenon, <1>0, <1>1 DEF Sound, Acks
  <2>2. "interrupted" \in Terminal
    BY Zenon DEF Terminal
  <2>3. None = IF active \in D THEN None ELSE active
    BY Zenon
  <2>4. Queued \ D = {} /\ Paused \ D = {} /\ D \subseteq Queued \cup Paused \cup ({active} \ {None})
    BY Zenon
  <2> HIDE DEF D
  <2>5. PICK open \in BOOLEAN : open /\ record' = Emit(record, D, "interrupted", open)
    BY Zenon, <1>1
  <2>6. Sound(Queued \ D, Paused \ D, used, record', None, call, settled', admitted)
    <3>1. open \/ \A i \in D : IsAck(i)
      BY Zenon, <2>5
    <3>2. D \subseteq Queued \cup Paused \cup ({active} \ {None})
      BY Zenon, <2>4
    <3>3. Sound(Queued \ D, Paused \ D, used, Emit(record, D, "interrupted", open), None,
                call, settled', admitted)
      BY Zenon, <1>0, <2>1, <2>2, <2>3, <3>1, <3>2, Drop
    <3> QED
      BY Zenon, <2>5, <3>3
  <2> QED
    BY Zenon, <2>4, <2>6
<1>4. Sound({}, {}, used, record', None, call', settled', admitted)
  <2>1. call' \in [Items -> CallStates] /\ \A i \in Items :
           (call'[i] = "fail" <=> call[i] = "fail") /\ (call'[i] = "idle" <=> call[i] = "idle")
    BY Zenon, <1>1 DEF IInv, TypeOK, CallStates
  <2> QED
    BY Zenon, <1>3, <2>1 DEF Sound
<1>5. \A i \in Items : call'[i] # "advance"
  BY Zenon, <1>1
<1> QED
  BY Zenon, <1>1, <1>2, <1>4, <1>5 DEF Swept

\* A swept lane satisfies the invariant, whatever the connection does next.
LEMMA SweptKeeps ==
  ASSUME IInv, Swept,
         notify' \subseteq Items, closed' \in BOOLEAN, tts' \in BOOLEAN, tearing' \in BOOLEAN,
         epoch' \in {"current", "none", "replaced"},
         shutdown' \in {"none", "scheduled", "closing", "done"}
  PROVE  IInv'
<1>1. Range(<<>>) = {} /\ <<>> \in Seq(Items)
  BY DEF Range
<1>2. Sound(Queued, Paused, used, record, active, call, settled, admitted)'
  BY Zenon, <1>1 DEF Swept, Queued, Paused
<1>3. up' \in BOOLEAN /\ discarded' \in BOOLEAN
  BY Zenon DEF Swept
<1>4. TypeOK'
  BY Zenon, <1>1, <1>3 DEF Swept, Sound, CallStates, IInv, TypeOK
<1>5. LeaseAgrees'
  BY Zenon DEF Swept, IInv, LeaseAgrees
<1>6. LaneAgrees'
  BY Zenon DEF Swept, LaneAgrees
<1>7. DiscardedForGood'
  BY Zenon, <1>1 DEF Swept, DiscardedForGood, Queued, Acks
<1> QED
  BY Zenon, <1>2, <1>4, <1>5, <1>6, <1>7 DEF IInv

\* The steps of the connection: lost, superseded, torn down, shut down, closed.
LEMMA ConnectionKeeps ==
  ASSUME IInv, Connection
  PROVE  IInv'
<1>1. ASSUME NEW e \in {"none", "replaced"}, LoseConnection(e) PROVE IInv'
  BY Zenon, <1>1, DeactivateSweeps, SweptKeeps DEF LoseConnection, IInv, TypeOK
<1>2. CASE BeginShutdown
  BY Zenon, <1>2, DeactivateSweeps, SweptKeeps DEF BeginShutdown, IInv, TypeOK
<1>3. CASE Supersede \/ BeginTeardown \/ EndTeardown \/ ConnectionClosed
  <2>1. /\ UNCHANGED <<used, queue, active, bound, paused, call, advances, discarded, record,
                       settled, admitted>>
        /\ slot' \in {None, slot}
    BY Zenon, <1>3 DEF Supersede, BeginTeardown, EndTeardown, ConnectionClosed, leaseVars, slotVars
  <2>2. Sound(Queued, Paused, used, record, active, call, settled, admitted)'
    BY Zenon, <2>1 DEF IInv, Queued, Paused
  <2>3. TypeOK'
    BY ZenonT(60), <1>3 DEF Supersede, BeginTeardown, EndTeardown, ConnectionClosed, leaseVars, slotVars,
                IInv, TypeOK
  <2>4. LeaseAgrees'
    <3>1. CASE ConnectionClosed
      BY Zenon, <2>1, <3>1 DEF ConnectionClosed, IInv, LaneAgrees, DiscardedForGood, LeaseAgrees
    <3>2. CASE Supersede \/ BeginTeardown \/ EndTeardown
      BY <2>1, <3>2 DEF Supersede, BeginTeardown, EndTeardown, slotVars, IInv, LeaseAgrees
    <3> QED
      BY Zenon, <1>3, <3>1, <3>2
  <2>5. LaneAgrees'
    BY <1>3, <2>1 DEF Supersede, BeginTeardown, EndTeardown, ConnectionClosed, IInv, LaneAgrees
  <2>6. DiscardedForGood'
    BY Zenon, <2>1 DEF IInv, DiscardedForGood, Queued
  <2> QED
    BY Zenon, <2>2, <2>3, <2>4, <2>5, <2>6 DEF IInv
<1> QED
  BY Zenon, <1>1, <1>2, <1>3 DEF Connection, Ending

-----------------------------------------------------------------------------
(* The theorems *)

\* The initial states satisfy the invariant.
LEMMA InitHolds == Init => IInv
<1> SUFFICES ASSUME Init PROVE IInv
  BY Zenon
<1>1. Range(<<>>) = {} /\ <<>> \in Seq(Items) /\ "none" \in States
  BY DEF Range, States, Rank
<1>2. TypeOK
  BY Zenon, <1>1 DEF Init, TypeOK
<1>3. Sound(Queued, Paused, used, record, active, call, settled, admitted)
  BY Zenon, <1>1, SchedulerAssumption DEF Init, Sound, Queued, Paused, CallStates, Terminal
<1>4. LeaseAgrees /\ LaneAgrees /\ DiscardedForGood
  BY Zenon DEF Init, LeaseAgrees, LaneAgrees, DiscardedForGood
<1> QED
  BY Zenon, <1>2, <1>3, <1>4 DEF IInv

\* Every step of the specification, a stuttering one included, keeps the invariant.
LEMMA NextKeeps == IInv /\ [Next]_vars => IInv'
<1> SUFFICES ASSUME IInv, [Next]_vars PROVE IInv'
  BY Zenon
<1>1. CASE Turns
  BY Zenon, <1>1, CommitAndSpeakKeeps, ResumeAckKeeps, ResumeKeeps, PauseKeeps, CancelKeeps,
     DiscardQueuedNoticeKeeps DEF Turns
<1>2. CASE AckLedger
  BY Zenon, <1>2, EnqueueAckKeeps, AdmitAckKeeps, DiscardQueuedAckKeeps DEF AckLedger
<1>3. ASSUME NEW i \in Items, Calls(i) PROVE IInv'
  BY Zenon, <1>3, SpeakReturnsKeeps, SpeakRaisesKeeps, FailReleaseKeeps, AdvanceKeeps, NotifyKeeps
     DEF Calls
<1>4. CASE Provider
  BY Zenon, <1>4, ProviderStartedKeeps, SynthesisEndedKeeps, ProviderDeliveryUnknownKeeps DEF Provider
<1>5. CASE Settle
  BY Zenon, <1>5, SettleKeeps
<1>6. CASE Connection
  BY Zenon, <1>6, ConnectionKeeps
<1>7. CASE UNCHANGED vars
  BY ZenonT(60), <1>7 DEF vars, IInv, TypeOK, Queued, Paused, LeaseAgrees, LaneAgrees, DiscardedForGood
<1> QED
  BY Zenon, <1>1, <1>2, <1>3, <1>4, <1>5, <1>6, <1>7 DEF Next

\* The invariant holds always.
THEOREM Invariance == Spec => []IInv
BY InitHolds, NextKeeps, PTL DEF Spec

\* A delivery record is open exactly while the scheduler holds its utterance, and a
\* lease never outlives its slot: for any number of items, work items and acks.
THEOREM RecordsAgreeAlways == Spec => []RecordsAgree
<1>1. IInv => RecordsAgree
  BY Zenon, SchedulerAssumption DEF IInv, TypeOK, Sound, LeaseAgrees, RecordsAgree, Held
<1> QED
  BY <1>1, Invariance, PTL

\* Of the utterances of one work item at most one is queued, paused or being spoken:
\* pause, resume, cancel and a reconnect line no result up twice.
THEOREM SpeechOnceAlways == Spec => []SpeechOnce
<1>1. IInv => SpeechOnce
  BY Zenon, SchedulerAssumption DEF IInv, TypeOK, Sound, SpeechOnce, Held
<1> QED
  BY <1>1, Invariance, PTL

\* No ack vanishes before it reached the slot unless the turn-ack ledger learns of it.
THEOREM AcksAccountedForAlways == Spec => []AcksAccountedFor
<1>1. IInv => AcksAccountedFor
  BY Zenon DEF IInv, TypeOK, Sound, AcksAccountedFor, Held, Acks
<1> QED
  BY <1>1, Invariance, PTL

\* After interrupt(full_stop) nothing is queued, leased, paused or probed again.
THEOREM DiscardedForGoodAlways == Spec => []DiscardedForGood
<1>1. IInv => DiscardedForGood
  BY Zenon DEF IInv
<1> QED
  BY <1>1, Invariance, PTL

-----------------------------------------------------------------------------
(* Chains that look after acks *)

\* There is a chain of W for every ack of A, one for each.
Served(A, W) ==
  \E f \in [A -> W] : \A i, j \in A : f[i] = f[j] => i = j

\* No ack needs no chain.
LEMMA NobodyServed ==
  ASSUME NEW W
  PROVE  Served({}, W)
<1> DEFINE f == [i \in {} |-> i]
<1>1. f \in [{} -> W] /\ \A i, j \in {} : f[i] = f[j] => i = j
  BY Zenon
<1> QED
  BY Zenon, <1>1 DEF Served

\* One ack is served by any chain there is.
LEMMA OneServed ==
  ASSUME NEW W, NEW d \in W, NEW i
  PROVE  Served({i}, W)
<1> DEFINE f == [j \in {i} |-> d]
<1>1. f \in [{i} -> W] /\ \A j, k \in {i} : f[j] = f[k] => j = k
  BY Zenon
<1> QED
  BY Zenon, <1>1 DEF Served

\* Fewer acks, or more chains.
LEMMA FewerServed ==
  ASSUME NEW A, NEW W, Served(A, W), NEW B, B \subseteq A, NEW V, W \subseteq V
  PROVE  Served(B, V)
<1>1. PICK f \in [A -> W] : \A i, j \in A : f[i] = f[j] => i = j
  BY Zenon DEF Served
<1> DEFINE g == [i \in B |-> f[i]]
<1>2. g \in [B -> V] /\ \A i, j \in B : g[i] = g[j] => i = j
  BY Zenon, <1>1
<1> QED
  BY Zenon, <1>2 DEF Served

\* A chain that takes one of the acks, its own or another's.
LEMMA OneLess ==
  ASSUME NEW A, NEW W, Served(A, W), NEW i \in A, NEW c
  PROVE  Served(A \ {i}, W \ {c})
<1>1. PICK f \in [A -> W] : \A j, k \in A : f[j] = f[k] => j = k
  BY Zenon DEF Served
<1> DEFINE g == [j \in A \ {i} |-> IF f[j] = c THEN f[i] ELSE f[j]]
<1>2. \A j \in A \ {i} : g[j] \in W \ {c}
  BY Zenon, <1>1
<1>3. \A j, k \in A \ {i} : g[j] = g[k] => j = k
  BY Zenon, <1>1
<1>4. g \in [A \ {i} -> W \ {c}]
  BY Zenon, <1>2
<1> QED
  BY Zenon, <1>3, <1>4 DEF Served

\* A fresh chain serves one more ack.
LEMMA OneMore ==
  ASSUME NEW A, NEW W, Served(A, W), NEW i, NEW d, d \notin W
  PROVE  Served(A \cup {i}, W \cup {d})
<1>1. PICK f \in [A -> W] : \A j, k \in A : f[j] = f[k] => j = k
  BY Zenon DEF Served
<1> DEFINE g == [j \in A \cup {i} |-> IF j = i THEN d ELSE f[j]]
<1>2. g \in [A \cup {i} -> W \cup {d}] /\ \A j, k \in A \cup {i} : g[j] = g[k] => j = k
  BY Zenon, <1>1
<1> QED
  BY Zenon, <1>2 DEF Served

\* A chain goes on as another.
LEMMA OneChanged ==
  ASSUME NEW A, NEW W, Served(A, W), NEW c, NEW d, d \notin W \ {c}
  PROVE  Served(A, (W \ {c}) \cup {d})
<1>1. PICK f \in [A -> W] : \A j, k \in A : f[j] = f[k] => j = k
  BY Zenon DEF Served
<1> DEFINE g == [j \in A |-> IF f[j] = c THEN d ELSE f[j]]
<1>2. g \in [A -> (W \ {c}) \cup {d}] /\ \A j, k \in A : g[j] = g[k] => j = k
  BY Zenon, <1>1
<1> QED
  BY Zenon, <1>2 DEF Served

\* A single chain serves at most one ack.
LEMMA OnlyOneServed ==
  ASSUME NEW A, NEW W, Served(A, W), \A c, d \in W : c = d
  PROVE  \A i, j \in A : i = j
<1>1. PICK f \in [A -> W] : \A j, k \in A : f[j] = f[k] => j = k
  BY Zenon DEF Served
<1> QED
  BY Zenon, <1>1

\* A served ack has a chain.
LEMMA SomebodyServes ==
  ASSUME NEW A, NEW W, Served(A, W), NEW i \in A
  PROVE  W # {}
BY Zenon DEF Served

-----------------------------------------------------------------------------
(* What the acks see of the scheduler *)

\* start_next drops the queued acks of a turn together.
LEMMA AcksDropTogether ==
  ASSUME NEW ks, NEW q \in Seq(Items), NEW rc, NEW lease, NEW holder, NEW how,
         (\A k, l \in ks : k = l) \/ Acceptable,
         StartNext(ks, q, rc, lease, holder, how)
  PROVE  /\ Range(queue') \subseteq Range(q)
         /\ admitted \subseteq admitted' /\ settled \subseteq settled'
         /\ \A i \in settled' \ settled :
               \A j \in Acks(Range(queue')) : KeyOf[j] # KeyOf[i]
<1> DEFINE scan == {n \in DOMAIN q : KeyOf[q[n]] \in ks}
           live == {n \in scan : ~Rejected(q[n])}
           dropped == {q[n] : n \in {m \in scan : \A l \in live : m < l}}
<1>1. CASE lease # None \/ holder # None
  <2>1. settled' = settled /\ admitted' = admitted /\ queue' = q
    BY Zenon, <1>1 DEF StartNext
  <2> QED
    BY Zenon, <2>1
<1>2. CASE lease = None /\ holder = None
  <2>1. settled' = settled \cup Acks(dropped)
    BY Zenon, <1>2 DEF StartNext
  <2>2. \E S : queue' = Without(q, dropped \cup S)
    <3>1. CASE live = {}
      <4>1. queue' = Without(q, dropped)
        BY Zenon, <1>2, <3>1 DEF StartNext
      <4>2. dropped = dropped \cup {}
        BY Zenon
      <4> HIDE DEF dropped
      <4> QED
        BY Zenon, <4>1, <4>2
    <3>2. CASE live # {}
      <4>1. queue' = Without(q, dropped \cup {q[Min(live)]})
        BY Zenon, <1>2, <3>2 DEF StartNext
      <4> HIDE DEF dropped
      <4> QED
        BY Zenon, <4>1
    <3> QED
      BY Zenon, <3>1, <3>2
  <2>3. Range(queue') \subseteq Range(q) \ dropped
    <3> HIDE DEF dropped
    <3> QED
      BY Zenon, <2>2, WithoutFacts
  <2>4. ASSUME NEW i \in Acks(dropped), NEW j \in Acks(Range(q)), KeyOf[j] = KeyOf[i]
        PROVE  j \in dropped
    <3>1. PICK n \in scan : i = q[n] /\ \A l \in live : n < l
      BY Zenon DEF Acks
    <3>2. n \in Nat /\ ~(n < n)
      OBVIOUS
    <3>3. Rejected(i)
      BY Zenon, <3>1, <3>2
    <3>4. IsAck(i) /\ IsAck(j)
      BY Zenon DEF Acks
    <3>5. PICK m \in DOMAIN q : j = q[m]
      BY Zenon DEF Acks, Range
    <3>6. m \in scan
      BY Zenon, <2>4, <3>1, <3>5
    <3>7. ASSUME NEW l \in scan PROVE Rejected(q[l])
      <4>1. CASE Acceptable
        BY Zenon, <3>3, <4>1 DEF Rejected
      <4>2. CASE ~Acceptable
        <5>1. KeyOf[q[l]] = KeyOf[i]
          BY Zenon, <3>1, <4>2
        <5>2. q[l] \in Items /\ i \in Items
          BY <3>1
        <5>3. IsAck(q[l])
          BY Zenon, <3>4, <5>1, <5>2, SchedulerAssumption DEF IsAck
        <5> QED
          BY Zenon, <4>2, <5>3 DEF Rejected
      <4> QED
        BY Zenon, <4>1, <4>2
    <3>8. live = {}
      BY Zenon, <3>7
    <3> QED
      BY Zenon, <3>5, <3>6, <3>8
  <2>5. admitted \subseteq admitted'
    BY Zenon, <1>2 DEF StartNext
  <2> HIDE DEF dropped
  <2> QED
    BY Zenon, <2>1, <2>3, <2>4, <2>5 DEF Acks
<1> QED
  BY Zenon, <1>1, <1>2

\* What a step of the scheduler may do to the acks: those that stay queued were
\* queued, none is new, and one that is settled was admitted or leaves no other of
\* its turn in the queue.
Calm ==
  /\ Acks(Queued') \subseteq Queued
  /\ Acks(used') = Acks(used)
  /\ admitted \subseteq admitted' /\ settled \subseteq settled'
  /\ discarded => discarded'
  /\ \A i \in settled' \ settled :
        i \in admitted' \/ \A j \in Acks(Queued') : KeyOf[j] # KeyOf[i]

\* start_next on one key, or on all of an open lane, puts no ack in the queue.
LEMMA StartCalm ==
  ASSUME NEW ks, NEW q \in Seq(Items), NEW rc, NEW lease, NEW holder, NEW how,
         (\A k, l \in ks : k = l) \/ Acceptable,
         StartNext(ks, q, rc, lease, holder, how),
         Acks(Range(q)) \subseteq Queued, Acks(used') = Acks(used), discarded' = discarded
  PROVE  Calm
<1>1. /\ Range(queue') \subseteq Range(q)
      /\ admitted \subseteq admitted' /\ settled \subseteq settled'
      /\ \A i \in settled' \ settled :
            \A j \in Acks(Range(queue')) : KeyOf[j] # KeyOf[i]
  BY Zenon, AcksDropTogether
<1>2. Queued' = Range(queue')
  BY Zenon DEF Queued
<1> QED
  BY Zenon, <1>1, <1>2 DEF Calm, Acks

\* Speech other than acks is enqueued.
LEMMA CommitAndSpeakCalm ==
  ASSUME IInv, NEW i \in Items, CommitAndSpeak(i)
  PROVE  Calm
<1> DEFINE ks == {KeyOf[i]}
           q == Insert(queue, i)
           rc == Emit(record, {i}, "queued", Open)
<1>1. /\ ~IsAck(i) /\ used' = used \cup {i} /\ discarded' = discarded
      /\ StartNext(ks, q, rc, active, slot, "speak")
  BY Zenon DEF CommitAndSpeak
<1>2. q \in Seq(Items) /\ Range(q) = Queued \cup {i}
  BY Zenon, InsertFacts DEF IInv, TypeOK, Queued
<1>3. Acks(Range(q)) \subseteq Queued /\ Acks(used') = Acks(used)
  BY Zenon, <1>1, <1>2 DEF Acks
<1>4. \A k, l \in ks : k = l
  BY Zenon
<1>5. /\ q \in Seq(Items) /\ discarded' = discarded
      /\ StartNext(ks, q, rc, active, slot, "speak")
  BY Zenon, <1>1, <1>2
<1> HIDE DEF ks, q, rc
<1> QED
  BY <1>3, <1>4, <1>5, StartCalm

\* resume replays no ack.
LEMMA ResumeCalm ==
  ASSUME IInv, NEW i \in Items, NEW j \in Items, Resume(i, j)
  PROVE  Calm
<1> DEFINE ks == {KeyOf[j]}
           q == Insert(queue, j)
           rc == Emit(Emit(record, {i}, "interrupted", Open), {j}, "resumed", Open)
<1>1. /\ ~IsAck(j) /\ used' = used \cup {j} /\ discarded' = discarded
      /\ StartNext(ks, q, rc, active, slot, "speak")
  BY Zenon DEF Resume, IsAck
<1>2. q \in Seq(Items) /\ Range(q) = Queued \cup {j}
  BY Zenon, InsertFacts DEF IInv, TypeOK, Queued
<1>3. Acks(Range(q)) \subseteq Queued /\ Acks(used') = Acks(used)
  BY Zenon, <1>1, <1>2 DEF Acks
<1>4. \A k, l \in ks : k = l
  BY Zenon
<1>5. /\ q \in Seq(Items) /\ discarded' = discarded
      /\ StartNext(ks, q, rc, active, slot, "speak")
  BY Zenon, <1>1, <1>2
<1> HIDE DEF ks, q, rc
<1> QED
  BY <1>3, <1>4, <1>5, StartCalm

\* start_next on the queue as it is.
LEMMA ProbeCalm ==
  ASSUME IInv, NEW ks, NEW rc, NEW lease, NEW holder, NEW how,
         (\A k, l \in ks : k = l) \/ Acceptable,
         StartNext(ks, queue, rc, lease, holder, how),
         UNCHANGED <<used, discarded>>
  PROVE  Calm
<1>1. queue \in Seq(Items) /\ Acks(Range(queue)) \subseteq Queued
  BY Zenon DEF IInv, TypeOK, Queued, Acks
<1>2. Acks(used') = Acks(used) /\ discarded' = discarded
  BY Zenon
<1> QED
  BY Zenon, <1>1, <1>2, StartCalm

\* The scheduled probe puts no ack in the queue.
LEMMA AdvanceCalm ==
  ASSUME IInv, NEW i, Advance(i)
  PROVE  Calm
<1> DEFINE others == {n \in DOMAIN queue : KeyOf[queue[n]] # KeyOf[i]}
           ks == IF others = {} THEN {} ELSE {KeyOf[queue[Min(others)]]}
<1>1. StartNext(ks, queue, record, active, slot, "advance") /\ UNCHANGED <<used, discarded>>
  BY Zenon DEF Advance
<1>2. \A k, l \in ks : k = l
  BY Zenon
<1> HIDE DEF ks
<1> QED
  BY Zenon, <1>1, <1>2, ProbeCalm

\* on_terminal puts no ack in the queue.
LEMMA OnTerminalCalm ==
  ASSUME IInv, NEW i, NEW unknown, NEW holder, OnTerminal(i, unknown, holder),
         UNCHANGED <<used, discarded>>
  PROVE  Calm
<1> DEFINE mine == epoch = "current" /\ unknown /\ active = i
           lease == IF mine THEN None ELSE active
           rc == IF mine THEN Emit(record, {i}, "unknown", Open) ELSE record
           ks == IF Acceptable THEN Keys ELSE {}
<1>1. StartNext(ks, queue, rc, lease, holder, "speak")
  BY Zenon DEF OnTerminal
<1>2. (\A k, l \in ks : k = l) \/ Acceptable
  BY Zenon
<1> HIDE DEF ks, rc, lease
<1> QED
  BY Zenon, <1>1, <1>2, ProbeCalm

\* A paused ack that is resumed was admitted.
LEMMA ResumeAckCalm ==
  ASSUME IInv, NEW i \in Items, ResumeAck(i)
  PROVE  Calm
<1>1. i \in admitted
  BY Zenon DEF ResumeAck, Acks, IInv, Sound
<1>2. /\ settled' = settled \cup {i}
      /\ UNCHANGED <<used, queue, admitted, discarded>>
  BY Zenon DEF ResumeAck
<1> QED
  BY Zenon, <1>1, <1>2 DEF Calm, Queued, Acks

\* A step that leaves queue, acks and history alone.
LEMMA StillCalm ==
  ASSUME UNCHANGED <<used, queue, settled, admitted>>, discarded => discarded'
  PROVE  Calm
BY Zenon DEF Calm, Queued, Acks

\* A cancel takes every queued ack of the turns it is for.
LEMMA CancelCalm ==
  ASSUME IInv, NEW ks, Cancel(ks)
  PROVE  /\ Calm
         /\ Queued' = {i \in Queued : KeyOf[i] \notin ks}
         /\ UNCHANGED <<used, admitted, discarded>>
<1> DEFINE swept == {i \in Queued \cup Paused : KeyOf[i] \in ks}
<1>1. /\ queue' = Without(queue, swept) /\ settled' = settled \cup Acks(swept)
      /\ UNCHANGED <<used, admitted, discarded>>
  BY Zenon DEF Cancel, NotifySwept
<1>2. Queued' = Queued \ swept
  <2> HIDE DEF swept
  <2> QED
    BY Zenon, <1>1, WithoutFacts DEF IInv, TypeOK, Queued
<1> QED
  BY Zenon, <1>1, <1>2 DEF Calm, Acks

\* discard_queued_notice leaves the queued acks as they are.
LEMMA DiscardQueuedNoticeCalm ==
  ASSUME IInv, NEW k, DiscardQueuedNotice(k)
  PROVE  Calm
<1> DEFINE S == {i \in Queued : KeyOf[i] = k /\ RoleOf[i] = "timeout_notice"}
<1>1. queue' = Without(queue, S) /\ UNCHANGED <<used, settled, admitted, discarded>>
  BY Zenon DEF DiscardQueuedNotice
<1> HIDE DEF S
<1>2. Queued' = Queued \ S
  BY Zenon, <1>1, WithoutFacts DEF IInv, TypeOK, Queued
<1> QED
  BY Zenon, <1>1, <1>2 DEF Calm, Acks

\* The steps of the connection put no ack in the queue, and a sweep empties it.
LEMMA ConnectionCalm ==
  ASSUME IInv, Connection
  PROVE  Calm
<1>1. CASE Deactivate
  <2>1. /\ queue' = <<>> /\ settled \subseteq settled' /\ discarded' = TRUE
        /\ UNCHANGED <<used, admitted>>
    BY Zenon, <1>1 DEF Deactivate
  <2>2. Queued' = {}
    BY <2>1 DEF Queued, Range
  <2> QED
    BY Zenon, <2>1, <2>2 DEF Calm, Acks
<1>2. CASE UNCHANGED <<used, queue, settled, admitted, discarded>>
  BY Zenon, <1>2, StillCalm
<1> QED
  BY Zenon, <1>1, <1>2
     DEF Connection, LoseConnection, Supersede, BeginTeardown, Ending, BeginShutdown,
         ConnectionClosed, EndTeardown

\* discard_queued_ack.
LEMMA RemoveCalm ==
  ASSUME IInv, NEW t, RemoveQueuedAck(t), UNCHANGED <<used, admitted, discarded>>
  PROVE  /\ Calm
         /\ \A i \in Acks(Queued') : KeyOf[i] # t
<1> DEFINE S == {i \in Acks(Queued) : KeyOf[i] = t}
<1>1. queue' = Without(queue, S) /\ settled' = settled \cup S
  BY Zenon DEF RemoveQueuedAck
<1>2. Queued' = Queued \ S
  <2> HIDE DEF S
  <2> QED
    BY Zenon, <1>1, WithoutFacts DEF IInv, TypeOK, Queued
<1> QED
  BY Zenon, <1>1, <1>2 DEF Calm, Acks

\* The scheduler without its ledger: its invariant and the acks.
LEMMA SchedulerStepCalm ==
  ASSUME IInv, SchedulerStep
  PROVE  IInv' /\ Calm
<1>1. ASSUME NEW i \in Items, CommitAndSpeak(i) PROVE IInv' /\ Calm
  BY Zenon, <1>1, CommitAndSpeakKeeps, CommitAndSpeakCalm
<1>2. ASSUME NEW i \in Items, ResumeAck(i) PROVE IInv' /\ Calm
  BY Zenon, <1>2, ResumeAckKeeps, ResumeAckCalm
<1>3. ASSUME NEW i \in Items, SpeakRaises(i) PROVE IInv' /\ Calm
  <2>1. UNCHANGED <<used, queue, settled, admitted, discarded>>
    BY Zenon, <1>3 DEF SpeakRaises
  <2> QED
    BY Zenon, <1>3, <2>1, SpeakRaisesKeeps, StillCalm
<1>4. ASSUME NEW i \in Items, FailRelease(i) PROVE IInv' /\ Calm
  <2>1. UNCHANGED <<used, queue, settled, admitted, discarded>>
    BY Zenon, <1>4 DEF FailRelease, ReleaseSubmission
  <2> QED
    BY Zenon, <1>4, <2>1, FailReleaseKeeps, StillCalm
<1>5. ASSUME NEW i \in Items, Advance(i) PROVE IInv' /\ Calm
  BY Zenon, <1>5, AdvanceKeeps, AdvanceCalm
<1>6. ASSUME NEW i \in Items, Notify(i) PROVE IInv' /\ Calm
  <2>1. OnTerminal(i, TRUE, slot) /\ UNCHANGED <<used, discarded>>
    BY Zenon, <1>6 DEF Notify
  <2> QED
    BY Zenon, <1>6, <2>1, NotifyKeeps, OnTerminalCalm
<1>7. ASSUME NEW i \in Items, NEW j \in Items, Resume(i, j) PROVE IInv' /\ Calm
  BY Zenon, <1>7, ResumeKeeps, ResumeCalm
<1>8. CASE Pause
  <2>1. UNCHANGED <<used, queue, settled, admitted, discarded>>
    BY Zenon, <1>8 DEF Pause
  <2> QED
    BY Zenon, <1>8, <2>1, PauseKeeps, StillCalm
<1>9. ASSUME NEW k, Cancel({k}) \/ DiscardQueuedNotice(k) PROVE IInv' /\ Calm
  BY Zenon, <1>9, CancelKeeps, CancelCalm, DiscardQueuedNoticeKeeps, DiscardQueuedNoticeCalm
<1>10. CASE Provider
  <2>1. UNCHANGED <<used, queue, settled, admitted, discarded>>
    BY Zenon, <1>10 DEF Provider, ProviderStarted, SynthesisEnded, ProviderDeliveryUnknown
  <2>2. IInv'
    BY Zenon, <1>10, ProviderStartedKeeps, SynthesisEndedKeeps, ProviderDeliveryUnknownKeeps
       DEF Provider
  <2> QED
    BY Zenon, <2>1, <2>2, StillCalm
<1>11. CASE Settle
  <2>1. OnTerminal(slot, ~stopped, None) /\ UNCHANGED <<used, discarded>>
    BY Zenon, <1>11 DEF Settle
  <2> QED
    BY Zenon, <1>11, <2>1, SettleKeeps, OnTerminalCalm
<1>12. CASE Connection
  BY Zenon, <1>12, ConnectionKeeps, ConnectionCalm
<1> QED
  BY Zenon, <1>1, <1>2, <1>3, <1>4, <1>5, <1>6, <1>7, <1>8, <1>9, <1>10, <1>11, <1>12
     DEF SchedulerStep

-----------------------------------------------------------------------------
(* The ledger's inductive invariant *)

QueuedAcks(t) == {i \in Acks(Queued) : KeyOf[i] = t}

\* The chains that will come back to the turn's queued ack: not those suspended in
\* speak, which have one of their own.
Waiting(t) == {c \in chains : c.turn = t /\ ~Stale(c) /\ c.at # "speak"}

ChainsUpTo(n) ==
  [turn : AckTurns, gen : 1..n, attempt : 1..MaxAttempts,
   at : {"admit", "speak", "sleep"}, ack : Acks(Items)]

Phases == {"new", "tick", "waiting", "open", "over"}

Entries == {t \in AckTurns : generation[t] # 0}

\* LedgerTypeOK, and a chain sleeps only when it has an attempt left.
LedgerTypes ==
  /\ phase \in [AckTurns -> Phases]
  /\ latch \subseteq AckTurns
  /\ claims \in Nat
  /\ generation \in [AckTurns -> 0 .. claims]
  /\ IsFiniteSet(Entries) /\ Cardinality(Entries) <= MaxGenerationTurns
  /\ chains \subseteq ChainsUpTo(claims)
  /\ \A c \in chains : c.at = "sleep" => c.attempt < MaxAttempts
  /\ spoken \subseteq Acks(Items) /\ abandoned \subseteq Acks(Items)

\* Before its ack, and after its end, a turn is not latched.
Unlatched == \A t \in AckTurns : phase[t] \in {"new", "tick", "over"} => t \notin latch

\* The ack of a turn that is not over is queued only under the latch.
Latched ==
  \A t \in AckTurns :
      t \in latch \/ phase[t] = "over" \/ PausedAckDropped(t) \/ QueuedAcks(t) = {}

\* A claim's number is of one chain.
OneChain == \A c, d \in chains : c.gen = d.gen => c = d

\* Each queued ack has a chain to itself that will come back to it.
Kept == \A t \in AckTurns : PausedAckDropped(t) \/ Served(QueuedAcks(t), Waiting(t))

LInv ==
  /\ LedgerTypes /\ Unlatched /\ Latched /\ OneChain /\ Kept /\ NoAckAfterResult

\* Acks that stay, stay with what their turn has.
LEMMA CalmAcks ==
  ASSUME Calm, NEW t
  PROVE  QueuedAcks(t)' \subseteq QueuedAcks(t) /\ (PausedAckDropped(t) => PausedAckDropped(t)')
BY Zenon DEF Calm, QueuedAcks, PausedAckDropped, Acks

\* A step that starts no ack and leaves the chains alone; a turn it unlatches is
\* over, or has no ack in the queue.
LEMMA CalmKeeps ==
  ASSUME IInv, LInv, Calm,
         UNCHANGED <<claims, generation, chains>>,
         phase' \in [AckTurns -> Phases],
         \A t \in AckTurns :
            \/ phase'[t] = phase[t]
            \/ phase[t] = "new" /\ phase'[t] = "tick"
            \/ /\ phase'[t] = "over" /\ t \notin latch'
               /\ QueuedAcks(t)' = {} \/ discarded',
         latch' \subseteq latch,
         \A t \in latch \ latch' :
            phase'[t] = "over" \/ PausedAckDropped(t)' \/ QueuedAcks(t)' = {},
         spoken' \subseteq Acks(Items), abandoned' \subseteq Acks(Items)
  PROVE  LInv'
<1>1. \A t : QueuedAcks(t)' \subseteq QueuedAcks(t)
             /\ (PausedAckDropped(t) => PausedAckDropped(t)')
  BY Zenon, CalmAcks
<1>2. LedgerTypes'
  BY Zenon DEF LInv, LedgerTypes, Entries
<1>3. Unlatched'
  BY Zenon DEF LInv, Unlatched
<1>4. Latched'
  <2> SUFFICES ASSUME NEW t \in AckTurns, ~(t \in latch'), phase'[t] # "over",
                      ~PausedAckDropped(t)'
               PROVE  QueuedAcks(t)' = {}
    BY Zenon DEF Latched
  <2>1. CASE t \in latch
    BY Zenon, <2>1
  <2>2. CASE t \notin latch
    <3>1. phase[t] # "over"
      BY Zenon
    <3>2. QueuedAcks(t) = {}
      BY Zenon, <1>1, <2>2, <3>1 DEF LInv, Latched
    <3> QED
      BY Zenon, <1>1, <3>2
  <2> QED
    BY Zenon, <2>1, <2>2
<1>5. OneChain'
  BY Zenon DEF LInv, OneChain
<1>6. Kept'
  <2> SUFFICES ASSUME NEW t \in AckTurns, ~PausedAckDropped(t)'
               PROVE  Served(QueuedAcks(t)', Waiting(t)')
    BY Zenon DEF Kept
  <2>1. Waiting(t)' = Waiting(t)
    BY Zenon DEF Waiting, Stale
  <2>2. Served(QueuedAcks(t), Waiting(t))
    BY Zenon, <1>1 DEF LInv, Kept
  <2>3. QueuedAcks(t)' \subseteq QueuedAcks(t) /\ Waiting(t) \subseteq Waiting(t)'
    BY Zenon, <1>1, <2>1
  <2> QED
    BY Zenon, <2>2, <2>3, FewerServed
<1>7. NoAckAfterResult'
  <2> SUFFICES ASSUME NEW i \in Acks(Queued)', phase'[KeyOf[i]] = "over"
               PROVE  discarded'
    BY Zenon DEF NoAckAfterResult
  <2> DEFINE t == KeyOf[i]
  <2>1. i \in QueuedAcks(t)' /\ i \in QueuedAcks(t) /\ i \in Acks(Queued)
    BY Zenon, <1>1 DEF QueuedAcks
  <2>2. CASE phase[t] = "over"
    BY Zenon, <2>1, <2>2 DEF LInv, NoAckAfterResult, Calm
  <2>3. CASE phase[t] # "over" /\ t \in AckTurns
    BY Zenon, <2>1, <2>3
  <2>4. t \in AckTurns
    BY Zenon, <2>1 DEF IInv, Sound, Acks, AckTurns
  <2> QED
    BY Zenon, <2>2, <2>3, <2>4
<1> QED
  BY Zenon, <1>2, <1>3, <1>4, <1>5, <1>6, <1>7 DEF LInv

\* The scheduler's own steps.
LEMMA SchedulerStepKeeps ==
  ASSUME IInv, LInv, SchedulerStep
  PROVE  IInv' /\ LInv'
<1>1. IInv' /\ Calm
  BY Zenon, SchedulerStepCalm
<1>2. /\ UNCHANGED <<phase, claims, generation, chains, spoken, abandoned>>
      /\ latch' = latch \ {KeyOf[i] : i \in settled' \ settled}
  BY Zenon DEF SchedulerStep, OnAckTerminal
<1>3. ASSUME NEW t \in latch \ latch'
      PROVE  PausedAckDropped(t)' \/ QueuedAcks(t)' = {}
  <2>1. PICK i \in settled' \ settled : t = KeyOf[i]
    BY Zenon, <1>2, <1>3
  <2>2. i \in admitted' \/ \A j \in Acks(Queued') : KeyOf[j] # KeyOf[i]
    BY Zenon, <1>1, <2>1 DEF Calm
  <2> QED
    BY Zenon, <2>1, <2>2 DEF PausedAckDropped, QueuedAcks, Acks
<1>4. /\ phase' \in [AckTurns -> Phases] /\ latch' \subseteq latch
      /\ \A t \in AckTurns : phase'[t] = phase[t]
      /\ spoken' \subseteq Acks(Items) /\ abandoned' \subseteq Acks(Items)
  BY Zenon, <1>2 DEF LInv, LedgerTypes
<1> QED
  BY SMTT(60), <1>1, <1>2, <1>3, <1>4, CalmKeeps

\* The speak call of an item that no chain waits for returns.
LEMMA OtherSpeaksKeeps ==
  ASSUME IInv, LInv, NEW i \in Items, OtherSpeaks(i)
  PROVE  IInv' /\ LInv'
<1>1. /\ SpeakReturns(i) /\ spoken' = spoken \cup Acks({i})
      /\ UNCHANGED <<phase, latch, claims, generation, chains, abandoned>>
  BY Zenon DEF OtherSpeaks
<1>2. IInv'
  BY Zenon, <1>1, SpeakReturnsKeeps
<1>3. Calm
  BY Zenon, <1>1, StillCalm DEF SpeakReturns
<1>4. /\ phase' \in [AckTurns -> Phases] /\ latch' = latch
      /\ \A t \in AckTurns : phase'[t] = phase[t]
      /\ spoken' \subseteq Acks(Items) /\ abandoned' \subseteq Acks(Items)
  BY Zenon, <1>1 DEF LInv, LedgerTypes, Acks
<1> QED
  BY Zenon, <1>1, <1>2, <1>3, <1>4, CalmKeeps

\* A new turn goes on to the tick before its ack.
LEMMA CheckDispatchedKeeps ==
  ASSUME IInv, LInv, NEW t \in AckTurns, CheckDispatched(t)
  PROVE  IInv' /\ LInv'
<1>1. /\ phase[t] = "new" /\ phase' = [phase EXCEPT ![t] = "tick"]
      /\ UNCHANGED <<vars, latch, claims, generation, chains, spoken, abandoned>>
  BY Zenon DEF CheckDispatched
<1>2. IInv'
  BY Zenon, <1>1, NextKeeps
<1>3. Calm
  BY Zenon, <1>1, StillCalm DEF vars
<1>4. /\ phase' \in [AckTurns -> Phases] /\ latch' = latch
      /\ \A u \in AckTurns : phase'[u] = phase[u] \/ (phase[u] = "new" /\ phase'[u] = "tick")
      /\ spoken' \subseteq Acks(Items) /\ abandoned' \subseteq Acks(Items)
  <2>1. phase \in [AckTurns -> Phases] /\ "tick" \in Phases
    BY Zenon DEF LInv, LedgerTypes, Phases
  <2>2. \A u \in AckTurns : phase'[u] = IF u = t THEN "tick" ELSE phase[u]
    BY Zenon, <1>1, <2>1
  <2> QED
    BY Zenon, <1>1, <2>1, <2>2 DEF LInv, LedgerTypes
<1> QED
  BY Zenon, <1>1, <1>2, <1>3, <1>4, CalmKeeps

\* The handler's end drops the latch and the queued ack of its turn.
LEMMA EndTurnKeeps ==
  ASSUME IInv, LInv, NEW t \in AckTurns, EndTurn(t)
  PROVE  IInv' /\ LInv'
<1>1. /\ phase' = [phase EXCEPT ![t] = "over"] /\ latch' = latch \ {t}
      /\ DiscardQueuedAck(t) \/ Cancel({t})
      /\ UNCHANGED <<claims, generation, chains, spoken, abandoned>>
  BY Zenon DEF EndTurn, SettleTurnAck
<1>2. IInv'
  BY Zenon, <1>1, DiscardQueuedAckKeeps, CancelKeeps
<1>3. Calm /\ QueuedAcks(t)' = {}
  <2>1. CASE DiscardQueuedAck(t)
    <3>1. RemoveQueuedAck(t) /\ UNCHANGED <<used, admitted, discarded>>
      BY Zenon, <2>1 DEF DiscardQueuedAck
    <3> QED
      BY Zenon, <3>1, RemoveCalm DEF QueuedAcks
  <2>2. CASE Cancel({t})
    <3>1. Calm /\ Queued' = {i \in Queued : KeyOf[i] \notin {t}}
      BY Zenon, <2>2, CancelCalm
    <3> QED
      BY Zenon, <3>1 DEF QueuedAcks, Acks
  <2> QED
    BY Zenon, <1>1, <2>1, <2>2
<1>4. /\ phase' \in [AckTurns -> Phases] /\ latch' \subseteq latch
      /\ \A u \in AckTurns \ {t} : phase'[u] = phase[u]
      /\ phase'[t] = "over" /\ t \notin latch'
      /\ \A u \in latch \ latch' : u = t
      /\ spoken' \subseteq Acks(Items) /\ abandoned' \subseteq Acks(Items)
  BY Zenon, <1>1 DEF LInv, LedgerTypes, Phases
<1>5. /\ \A u \in AckTurns :
            \/ phase'[u] = phase[u]
            \/ phase'[u] = "over" /\ u \notin latch' /\ QueuedAcks(u)' = {}
      /\ \A u \in latch \ latch' : phase'[u] = "over"
  BY Zenon, <1>3, <1>4
<1> QED
  BY SMTT(60), <1>1, <1>2, <1>3, <1>4, <1>5, CalmKeeps

\* A late commit after a reconnect drops the latch only: the retired lane is discarded.
LEMMA EndTurnElsewhereKeeps ==
  ASSUME IInv, LInv, NEW t \in AckTurns, EndTurnElsewhere(t)
  PROVE  IInv' /\ LInv'
<1>1. /\ epoch # "current" /\ phase' = [phase EXCEPT ![t] = "over"] /\ latch' = latch \ {t}
      /\ UNCHANGED <<vars, claims, generation, chains, spoken, abandoned>>
  BY Zenon DEF EndTurnElsewhere
<1>2. IInv'
  BY Zenon, <1>1, NextKeeps
<1>3. Calm /\ discarded'
  BY Zenon, <1>1, StillCalm DEF vars, IInv, LaneAgrees
<1>4. /\ phase' \in [AckTurns -> Phases] /\ latch' \subseteq latch
      /\ \A u \in AckTurns \ {t} : phase'[u] = phase[u]
      /\ phase'[t] = "over" /\ t \notin latch'
      /\ \A u \in latch \ latch' : u = t
      /\ spoken' \subseteq Acks(Items) /\ abandoned' \subseteq Acks(Items)
  BY Zenon, <1>1 DEF LInv, LedgerTypes, Phases
<1> QED
  BY Zenon, <1>1, <1>2, <1>3, <1>4, CalmKeeps

\* The cancellation of the sole child of a latched turn takes its queued ack along.
LEMMA CancelSoleChildKeeps ==
  ASSUME IInv, LInv, NEW t \in AckTurns, CancelSoleChild(t)
  PROVE  IInv' /\ LInv'
<1>1. /\ Cancel({t}) /\ latch' = latch \ {t}
      /\ UNCHANGED <<phase, claims, generation, chains, spoken, abandoned>>
  BY Zenon DEF CancelSoleChild
<1>2. IInv'
  BY Zenon, <1>1, CancelKeeps
<1>3. Calm /\ Queued' = {i \in Queued : KeyOf[i] \notin {t}}
  BY Zenon, <1>1, CancelCalm
<1>4. QueuedAcks(t)' = {}
  BY Zenon, <1>3 DEF QueuedAcks, Acks
<1>5. /\ phase' \in [AckTurns -> Phases] /\ latch' \subseteq latch
      /\ \A u \in AckTurns : phase'[u] = phase[u]
      /\ \A u \in latch \ latch' : u = t
      /\ spoken' \subseteq Acks(Items) /\ abandoned' \subseteq Acks(Items)
  BY Zenon, <1>1 DEF LInv, LedgerTypes
<1> QED
  BY Zenon, <1>1, <1>2, <1>3, <1>4, <1>5, CalmKeeps

\* The cancellation of all work takes every queued ack along.
LEMMA CancelAllKeeps ==
  ASSUME IInv, LInv, CancelAll
  PROVE  IInv' /\ LInv'
<1> DEFINE gone == {KeyOf[i] : i \in Acks(Queued \cup Paused \cup ({active} \ {None}))}
<1>1. /\ Cancel(Keys) /\ latch' = latch \ gone
      /\ UNCHANGED <<phase, claims, generation, chains, spoken, abandoned>>
  BY Zenon DEF CancelAll
<1> HIDE DEF gone
<1>2. IInv'
  BY Zenon, <1>1, CancelKeeps
<1>3. Calm /\ Queued' = {i \in Queued : KeyOf[i] \notin Keys}
  BY Zenon, <1>1, CancelCalm
<1>4. \A t : QueuedAcks(t)' = {}
  BY Zenon, <1>3 DEF QueuedAcks, Acks, Keys, IInv, Sound
<1>5. /\ phase' \in [AckTurns -> Phases] /\ latch' \subseteq latch
      /\ \A u \in AckTurns : phase'[u] = phase[u]
      /\ spoken' \subseteq Acks(Items) /\ abandoned' \subseteq Acks(Items)
  BY Zenon, <1>1 DEF LInv, LedgerTypes
<1> QED
  BY Zenon, <1>1, <1>2, <1>3, <1>4, <1>5, CalmKeeps

-----------------------------------------------------------------------------
(* Emitting an ack *)

\* A claim takes a fresh number; every other turn keeps its number or is evicted,
\* and the map stays within its limit.
LEMMA ClaimFacts ==
  ASSUME LedgerTypes, NEW t \in AckTurns, Claim(t)
  PROVE  /\ claims' = claims + 1
         /\ generation' \in [AckTurns -> 0..claims']
         /\ generation'[t] \in {0, claims + 1}
         /\ \A u \in AckTurns \ {t} : generation'[u] \in {0, generation[u]}
         /\ IsFiniteSet(Entries') /\ Cardinality(Entries') <= MaxGenerationTurns
<1> DEFINE g == [generation EXCEPT ![t] = claims + 1]
           entries == {u \in AckTurns : g[u] # 0}
           oldest == CHOOSE u \in entries : \A v \in entries : g[u] <= g[v]
<1>1. /\ claims' = claims + 1
      /\ generation' = IF Cardinality(entries) > MaxGenerationTurns
                       THEN [g EXCEPT ![oldest] = 0] ELSE g
  BY Zenon DEF Claim
<1>2. /\ claims \in Nat /\ generation \in [AckTurns -> 0..claims]
      /\ IsFiniteSet(Entries) /\ Cardinality(Entries) <= MaxGenerationTurns
      /\ MaxGenerationTurns \in Nat
  BY Zenon, LedgerLimits DEF LedgerTypes
<1>3. /\ g \in [AckTurns -> 0..(claims + 1)]
      /\ g[t] = claims + 1 /\ \A u \in AckTurns \ {t} : g[u] = generation[u]
  BY <1>2
<1>4. entries = Entries \cup {t}
  BY <1>2, <1>3 DEF Entries
<1>5. oldest \in entries
  <2> DEFINE B == {g[u] : u \in entries}
  <2>1. B \subseteq Nat /\ B # {}
    BY <1>2, <1>3, <1>4
  <2>2. PICK m \in B : \A n \in B : m <= n
    BY Zenon, <2>1, LeastElement
  <2>3. \E u \in entries : \A v \in entries : g[u] <= g[v]
    BY Zenon, <2>2
  <2> QED
    BY Zenon, <2>3
<1> HIDE DEF g, oldest
<1>6. /\ IsFiniteSet(entries) /\ Cardinality(entries) \in Nat
      /\ Cardinality(entries) <= MaxGenerationTurns + 1
  <2>1. /\ IsFiniteSet(Entries \cup {t}) /\ Cardinality(Entries) \in Nat
        /\ \/ Cardinality(Entries \cup {t}) = Cardinality(Entries)
           \/ Cardinality(Entries \cup {t}) = Cardinality(Entries) + 1
    BY Zenon, <1>2, FS_AddElement, FS_CardinalityType
  <2> QED
    BY <1>2, <1>4, <2>1
<1>7. CASE Cardinality(entries) > MaxGenerationTurns
  <2>1. generation' = [g EXCEPT ![oldest] = 0]
    BY Zenon, <1>1, <1>7
  <2>2. Entries' = entries \ {oldest}
    BY Zenon, <1>3, <1>5, <2>1 DEF Entries
  <2>3. IsFiniteSet(entries \ {oldest})
        /\ Cardinality(entries \ {oldest}) = Cardinality(entries) - 1
    <3> HIDE DEF entries
    <3> QED
      BY Zenon, <1>5, <1>6, FS_RemoveElement
  <2>4. IsFiniteSet(Entries') /\ Cardinality(Entries') <= MaxGenerationTurns
    BY SMTT(60), <1>2, <1>6, <2>2, <2>3
  <2>5. \A u \in AckTurns : generation'[u] = IF u = oldest THEN 0 ELSE g[u]
    BY Zenon, <1>3, <2>1
  <2>6. generation' \in [AckTurns -> 0..(claims + 1)]
    <3>1. generation' = [u \in AckTurns |-> IF u = oldest THEN 0 ELSE g[u]]
      BY Zenon, <1>3, <2>1
    <3>2. 0 \in 0..(claims + 1) /\ \A u \in AckTurns : g[u] \in 0..(claims + 1)
      BY SMTT(60), <1>2, <1>3
    <3> QED
      BY Zenon, <3>1, <3>2
  <2> QED
    BY Zenon, <1>1, <1>3, <2>4, <2>5, <2>6
<1>8. CASE ~(Cardinality(entries) > MaxGenerationTurns)
  <2>1. generation' = g
    BY Zenon, <1>1, <1>8
  <2>2. Entries' = entries
    BY Zenon, <2>1 DEF Entries
  <2>3. IsFiniteSet(Entries') /\ Cardinality(Entries') <= MaxGenerationTurns
    BY SMTT(60), <1>2, <1>6, <1>8, <2>2
  <2> QED
    BY Zenon, <1>1, <1>3, <2>1, <2>3
<1> QED
  BY Zenon, <1>7, <1>8

\* enqueue, latch and schedule in one step: the new ack has the new chain.
LEMMA EmitKeeps ==
  ASSUME IInv, LInv, NEW i \in Acks(Items), EnqueueLatchSchedule(i),
         NEW ph \in {"waiting", "open"}, phase' = [phase EXCEPT ![KeyOf[i]] = ph],
         KeyOf[i] \notin latch, phase[KeyOf[i]] # "over",
         UNCHANGED <<spoken, abandoned>>
  PROVE  IInv' /\ LInv'
<1> DEFINE t == KeyOf[i]
           new == Chain(t, claims + 1, 1, "admit", i)
<1>1. /\ EnqueueAck(i) /\ latch' = latch \cup {t} /\ Claim(t)
      /\ chains' = chains \cup {new}
  BY Zenon DEF EnqueueLatchSchedule
<1>2. /\ IsAck(i) /\ i \in Items /\ t \in AckTurns /\ KeyOf[i] = t
      /\ MaxAttempts \in Nat /\ 1 <= MaxAttempts
  BY LedgerLimits DEF Acks, AckTurns
<1>3. IInv'
  BY Zenon, <1>1, <1>2, EnqueueAckKeeps
<1>4. /\ Queued' = Queued \cup {i}
      /\ UNCHANGED <<admitted, settled, discarded>>
  BY Zenon, <1>1, <1>2, InsertFacts DEF EnqueueAck, IInv, TypeOK, Queued
<1>5. /\ claims' = claims + 1
      /\ generation' \in [AckTurns -> 0..claims']
      /\ generation'[t] \in {0, claims + 1}
      /\ \A u \in AckTurns \ {t} : generation'[u] \in {0, generation[u]}
      /\ IsFiniteSet(Entries') /\ Cardinality(Entries') <= MaxGenerationTurns
  BY Zenon, <1>1, <1>2, ClaimFacts DEF LInv
<1>6. /\ new.turn = t /\ new.gen = claims + 1 /\ new.attempt = 1 /\ new.at = "admit"
      /\ new \in ChainsUpTo(claims + 1)
  BY <1>2 DEF Chain, ChainsUpTo, LInv, LedgerTypes
<1>7. /\ phase \in [AckTurns -> Phases] /\ claims \in Nat
      /\ phase' \in [AckTurns -> Phases] /\ phase'[t] = ph
      /\ \A u \in AckTurns \ {t} : phase'[u] = phase[u]
  BY Zenon, <1>2 DEF LInv, LedgerTypes, Phases
<1>8. \A u \in AckTurns : PausedAckDropped(u)' <=> PausedAckDropped(u)
  BY Zenon, <1>4 DEF PausedAckDropped
<1>9. /\ QueuedAcks(t)' = QueuedAcks(t) \cup {i}
      /\ \A u \in AckTurns \ {t} : QueuedAcks(u)' = QueuedAcks(u)
  BY Zenon, <1>2, <1>4 DEF QueuedAcks, Acks
<1>10. QueuedAcks(t) = {} \/ PausedAckDropped(t)
  BY Zenon, <1>2 DEF LInv, Latched
<1> HIDE DEF t, new
<1>11. LedgerTypes'
  <2>1. ChainsUpTo(claims) \subseteq ChainsUpTo(claims + 1)
    BY <1>7 DEF ChainsUpTo
  <2> QED
    BY SMTT(60), <1>1, <1>2, <1>5, <1>6, <1>7, <2>1 DEF LInv, LedgerTypes
<1>12. Unlatched'
  BY Zenon, <1>1, <1>7 DEF LInv, Unlatched
<1>13. Latched'
  BY Zenon, <1>1, <1>7, <1>8, <1>9 DEF LInv, Latched
<1>14. OneChain'
  <2>1. \A c \in chains : c.gen # claims + 1
    BY <1>7 DEF LInv, LedgerTypes, ChainsUpTo
  <2> QED
    BY Zenon, <1>1, <1>6, <2>1 DEF LInv, OneChain
<1>15. Kept'
  <2> SUFFICES ASSUME NEW u \in AckTurns, ~PausedAckDropped(u)'
               PROVE  Served(QueuedAcks(u)', Waiting(u)')
    BY Zenon DEF Kept
  <2>1. CASE u = t
    <3>1. new \in Waiting(t)'
      BY Zenon, <1>1, <1>5, <1>6 DEF Waiting, Stale
    <3>2. QueuedAcks(t)' = {i}
      BY Zenon, <1>2, <1>8, <1>9, <1>10, <2>1
    <3> QED
      BY Zenon, <2>1, <3>1, <3>2, OneServed
  <2>2. CASE u # t
    <3>1. Waiting(u) \subseteq Waiting(u)'
      BY Zenon, <1>1, <1>5, <2>2 DEF Waiting, Stale
    <3>2. Served(QueuedAcks(u), Waiting(u)) /\ QueuedAcks(u)' \subseteq QueuedAcks(u)
      BY Zenon, <1>8, <1>9, <2>2 DEF LInv, Kept
    <3> QED
      BY Zenon, <3>1, <3>2, FewerServed
  <2> QED
    BY Zenon, <2>1, <2>2
<1>16. NoAckAfterResult'
  <2> SUFFICES ASSUME NEW j \in Acks(Queued)', phase'[KeyOf[j]] = "over"
               PROVE  discarded'
    BY Zenon DEF NoAckAfterResult
  <2>1. KeyOf[j] # t
    BY Zenon, <1>7
  <2>2. j \in Acks(Queued) /\ KeyOf[j] \in AckTurns
    BY Zenon, <1>2, <1>4, <2>1 DEF Acks, AckTurns, IInv, Sound
  <2> QED
    BY Zenon, <1>4, <1>7, <2>1, <2>2 DEF LInv, NoAckAfterResult
<1> QED
  BY Zenon, <1>3, <1>11, <1>12, <1>13, <1>14, <1>15, <1>16 DEF LInv

\* The ack emitted at the routing decision.
LEMMA EmitAtDecisionKeeps ==
  ASSUME IInv, LInv, NEW i \in Acks(Items), EmitAtDecision(i)
  PROVE  IInv' /\ LInv'
<1>1. /\ EnqueueLatchSchedule(i) /\ phase' = [phase EXCEPT ![KeyOf[i]] = "open"]
      /\ KeyOf[i] \notin latch /\ phase[KeyOf[i]] # "over"
      /\ UNCHANGED <<spoken, abandoned>>
  BY Zenon DEF EmitAtDecision, Eligible
<1>2. PICK ph \in {"waiting", "open"} : phase' = [phase EXCEPT ![KeyOf[i]] = ph]
  BY Zenon, <1>1
<1> QED
  BY Zenon, <1>1, <1>2, EmitKeeps

\* The ack emitted after the tick.
LEMMA EmitAfterTickKeeps ==
  ASSUME IInv, LInv, NEW i \in Acks(Items), EmitAfterTick(i)
  PROVE  IInv' /\ LInv'
<1>1. /\ EnqueueLatchSchedule(i) /\ phase' = [phase EXCEPT ![KeyOf[i]] = "waiting"]
      /\ phase[KeyOf[i]] = "tick"
      /\ UNCHANGED <<spoken, abandoned>>
  BY Zenon DEF EmitAfterTick
<1>2. KeyOf[i] \notin latch /\ phase[KeyOf[i]] # "over"
  BY Zenon, <1>1 DEF AckTurns, LInv, Unlatched
<1>3. PICK ph \in {"waiting", "open"} : phase' = [phase EXCEPT ![KeyOf[i]] = ph]
  BY Zenon, <1>1
<1> QED
  BY Zenon, <1>1, <1>2, <1>3, EmitKeeps

-----------------------------------------------------------------------------
(* A chain's step *)

\* The chain goes on as the one of D, or ends.
LEMMA ChainBooks ==
  ASSUME LInv, NEW c \in chains, NEW D, Become(c, D),
         \A d \in D : /\ d \in ChainsUpTo(claims) /\ d.turn = c.turn /\ d.gen = c.gen
                      /\ d.at = "sleep" => d.attempt < MaxAttempts,
         \A d, e \in D : d = e,
         UNCHANGED <<phase, claims, generation>>,
         latch' \subseteq latch,
         spoken' \subseteq Acks(Items), abandoned' \subseteq Acks(Items)
  PROVE  /\ LedgerTypes' /\ Unlatched' /\ OneChain'
         /\ \A u \in AckTurns \ {c.turn} : Waiting(u)' = Waiting(u)
         /\ Waiting(c.turn)' =
               (Waiting(c.turn) \ {c}) \cup {d \in D : ~Stale(c) /\ d.at # "speak"}
<1>1. chains' = (chains \ {c}) \cup D
  BY Zenon DEF Become
<1>2. c.turn \in AckTurns
  BY Zenon DEF LInv, LedgerTypes, ChainsUpTo
<1>3. LedgerTypes'
  BY Zenon, <1>1 DEF LInv, LedgerTypes, Entries
<1>4. Unlatched'
  BY Zenon DEF LInv, Unlatched
<1>5. OneChain'
  BY ZenonT(60), <1>1 DEF LInv, OneChain
<1>6. ASSUME NEW u \in AckTurns \ {c.turn} PROVE Waiting(u)' = Waiting(u)
  BY Zenon, <1>1 DEF Waiting, Stale
<1>7. Waiting(c.turn)' =
         (Waiting(c.turn) \ {c}) \cup {d \in D : ~Stale(c) /\ d.at # "speak"}
  BY Zenon, <1>1 DEF Waiting, Stale
<1> QED
  BY Zenon, <1>3, <1>4, <1>5, <1>6, <1>7

\* The rest of the invariant, from what the step does to the turn's acks.
LEMMA ChainKeeps ==
  ASSUME IInv, IInv', LInv, NEW t \in AckTurns,
         LedgerTypes', Unlatched', OneChain',
         \A u \in AckTurns \ {t} : Waiting(u)' = Waiting(u),
         \A u \in AckTurns \ {t} : QueuedAcks(u)' \subseteq QueuedAcks(u),
         \A u \in AckTurns : PausedAckDropped(u) => PausedAckDropped(u)',
         PausedAckDropped(t)' \/ Served(QueuedAcks(t)', Waiting(t)'),
         \/ latch' = latch
         \/ latch' = latch \ {t} /\ QueuedAcks(t)' = {},
         QueuedAcks(t)' \subseteq QueuedAcks(t) \/ t \in latch',
         phase' = phase, discarded => discarded'
  PROVE  LInv'
<1>1. Latched'
  <2> SUFFICES ASSUME NEW u \in AckTurns, u \notin latch', phase'[u] # "over",
                      ~PausedAckDropped(u)'
               PROVE  QueuedAcks(u)' = {}
    BY Zenon DEF Latched
  <2>1. QueuedAcks(u)' = {} \/ (u \notin latch /\ QueuedAcks(u)' \subseteq QueuedAcks(u))
    BY Zenon
  <2> QED
    BY Zenon, <2>1 DEF LInv, Latched
<1>2. Kept'
  <2> SUFFICES ASSUME NEW u \in AckTurns \ {t}, ~PausedAckDropped(u)'
               PROVE  Served(QueuedAcks(u)', Waiting(u)')
    BY Zenon DEF Kept
  <2>1. Served(QueuedAcks(u), Waiting(u))
    BY Zenon DEF LInv, Kept
  <2>2. QueuedAcks(u)' \subseteq QueuedAcks(u) /\ Waiting(u) \subseteq Waiting(u)'
    BY Zenon
  <2> QED
    BY Zenon, <2>1, <2>2, FewerServed
<1>3. NoAckAfterResult'
  <2> SUFFICES ASSUME NEW i \in Acks(Queued)', phase'[KeyOf[i]] = "over"
               PROVE  discarded'
    BY Zenon DEF NoAckAfterResult
  <2> DEFINE u == KeyOf[i]
  <2>1. i \in QueuedAcks(u)' /\ u \in AckTurns
    BY Zenon DEF QueuedAcks, IInv, Sound, Acks, AckTurns
  <2>2. i \in QueuedAcks(u)
    BY Zenon, <2>1 DEF LInv, Unlatched
  <2>3. i \in Acks(Queued)
    BY Zenon, <2>2 DEF QueuedAcks
  <2> QED
    BY Zenon, <2>3 DEF LInv, NoAckAfterResult
<1> QED
  BY Zenon, <1>1, <1>2, <1>3 DEF LInv

\* A chain that comes back later, asleep or awake, keeps its place.
LEMMA ChainGoesOnKeeps ==
  ASSUME IInv, IInv', LInv, NEW c \in chains, c.at # "speak",
         NEW d \in ChainsUpTo(claims), d.turn = c.turn, d.gen = c.gen, d.at # "speak",
         d.at = "sleep" => d.attempt < MaxAttempts,
         Become(c, {d}),
         UNCHANGED <<used, queue, settled, admitted, discarded>>,
         UNCHANGED <<phase, latch, claims, generation, spoken, abandoned>>
  PROVE  LInv'
<1> DEFINE t == c.turn
<1>1. /\ t \in AckTurns
      /\ spoken' \subseteq Acks(Items) /\ abandoned' \subseteq Acks(Items)
  BY Zenon DEF LInv, LedgerTypes, ChainsUpTo
<1>2. /\ LedgerTypes' /\ Unlatched' /\ OneChain'
      /\ \A u \in AckTurns \ {t} : Waiting(u)' = Waiting(u)
      /\ Waiting(t)' = (Waiting(t) \ {c}) \cup {e \in {d} : ~Stale(c) /\ e.at # "speak"}
  <2> DEFINE D == {d}
  <2>1. /\ \A e \in D : /\ e \in ChainsUpTo(claims) /\ e.turn = c.turn /\ e.gen = c.gen
                        /\ e.at = "sleep" => e.attempt < MaxAttempts
        /\ \A e, f \in D : e = f
        /\ Become(c, D)
    BY Zenon
  <2> HIDE DEF D
  <2>2. /\ LedgerTypes' /\ Unlatched' /\ OneChain'
        /\ \A u \in AckTurns \ {t} : Waiting(u)' = Waiting(u)
        /\ Waiting(t)' = (Waiting(t) \ {c}) \cup {e \in D : ~Stale(c) /\ e.at # "speak"}
    BY Zenon, <1>1, <2>1, ChainBooks
  <2> QED
    BY Zenon, <2>2 DEF D
<1>3. \A u : /\ QueuedAcks(u)' = QueuedAcks(u)
             /\ PausedAckDropped(u)' <=> PausedAckDropped(u)
  BY Zenon DEF QueuedAcks, PausedAckDropped, Queued, Acks
<1> HIDE DEF t
<1>4. PausedAckDropped(t)' \/ Served(QueuedAcks(t)', Waiting(t)')
  <2> SUFFICES ASSUME Served(QueuedAcks(t), Waiting(t))
               PROVE  Served(QueuedAcks(t), Waiting(t)')
    BY Zenon, <1>1, <1>3 DEF LInv, Kept
  <2>1. CASE Stale(c)
    <3>1. Waiting(t)' = Waiting(t)
      BY Zenon, <1>2, <2>1 DEF Waiting
    <3> QED
      BY Zenon, <3>1
  <2>2. CASE ~Stale(c)
    <3>1. Waiting(t)' = (Waiting(t) \ {c}) \cup {d}
      BY Zenon, <1>2, <2>2
    <3>2. d \notin Waiting(t) \ {c}
      BY Zenon DEF Waiting, LInv, OneChain
    <3> QED
      BY SMTT(60), <3>1, <3>2, OneChanged
  <2> QED
    BY Zenon, <2>1, <2>2
<1> QED
  BY Zenon, <1>1, <1>2, <1>3, <1>4, ChainKeeps

\* A retry chain wakes from its sleep for the next attempt.
LEMMA ChainWakesKeeps ==
  ASSUME IInv, LInv, NEW c \in chains, ChainWakes(c)
  PROVE  IInv' /\ LInv'
<1> DEFINE d == [c EXCEPT !.at = "admit", !.attempt = @ + 1]
<1>1. /\ c.at = "sleep" /\ Become(c, {d})
      /\ UNCHANGED <<vars, phase, latch, claims, generation, spoken, abandoned>>
  BY Zenon DEF ChainWakes, RetryCounted
<1>2. IInv'
  BY Zenon, <1>1, NextKeeps
<1>3. c \in ChainsUpTo(claims) /\ c.attempt < MaxAttempts /\ MaxAttempts \in Nat
  BY Zenon, <1>1, LedgerLimits DEF LInv, LedgerTypes
<1>4. /\ d.turn = c.turn /\ d.gen = c.gen /\ d.at = "admit"
      /\ d \in ChainsUpTo(claims)
  <2>1. c.attempt \in 1..MaxAttempts /\ c.attempt + 1 \in 1..MaxAttempts
    BY <1>3 DEF ChainsUpTo
  <2> DEFINE n == c.attempt + 1
             e == [c EXCEPT !.at = "admit", !.attempt = n]
  <2>2. d = e
    BY Zenon
  <2>3. n \in 1..MaxAttempts
    BY Zenon, <2>1
  <2> HIDE DEF n, d
  <2>4. /\ e.turn = c.turn /\ e.gen = c.gen /\ e.at = "admit"
        /\ e \in ChainsUpTo(claims)
    BY Zenon, <1>3, <2>3 DEF ChainsUpTo
  <2> QED
    BY Zenon, <2>2, <2>4
<1> HIDE DEF d
<1> QED
  BY Zenon, <1>1, <1>2, <1>4, ChainGoesOnKeeps DEF vars

\* _retry_or_abandon, before an admission (requeue is FALSE) or after a failed one.
LEMMA RetryOrAbandonKeeps ==
  ASSUME IInv, IInv', LInv, NEW c \in chains, NEW requeue \in BOOLEAN,
         RetryOrAbandon(c, requeue), requeue <=> c.at = "speak",
         UNCHANGED <<phase, claims, generation, spoken, admitted, discarded>>
  PROVE  LInv'
<1> DEFINE t == c.turn
<1>1. /\ c \in ChainsUpTo(claims) /\ t \in AckTurns /\ c.ack \in Acks(Items)
      /\ spoken' \subseteq Acks(Items)
  BY Zenon DEF LInv, LedgerTypes, ChainsUpTo
<1>2. ASSUME Become(c, {}), abandoned' \subseteq Acks(Items), latch' \subseteq latch
      PROVE  /\ LedgerTypes' /\ Unlatched' /\ OneChain'
             /\ \A u \in AckTurns \ {t} : Waiting(u)' = Waiting(u)
             /\ Waiting(t)' = Waiting(t) \ {c}
  <2> DEFINE D == {}
  <2>1. Become(c, D) /\ D = {}
    BY Zenon, <1>2
  <2> HIDE DEF D
  <2>2. /\ LedgerTypes' /\ Unlatched' /\ OneChain'
        /\ \A u \in AckTurns \ {t} : Waiting(u)' = Waiting(u)
        /\ Waiting(t)' = (Waiting(t) \ {c}) \cup {e \in D : ~Stale(c) /\ e.at # "speak"}
    BY SMTT(60), <1>1, <1>2, <2>1, ChainBooks
  <2> QED
    BY Zenon, <2>1, <2>2
<1>3. CASE /\ Stale(c)
           /\ Become(c, {})
           /\ UNCHANGED <<used, queue, settled, latch, abandoned>>
  <2>1. /\ LedgerTypes' /\ Unlatched' /\ OneChain'
        /\ \A u \in AckTurns \ {t} : Waiting(u)' = Waiting(u)
        /\ Waiting(t)' = Waiting(t) \ {c}
    BY Zenon, <1>2, <1>3 DEF LInv, LedgerTypes
  <2>2. Waiting(t)' = Waiting(t)
    BY Zenon, <1>3, <2>1 DEF Waiting
  <2>3. \A u : /\ QueuedAcks(u)' = QueuedAcks(u)
               /\ PausedAckDropped(u)' <=> PausedAckDropped(u)
    BY Zenon, <1>3 DEF QueuedAcks, PausedAckDropped, Queued, Acks
  <2>4. PausedAckDropped(t)' \/ Served(QueuedAcks(t)', Waiting(t)')
    BY Zenon, <1>1, <2>2, <2>3 DEF LInv, Kept
  <2> QED
    BY Zenon, <1>1, <1>3, <2>1, <2>3, <2>4, ChainKeeps
<1>4. CASE /\ SettleTurnAck(t)
           /\ Become(c, {})
           /\ abandoned' = IF ChainLive(c) THEN abandoned \cup {c.ack} ELSE abandoned
           /\ UNCHANGED used
  <2>1. /\ RemoveQueuedAck(t) /\ latch' = latch \ {t} /\ abandoned' \subseteq Acks(Items)
    BY Zenon, <1>1, <1>4 DEF SettleTurnAck, LInv, LedgerTypes
  <2>2. /\ LedgerTypes' /\ Unlatched' /\ OneChain'
        /\ \A u \in AckTurns \ {t} : Waiting(u)' = Waiting(u)
    BY Zenon, <1>2, <1>4, <2>1
  <2>3. Calm /\ QueuedAcks(t)' = {}
    BY Zenon, <1>4, <2>1, RemoveCalm DEF QueuedAcks
  <2>4. \A u : /\ QueuedAcks(u)' \subseteq QueuedAcks(u)
               /\ PausedAckDropped(u) => PausedAckDropped(u)'
    BY Zenon, <2>3, CalmAcks
  <2>5. Served(QueuedAcks(t)', Waiting(t)')
    BY Zenon, <2>3, NobodyServed
  <2> QED
    BY Zenon, <1>1, <2>1, <2>2, <2>3, <2>4, <2>5, ChainKeeps
<1>5. CASE /\ ~Stale(c)
           /\ ChainLive(c) /\ c.attempt < MaxAttempts
           /\ SleepBeforeRetry(c, requeue)
           /\ UNCHANGED <<settled, latch, abandoned>>
  <2>1. CASE ~requeue
    <3> DEFINE d == [c EXCEPT !.at = "sleep"]
    <3>1. Become(c, {d}) /\ UNCHANGED <<used, queue>>
      BY Zenon, <1>5, <2>1 DEF SleepBeforeRetry
    <3>2. /\ d.turn = c.turn /\ d.gen = c.gen /\ d.at = "sleep" /\ d.attempt = c.attempt
          /\ d \in ChainsUpTo(claims)
      BY Zenon, <1>1 DEF ChainsUpTo
    <3> HIDE DEF d
    <3> QED
      BY Zenon, <1>5, <2>1, <3>1, <3>2, ChainGoesOnKeeps
  <2>2. CASE requeue
    <3>1. PICK j \in Acks(Items) \ used :
             /\ KeyOf[j] = t
             /\ used' = used \cup {j}
             /\ queue' = Insert(queue, j)
             /\ Become(c, {[c EXCEPT !.at = "sleep", !.ack = j]})
      BY Zenon, <1>5, <2>2 DEF SleepBeforeRetry
    <3> DEFINE d == [c EXCEPT !.at = "sleep", !.ack = j]
               D == {d}
    <3>2. /\ d.turn = c.turn /\ d.gen = c.gen /\ d.at = "sleep" /\ d.attempt = c.attempt
          /\ d \in ChainsUpTo(claims)
      BY Zenon, <1>1, <3>1 DEF ChainsUpTo
    <3>3. /\ \A e \in D : /\ e \in ChainsUpTo(claims) /\ e.turn = c.turn /\ e.gen = c.gen
                          /\ e.at = "sleep" => e.attempt < MaxAttempts
          /\ \A e, f \in D : e = f
          /\ Become(c, D)
      BY Zenon, <1>5, <3>1, <3>2
    <3> HIDE DEF d
    <3>4. D = {d}
      BY Zenon
    <3> HIDE DEF D
    <3>5. latch' = latch /\ t \in latch /\ abandoned' \subseteq Acks(Items)
      BY Zenon, <1>5 DEF ChainLive, LInv, LedgerTypes
    <3>6. /\ LedgerTypes' /\ Unlatched' /\ OneChain'
          /\ \A u \in AckTurns \ {t} : Waiting(u)' = Waiting(u)
          /\ Waiting(t)' = (Waiting(t) \ {c}) \cup {e \in D : ~Stale(c) /\ e.at # "speak"}
      BY Zenon, <1>1, <3>3, <3>5, ChainBooks
    <3>7. Waiting(t)' = Waiting(t) \cup {d} /\ d \notin Waiting(t)
      <4>1. c \notin Waiting(t)
        BY Zenon, <2>2 DEF Waiting
      <4>2. Waiting(t)' = Waiting(t) \cup {d}
        BY Zenon, <1>5, <3>2, <3>4, <3>6, <4>1
      <4>3. d \notin chains
        BY Zenon, <2>2, <3>2 DEF LInv, OneChain
      <4> QED
        BY Zenon, <4>2, <4>3 DEF Waiting
    <3>8. Queued' = Queued \cup {j} /\ IsAck(j)
      BY Zenon, <3>1, InsertFacts DEF IInv, TypeOK, Queued, Acks
    <3>9. /\ QueuedAcks(t)' = QueuedAcks(t) \cup {j}
          /\ \A u \in AckTurns \ {t} : QueuedAcks(u)' \subseteq QueuedAcks(u)
      BY Zenon, <3>1, <3>8 DEF QueuedAcks, Acks
    <3>10. \A u : PausedAckDropped(u)' <=> PausedAckDropped(u)
      BY Zenon, <1>5 DEF PausedAckDropped
    <3>11. PausedAckDropped(t)' \/ Served(QueuedAcks(t)', Waiting(t)')
      <4> SUFFICES ASSUME Served(QueuedAcks(t), Waiting(t))
                   PROVE  Served(QueuedAcks(t)', Waiting(t)')
        BY Zenon, <1>1, <3>10 DEF LInv, Kept
      <4> DEFINE A == QueuedAcks(t)
                 W == Waiting(t)
      <4>1. Served(A, W) /\ d \notin W
        BY Zenon, <3>7
      <4> HIDE DEF A, W
      <4>2. Served(A \cup {j}, W \cup {d})
        BY Zenon, <4>1, OneMore
      <4> QED
        BY Zenon, <3>7, <3>9, <4>2 DEF A, W
    <3> QED
      BY Zenon, <1>1, <3>5, <3>6, <3>9, <3>10, <3>11, ChainKeeps
  <2> QED
    BY Zenon, <2>1, <2>2
<1> QED
  BY Zenon, <1>3, <1>4, <1>5 DEF RetryOrAbandon

\* start_next on a turn whose ack can be admitted takes an ack of it from the queue.
LEMMA AdmitAckTakes ==
  ASSUME IInv, NEW t \in AckTurns, Admissible(t), AdmitAck(t)
  PROVE  /\ IInv' /\ Calm /\ UNCHANGED discarded
         /\ active' \in QueuedAcks(t) /\ active' \notin Queued' /\ active' \in Acks(Items)
<1> DEFINE scan == {n \in DOMAIN queue : KeyOf[queue[n]] \in {t}}
           live == {n \in scan : ~Rejected(queue[n])}
           dropped == {queue[n] : n \in {m \in scan : \A l \in live : m < l}}
           mine == {n \in DOMAIN queue : KeyOf[queue[n]] = t}
           i == queue[Min(live)]
<1>1. /\ StartNext({t}, queue, record, active, slot, "speak")
      /\ UNCHANGED <<used, discarded>>
  BY Zenon DEF AdmitAck
<1>2. active = None /\ slot = None /\ mine # {} /\ ~Rejected(queue[Min(mine)])
  BY Zenon DEF Admissible
<1>3. queue \in Seq(Items) /\ scan \subseteq Nat
  BY DEF IInv, TypeOK
<1>4. live # {}
  <2>1. Min(mine) \in mine
    BY Zenon, <1>2, <1>3, MinIsLeast
  <2> QED
    BY Zenon, <1>2, <2>1
<1>5. Min(live) \in live
  BY Zenon, <1>3, <1>4, MinIsLeast
<1>6. i \in Items /\ i \in Queued /\ KeyOf[i] = t
  <2> DEFINE m == Min(live)
  <2>1. m \in DOMAIN queue /\ KeyOf[queue[m]] \in {t} /\ i = queue[m]
    BY Zenon, <1>5
  <2> HIDE DEF m, i
  <2> QED
    BY <1>3, <2>1 DEF Queued, Range
<1>7. IsAck(i)
  BY Zenon, <1>6, SchedulerAssumption DEF AckTurns, Acks, IsAck
<1>8. active' = i /\ queue' = Without(queue, dropped \cup {i})
  BY Zenon, <1>1, <1>2, <1>4 DEF StartNext
<1> HIDE DEF dropped, i
<1>9. Queued' = Queued \ (dropped \cup {i})
  BY Zenon, <1>3, <1>8, WithoutFacts DEF Queued
<1>10. Calm
  <2> DEFINE ks == {t}
  <2>1. (\A k, l \in ks : k = l) /\ StartNext(ks, queue, record, active, slot, "speak")
    BY Zenon, <1>1
  <2> HIDE DEF ks
  <2> QED
    BY Zenon, <1>1, <2>1, ProbeCalm
<1> QED
  BY Zenon, <1>1, <1>6, <1>7, <1>8, <1>9, <1>10, AdmitAckKeeps DEF QueuedAcks, Acks

\* A chain's turn to admit: it speaks, sleeps before a retry, abandons the ack or is stale.
LEMMA ChainAdmitKeeps ==
  ASSUME IInv, LInv, NEW c \in chains, ChainAdmit(c)
  PROVE  IInv' /\ LInv'
<1> DEFINE t == c.turn
<1>1. /\ c \in ChainsUpTo(claims) /\ t \in AckTurns
      /\ spoken \subseteq Acks(Items) /\ abandoned \subseteq Acks(Items)
  BY Zenon DEF LInv, LedgerTypes, ChainsUpTo
<1>2. c.at = "admit" /\ UNCHANGED <<phase, claims, generation, spoken>>
  BY Zenon DEF ChainAdmit
<1>3. CASE ~Stale(c) /\ Admissible(t)
  <2> DEFINE d == [c EXCEPT !.at = "speak", !.ack = active']
             D == {d}
  <2>1. AdmitAck(t) /\ Become(c, D) /\ UNCHANGED <<latch, abandoned>>
    BY Zenon, <1>3 DEF ChainAdmit
  <2>2. /\ IInv' /\ Calm /\ UNCHANGED discarded
        /\ active' \in QueuedAcks(t) /\ active' \notin Queued' /\ active' \in Acks(Items)
    BY Zenon, <1>1, <1>3, <2>1, AdmitAckTakes
  <2>3. /\ d.turn = c.turn /\ d.gen = c.gen /\ d.at = "speak"
        /\ d \in ChainsUpTo(claims)
    BY Zenon, <1>1, <2>2 DEF ChainsUpTo
  <2> HIDE DEF d
  <2>4. /\ \A e \in D : /\ e \in ChainsUpTo(claims) /\ e.turn = c.turn /\ e.gen = c.gen
                        /\ e.at = "sleep" => e.attempt < MaxAttempts
        /\ \A e, f \in D : e = f
        /\ \A e \in D : e.at = "speak"
    BY Zenon, <2>3
  <2> HIDE DEF D
  <2>5. /\ LedgerTypes' /\ Unlatched' /\ OneChain'
        /\ \A u \in AckTurns \ {t} : Waiting(u)' = Waiting(u)
        /\ Waiting(t)' = (Waiting(t) \ {c}) \cup {e \in D : ~Stale(c) /\ e.at # "speak"}
    BY Zenon, <1>1, <1>2, <2>1, <2>4, ChainBooks
  <2>6. \A u : /\ QueuedAcks(u)' \subseteq QueuedAcks(u)
               /\ PausedAckDropped(u) => PausedAckDropped(u)'
    BY Zenon, <2>2, CalmAcks
  <2>7. PausedAckDropped(t)' \/ Served(QueuedAcks(t)', Waiting(t)')
    <3> DEFINE A == QueuedAcks(t)
               W == Waiting(t)
               i == active'
    <3> SUFFICES ASSUME Served(A, W)
                 PROVE  Served(QueuedAcks(t)', Waiting(t)')
      BY Zenon, <1>1, <2>6 DEF LInv, Kept
    <3>1. QueuedAcks(t)' \subseteq A \ {i} /\ W \ {c} \subseteq Waiting(t)' /\ i \in A
      BY Zenon, <2>2, <2>5, <2>6 DEF QueuedAcks, Acks
    <3> HIDE DEF A, W, i
    <3>2. Served(A \ {i}, W \ {c})
      BY Zenon, <3>1, OneLess
    <3> QED
      BY Zenon, <3>1, <3>2, FewerServed
  <2> QED
    BY Zenon, <1>1, <1>2, <2>1, <2>2, <2>5, <2>6, <2>7, ChainKeeps
<1>4. CASE ~(~Stale(c) /\ Admissible(t))
  <2>1. /\ RetryOrAbandon(c, FALSE)
        /\ UNCHANGED <<leaseVars, paused, call, advances, discarded, record,
                       admitted, slotVars, notify, closed, hostVars>>
    BY Zenon, <1>4 DEF ChainAdmit
  <2>2. IInv'
    <3>1. CASE UNCHANGED <<used, queue, settled>>
      <4>1. UNCHANGED vars
        BY Zenon, <2>1, <3>1 DEF vars, leaseVars, slotVars, hostVars
      <4> QED
        BY Zenon, <4>1, NextKeeps
    <3>2. CASE RemoveQueuedAck(t) /\ UNCHANGED used
      <4>1. DiscardQueuedAck(t)
        BY Zenon, <2>1, <3>2 DEF DiscardQueuedAck
      <4> QED
        BY Zenon, <4>1, DiscardQueuedAckKeeps
    <3> QED
      BY Zenon, <2>1, <3>1, <3>2 DEF RetryOrAbandon, SettleTurnAck, SleepBeforeRetry
  <2> QED
    BY Zenon, <1>2, <2>1, <2>2, RetryOrAbandonKeeps
<1> QED
  BY Zenon, <1>3, <1>4

\* The speak call of a chain returns: the ack is spoken and the chain is over.
LEMMA ChainSpeaksKeeps ==
  ASSUME IInv, LInv, NEW c \in chains, ChainSpeaks(c)
  PROVE  IInv' /\ LInv'
<1> DEFINE t == c.turn
           D == {}
<1>1. /\ c.at = "speak" /\ SpeakReturns(c.ack) /\ Become(c, D)
      /\ spoken' = spoken \cup {c.ack}
      /\ UNCHANGED <<phase, latch, claims, generation, abandoned>>
  BY Zenon DEF ChainSpeaks
<1>2. c.ack \in Items /\ c.ack \in Acks(Items) /\ t \in AckTurns
  BY Zenon DEF LInv, LedgerTypes, ChainsUpTo, Acks
<1>3. IInv'
  BY Zenon, <1>1, <1>2, SpeakReturnsKeeps
<1>4. D = {} /\ spoken' \subseteq Acks(Items) /\ abandoned' \subseteq Acks(Items)
  BY Zenon, <1>1, <1>2 DEF LInv, LedgerTypes
<1> HIDE DEF D
<1>5. /\ LedgerTypes' /\ Unlatched' /\ OneChain'
      /\ \A u \in AckTurns \ {t} : Waiting(u)' = Waiting(u)
      /\ Waiting(t)' = (Waiting(t) \ {c}) \cup {e \in D : ~Stale(c) /\ e.at # "speak"}
  BY <1>1, <1>4, ChainBooks
<1>6. Waiting(t)' = Waiting(t)
  BY Zenon, <1>1, <1>4, <1>5 DEF Waiting
<1>7. Calm /\ UNCHANGED discarded
  BY Zenon, <1>1, StillCalm DEF SpeakReturns
<1>8. \A u : /\ QueuedAcks(u)' \subseteq QueuedAcks(u)
             /\ PausedAckDropped(u) => PausedAckDropped(u)'
  BY Zenon, <1>7, CalmAcks
<1>9. PausedAckDropped(t)' \/ Served(QueuedAcks(t)', Waiting(t)')
  <2> SUFFICES ASSUME Served(QueuedAcks(t), Waiting(t))
               PROVE  Served(QueuedAcks(t)', Waiting(t)')
    BY Zenon, <1>2, <1>8 DEF LInv, Kept
  <2>1. QueuedAcks(t)' \subseteq QueuedAcks(t) /\ Waiting(t) \subseteq Waiting(t)'
    BY Zenon, <1>6, <1>8
  <2> QED
    BY Zenon, <2>1, FewerServed
<1> QED
  BY Zenon, <1>1, <1>2, <1>3, <1>5, <1>7, <1>8, <1>9, ChainKeeps

\* A failed submission: its call ends, and an ack of the same turn may be queued or
\* the queued ones removed in the same step.
LEMMA ReleaseKeeps ==
  ASSUME IInv, NEW i \in Items, ReleaseSubmission(i), NEW t,
         \/ UNCHANGED <<used, queue, settled>>
         \/ RemoveQueuedAck(t) /\ UNCHANGED used
         \/ /\ \E j \in Acks(Items) \ used : used' = used \cup {j} /\ queue' = Insert(queue, j)
            /\ UNCHANGED settled
  PROVE  IInv'
<1>0. /\ Sound(Queued, Paused, used, record, active, call, settled, admitted)
      /\ queue \in Seq(Items) /\ paused \in Seq(Items)
      /\ discarded => (\A j \in Queued : IsAck(j)) /\ Paused = {} /\ active = None
      /\ Open \in BOOLEAN /\ (~Open => discarded)
      /\ None \notin Items
  BY Zenon, Remains
<1>1. /\ call[i] = "fail" /\ call' = [call EXCEPT ![i] = "idle"]
      /\ slot' = IF slot = i THEN None ELSE slot
      /\ stopped' = (stopped /\ slot # i)
      /\ active' = IF active = i THEN None ELSE active
      /\ bound' = (bound /\ active # i)
      /\ advances' = IF discarded THEN advances ELSE advances \cup {i}
      /\ UNCHANGED <<paused, discarded, record, admitted, notify, closed, hostVars>>
  BY Zenon DEF ReleaseSubmission, Release, ScheduleQueueAdvance
<1>2. Sound(Queued, Paused, used, record, active', call', settled, admitted)
  <2>1. call[i] # "idle" /\ active' = IF active = i /\ call[i] = "fail" THEN None ELSE active
    BY Zenon, <1>1
  <2> QED
    BY Zenon, <1>0, <1>1, <2>1, EndCall
<1>3. /\ queue' \in Seq(Items)
      /\ Sound(Range(queue'), Paused, used', record, active', call', settled', admitted)
      /\ discarded => \A j \in Range(queue') : IsAck(j)
  <2>1. CASE UNCHANGED <<used, queue, settled>>
    BY Zenon, <1>0, <1>2, <2>1 DEF Queued
  <2>2. CASE RemoveQueuedAck(t) /\ UNCHANGED used
    <3> DEFINE S == {j \in Acks(Queued) : KeyOf[j] = t}
    <3>1. queue' = Without(queue, S) /\ settled' = settled \cup S /\ used' = used
      BY Zenon, <2>2 DEF RemoveQueuedAck
    <3>2. S \subseteq Queued /\ Acks(S) = S /\ \A j \in S : IsAck(j)
      BY Zenon DEF Acks
    <3> HIDE DEF S
    <3>3. queue' \in Seq(Items) /\ Range(queue') = Queued \ S
      BY Zenon, <1>0, <3>1, WithoutFacts DEF Queued
    <3>4. /\ Paused \ S = Paused /\ active' \notin S
          /\ settled' \subseteq Items /\ settled \cup (Acks(S) \cap Queued) \subseteq settled'
      BY Zenon, <1>0, <1>2, <3>1, <3>2 DEF Sound
    <3>5. active' = IF active' \in S THEN None ELSE active'
      BY Zenon, <3>4
    <3>6. Emit(record, S, "unknown", Open) = record /\ "unknown" \in Terminal
      BY Zenon, <3>2, AcksInvisible DEF IInv, TypeOK, Terminal
    <3>7. S \subseteq Queued \cup Paused \cup ({active'} \ {None})
      BY Zenon, <3>2
    <3>8. Sound(Queued \ S, Paused \ S, used, Emit(record, S, "unknown", Open), active',
                call', settled', admitted)
      BY Zenon, <1>0, <1>2, <3>2, <3>4, <3>5, <3>6, <3>7, Drop
    <3> QED
      BY Zenon, <1>0, <3>1, <3>3, <3>4, <3>6, <3>8
  <2>3. ASSUME NEW j \in Acks(Items) \ used, used' = used \cup {j},
               queue' = Insert(queue, j), UNCHANGED settled
        PROVE  /\ queue' \in Seq(Items)
               /\ Sound(Range(queue'), Paused, used', record, active', call', settled',
                        admitted)
               /\ discarded => \A k \in Range(queue') : IsAck(k)
    <3>1. j \in Items \ used /\ IsAck(j)
      BY Zenon DEF Acks
    <3>2. queue' \in Seq(Items) /\ Range(queue') = Queued \cup {j}
      BY Zenon, <1>0, <2>3, <3>1, InsertFacts DEF Queued
    <3>3. Emit(record, {j}, "queued", Open) = record /\ "queued" \in States \ Terminal
      BY Zenon, <3>1, AcksInvisible DEF IInv, TypeOK, States, Rank, Terminal
    <3>4. Sound(Queued \cup {j}, Paused, used \cup {j}, Emit(record, {j}, "queued", Open),
                active', call', settled, admitted)
      BY Zenon, <1>0, <1>2, <3>1, <3>3, Enqueue
    <3> QED
      BY Zenon, <1>0, <2>3, <3>1, <3>2, <3>3, <3>4
  <2> QED
    BY Zenon, <2>1, <2>2, <2>3
<1>4. \A j \in Items : call'[j] = "advance" => call[j] = "advance"
  BY Zenon, <1>1 DEF IInv, TypeOK
<1>5. active' # None => slot' = slot /\ stopped' = stopped
  BY Zenon, <1>1 DEF IInv, LeaseAgrees, TypeOK
<1>6. QuietStep
  BY Zenon, <1>0, <1>1, <1>3, <1>4, <1>5 DEF QuietStep, Paused, IInv, TypeOK
<1> QED
  BY Zenon, <1>6, QuietKeeps

\* The speak call of a chain raises: it retries or abandons the ack.
LEMMA ChainFailsKeeps ==
  ASSUME IInv, LInv, NEW c \in chains, ChainFails(c)
  PROVE  IInv' /\ LInv'
<1>1. /\ c.at = "speak" /\ ReleaseSubmission(c.ack) /\ RetryOrAbandon(c, TRUE)
      /\ UNCHANGED <<phase, claims, generation, spoken>>
  BY Zenon DEF ChainFails
<1>2. c.ack \in Items
  BY Zenon DEF LInv, LedgerTypes, ChainsUpTo, Acks
<1>3. \/ UNCHANGED <<used, queue, settled>>
      \/ RemoveQueuedAck(c.turn) /\ UNCHANGED used
      \/ /\ \E j \in Acks(Items) \ used : used' = used \cup {j} /\ queue' = Insert(queue, j)
         /\ UNCHANGED settled
  BY Zenon, <1>1 DEF RetryOrAbandon, SettleTurnAck, SleepBeforeRetry
<1>4. IInv'
  BY Zenon, <1>1, <1>2, <1>3, ReleaseKeeps
<1>5. UNCHANGED <<admitted, discarded>>
  BY Zenon, <1>1 DEF ReleaseSubmission
<1> QED
  BY Zenon, <1>1, <1>4, <1>5, RetryOrAbandonKeeps

-----------------------------------------------------------------------------
(* Theorems *)

\* The initial states satisfy the invariant.
LEMMA LedgerInitHolds == LedgerInit => IInv /\ LInv
<1> SUFFICES ASSUME LedgerInit PROVE IInv /\ LInv
  BY Zenon
<1>1. IInv
  BY Zenon, InitHolds DEF LedgerInit
<1>2. Queued = {}
  BY DEF LedgerInit, Init, Queued, Range
<1>3. Entries = {}
  BY Zenon DEF LedgerInit, Entries
<1>4. IsFiniteSet(Entries) /\ Cardinality(Entries) <= MaxGenerationTurns
  BY <1>3, FS_EmptySet, LedgerLimits
<1>5. LedgerTypes
  BY <1>4 DEF LedgerInit, LedgerTypes, Phases
<1>6. \A t : QueuedAcks(t) = {}
  BY Zenon, <1>2 DEF QueuedAcks, Acks
<1>7. Kept
  BY Zenon, <1>6, NobodyServed DEF Kept
<1> QED
  BY Zenon, <1>1, <1>2, <1>5, <1>6, <1>7
     DEF LedgerInit, LInv, Unlatched, Latched, OneChain, NoAckAfterResult, Acks

\* Every step, a stuttering one included, keeps both invariants.
LEMMA LedgerNextKeeps == IInv /\ LInv /\ [LedgerNext]_allVars => IInv' /\ LInv'
<1> SUFFICES ASSUME IInv, LInv, [LedgerNext]_allVars PROVE IInv' /\ LInv'
  BY Zenon
<1>1. CASE Handlers
  BY Zenon, <1>1, EmitAtDecisionKeeps, EmitAfterTickKeeps, CheckDispatchedKeeps, EndTurnKeeps,
     EndTurnElsewhereKeeps, CancelSoleChildKeeps, CancelAllKeeps DEF Handlers
<1>2. ASSUME NEW c \in chains, ChainStep(c) PROVE IInv' /\ LInv'
  BY Zenon, <1>2, ChainAdmitKeeps, ChainSpeaksKeeps, ChainFailsKeeps, ChainWakesKeeps DEF ChainStep
<1>3. ASSUME NEW i \in Items, OtherSpeaks(i) PROVE IInv' /\ LInv'
  BY Zenon, <1>3, OtherSpeaksKeeps
<1>4. CASE SchedulerStep
  BY Zenon, <1>4, SchedulerStepKeeps
<1>5. CASE UNCHANGED allVars
  <2>1. UNCHANGED vars /\ UNCHANGED ledgerVars
    BY Zenon, <1>5 DEF allVars
  <2>2. IInv'
    BY Zenon, <2>1, NextKeeps
  <2>3. Calm
    BY Zenon, <2>1, StillCalm DEF vars
  <2>4. /\ UNCHANGED <<phase, latch, claims, generation, chains>>
        /\ phase' \in [AckTurns -> Phases]
        /\ spoken' \subseteq Acks(Items) /\ abandoned' \subseteq Acks(Items)
    BY Zenon, <2>1 DEF ledgerVars, LInv, LedgerTypes
  <2> QED
    BY Zenon, <2>2, <2>3, <2>4, CalmKeeps
<1> QED
  BY Zenon, <1>1, <1>2, <1>3, <1>4, <1>5 DEF LedgerNext

\* The scheduler's invariant and the ledger's hold together, always.
THEOREM LedgerInvariance == LedgerSpec => [](IInv /\ LInv)
BY LedgerInitHolds, LedgerNextKeeps, PTL DEF LedgerSpec

\* Types, the limit of the generation map and the limit of attempts included.
THEOREM LedgerTypeOKAlways == LedgerSpec => []LedgerTypeOK
<1>1. LInv => LedgerTypeOK
  BY Zenon DEF LInv, LedgerTypes, LedgerTypeOK, ChainsUpTo, Phases, Entries
<1> QED
  BY <1>1, LedgerInvariance, PTL

\* Once a turn is settled no chain puts an ack of it back on a live lane, whatever
\* failed submissions, retries, evictions and reconnects come between.
THEOREM NoAckAfterResultAlways == LedgerSpec => []NoAckAfterResult
<1>1. LInv => NoAckAfterResult
  BY Zenon DEF LInv
<1> QED
  BY <1>1, LedgerInvariance, PTL

\* A queued ack has a chain that will come back to it, and is its turn's only one
\* while the map of generations knows the turn: for any number of turns, emissions,
\* attempts and evictions.
THEOREM QueuedAckHasChainAlways == LedgerSpec => []QueuedAckHasChain
<1>1. ASSUME IInv, LInv PROVE QueuedAckHasChain
  <2> SUFFICES ASSUME NEW i \in Acks(Queued), ~PausedAckDropped(KeyOf[i])
               PROVE  /\ \E c \in chains : c.turn = KeyOf[i] /\ ~Stale(c)
                      /\ generation[KeyOf[i]] # 0 =>
                            \A j \in Acks(Queued) : KeyOf[j] = KeyOf[i] => j = i
    BY Zenon DEF QueuedAckHasChain
  <2> DEFINE t == KeyOf[i]
             A == QueuedAcks(t)
             W == Waiting(t)
  <2>1. t \in AckTurns /\ i \in A
    BY Zenon, <1>1 DEF AckTurns, Acks, QueuedAcks, IInv, Sound
  <2>2. Served(A, W)
    BY Zenon, <1>1, <2>1 DEF LInv, Kept
  <2>3. W # {}
    <3> HIDE DEF A, W
    <3> QED
      BY Zenon, <2>1, <2>2, SomebodyServes
  <2>4. \E c \in chains : c.turn = t /\ ~Stale(c)
    BY Zenon, <2>3 DEF Waiting
  <2>5. ASSUME generation[t] # 0, NEW j \in Acks(Queued), KeyOf[j] = t
        PROVE  j = i
    <3>1. \A c, d \in W : c = d
      <4>1. \A c \in W : c \in chains /\ c.gen = generation[t]
        BY Zenon, <2>5 DEF Waiting, Stale
      <4> HIDE DEF W
      <4> QED
        BY Zenon, <1>1, <4>1 DEF LInv, OneChain
    <3>2. j \in A
      BY Zenon, <2>5 DEF QueuedAcks
    <3> HIDE DEF A, W
    <3> QED
      BY Zenon, <2>1, <2>2, <3>1, <3>2, OnlyOneServed
  <2> QED
    BY Zenon, <2>4, <2>5
<1> QED
  BY <1>1, LedgerInvariance, PTL

\* The scheduler keeps its promises under the ledger that drives it too: an ack's
\* failed submission and its requeue, one step here, are no exception.
THEOREM SchedulerUnderLedger == LedgerSpec => [](RecordsAgree /\ SpeechOnce
                                                   /\ AcksAccountedFor /\ DiscardedForGood)
<1>1. IInv => RecordsAgree /\ SpeechOnce /\ AcksAccountedFor /\ DiscardedForGood
  BY ZenonT(60), SchedulerAssumption DEF IInv, TypeOK, Sound, LeaseAgrees, RecordsAgree, SpeechOnce,
     AcksAccountedFor, Held, Acks
<1> QED
  BY <1>1, LedgerInvariance, PTL
=============================================================================
