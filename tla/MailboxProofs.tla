---------------------------- MODULE MailboxProofs ----------------------------
(***************************************************************************)
(* Proofs about the queues in front of a worker, for any set of items on   *)
(* either route: a worker runs one operation at a time, but for one        *)
(* cancellation that takes an item out of its mailbox (WorkerMailbox).     *)
(***************************************************************************)
EXTENDS MCWork, WellFoundedInduction, TLAPS

-----------------------------------------------------------------------------
(* Numbers. *)

\* A set of numbers that is not empty has a least one.
LEMMA LeastElement ==
  ASSUME NEW B, B \subseteq Nat, B # {}
  PROVE  \E m \in B : \A n \in B : m <= n
<1>1. PICK m \in B : \A n \in B : ~(<<n, m>> \in OpToRel(<, Nat))
  BY Zenon, NatLessThanWellFounded, WFMin
<1>2. ASSUME NEW n \in B PROVE m <= n
  <2>1. m \in Nat /\ n \in Nat
    BY Zenon
  <2>2. ~(n < m)
    BY Zenon, <1>1, <2>1 DEF OpToRel
  <2> QED
    BY <2>1, <2>2
<1> QED
  BY Zenon, <1>2

\* Induction, as a fact about a set of numbers.
LEMMA SetInduction ==
  ASSUME NEW T, 0 \in T, \A n \in Nat : n \in T => n + 1 \in T
  PROVE  \A n \in Nat : n \in T
<1> SUFFICES ASSUME \E n \in Nat : n \notin T PROVE FALSE
  BY Zenon
<1> DEFINE B == {n \in Nat : n \notin T}
<1>1. PICK m \in B : \A n \in B : m <= n
  BY Zenon, LeastElement
<1>2. m \in Nat /\ m # 0
  BY Zenon
<1>3. m - 1 \in Nat /\ m - 1 \notin B
  BY <1>1, <1>2
<1> QED
  BY <1>2, <1>3

-----------------------------------------------------------------------------
(* What the queues' operators compute. *)

\* A member of a sequence.
LEMMA MemberOfSeq ==
  ASSUME NEW R, NEW q \in Seq(R), NEW n \in 1..Len(q) PROVE q[n] \in R
OBVIOUS

\* f selects the members of T among the first n members of s.
IsAmong(f, s, T, n) ==
  f = [i \in 0..n |-> IF i = 0 THEN <<>> ELSE IF s[i] \in T THEN Append(f[i - 1], s[i]) ELSE f[i - 1]]

\* There is such a selection.
LEMMA AmongExists ==
  ASSUME NEW s, NEW T PROVE \A n \in Nat : \E f : IsAmong(f, s, T, n)
<1> DEFINE N == {n \in Nat : \E f : IsAmong(f, s, T, n)}
<1>1. 0 \in N
  <2>1. PICK f : f = [i \in 0..0 |-> <<>>]
    BY Zenon
  <2>2. \A i \in 0..0 : i = 0
    OBVIOUS
  <2>3. f = [i \in 0..0 |-> IF i = 0 THEN <<>> ELSE IF s[i] \in T THEN Append(f[i - 1], s[i]) ELSE f[i - 1]]
    BY <2>1, <2>2
  <2>4. IsAmong(f, s, T, 0)
    BY Zenon, <2>3 DEF IsAmong
  <2> QED
    BY Zenon, <2>4
<1>2. ASSUME NEW n \in Nat, n \in N PROVE n + 1 \in N
  <2>1. PICK f : IsAmong(f, s, T, n)
    BY Zenon, <1>2
  <2>2. PICK x : x = IF s[n + 1] \in T THEN Append(f[n], s[n + 1]) ELSE f[n]
    BY Zenon
  <2>3. PICK g : g = [i \in 0..(n + 1) |-> IF i = n + 1 THEN x ELSE f[i]]
    BY Zenon
  <2>4. ASSUME NEW i \in 0..(n + 1)
        PROVE  g[i] = IF i = 0 THEN <<>> ELSE IF s[i] \in T THEN Append(g[i - 1], s[i]) ELSE g[i - 1]
    <3>1. CASE i = n + 1
      <4>1. g[i] = x /\ g[i - 1] = f[n] /\ i # 0
        BY <2>3, <3>1
      <4> QED
        BY Zenon, <2>2, <3>1, <4>1
    <3>2. CASE i # n + 1
      <4>1. i \in 0..n /\ g[i] = f[i]
        BY <2>3, <3>2
      <4>2. f[i] = IF i = 0 THEN <<>> ELSE IF s[i] \in T THEN Append(f[i - 1], s[i]) ELSE f[i - 1]
        BY Zenon, <2>1, <4>1 DEF IsAmong
      <4>3. i # 0 => g[i - 1] = f[i - 1]
        BY <2>3, <3>2
      <4> QED
        BY Zenon, <4>1, <4>2, <4>3
    <3> QED
      BY Zenon, <3>1, <3>2
  <2>5. g = [i \in 0..(n + 1) |-> g[i]]
    BY Zenon, <2>3
  <2>6. IsAmong(g, s, T, n + 1)
    BY Zenon, <2>4, <2>5 DEF IsAmong
  <2> QED
    BY SMTT(30), <2>6
<1> HIDE DEF N
<1>3. \A n \in Nat : n \in N
  BY Zenon, <1>1, <1>2, SetInduction
<1> QED
  BY Zenon, <1>3 DEF N

\* No two members of q are equal.
Distinct(q) == \A k, l \in 1..Len(q) : k < l => q[k] # q[l]

\* q holds members of T only, and no two are equal if those it is taken from are not.
Selection(q, T, s) == q \in Seq(T) /\ (Distinct(s) => Distinct(q))

\* ... and those from the first n members of s.
From(q, s, n) == \A k \in 1..Len(q) : \E m \in 1..n : q[k] = s[m]

\* A selection and one more.
LEMMA SelectionGrows ==
  ASSUME NEW T, NEW q, NEW s, Selection(q, T, s), NEW n \in Nat, From(q, s, n), s[n + 1] \in T,
         Distinct(s) => \A m \in 1..n : s[m] # s[n + 1]
  PROVE  Selection(Append(q, s[n + 1]), T, s) /\ From(Append(q, s[n + 1]), s, n + 1)
<1>1. PICK x : x = s[n + 1]
  BY Zenon
<1>2. PICK r : r = Append(q, x)
  BY Zenon
<1>3. q \in Seq(T) /\ x \in T
  BY Zenon, <1>1 DEF Selection
<1>4. /\ r \in Seq(T) /\ Len(r) = Len(q) + 1 /\ Len(q) \in Nat
      /\ \A k \in 1..Len(r) : IF k = Len(q) + 1 THEN r[k] = x ELSE k \in 1..Len(q) /\ r[k] = q[k]
  BY <1>2, <1>3
<1>5. ASSUME NEW k \in 1..Len(r), NEW l \in 1..Len(r), k < l, Distinct(s) PROVE r[k] # r[l]
  <2>1. k # Len(q) + 1 /\ k \in 1..Len(q) /\ r[k] = q[k]
    <3>1. k # Len(q) + 1
      BY <1>4, <1>5
    <3> QED
      BY Zenon, <1>4, <3>1
  <2>2. CASE l = Len(q) + 1
    <3>1. r[l] = x
      BY Zenon, <1>4, <2>2
    <3>2. PICK m \in 1..n : q[k] = s[m]
      BY Zenon, <2>1 DEF From
    <3> QED
      BY Zenon, <1>1, <1>5, <2>1, <3>1, <3>2
  <2>3. CASE l # Len(q) + 1
    <3>1. l \in 1..Len(q) /\ r[l] = q[l]
      BY Zenon, <1>4, <2>3
    <3> QED
      BY Zenon, <1>5, <2>1, <3>1 DEF Selection, Distinct
  <2> QED
    BY Zenon, <2>2, <2>3
<1>6. ASSUME NEW k \in 1..Len(r) PROVE \E m \in 1..(n + 1) : r[k] = s[m]
  <2>1. CASE k = Len(q) + 1
    <3>1. n + 1 \in 1..(n + 1)
      OBVIOUS
    <3> QED
      BY Zenon, <1>1, <1>4, <2>1, <3>1
  <2>2. CASE k # Len(q) + 1
    <3>1. PICK m \in 1..n : q[k] = s[m]
      BY Zenon, <1>4, <2>2 DEF From
    <3>2. m \in 1..(n + 1)
      OBVIOUS
    <3> QED
      BY Zenon, <1>4, <2>2, <3>1, <3>2
  <2> QED
    BY Zenon, <2>1, <2>2
<1> QED
  BY Zenon, <1>1, <1>2, <1>4, <1>5, <1>6 DEF Selection, Distinct, From

\* What a selection from a sequence holds.
LEMMA AmongFacts ==
  ASSUME NEW R, NEW T, NEW s \in Seq(R)
  PROVE  Selection(Mailbox!Among(s, T), T, s)
<1> DEFINE f == CHOOSE f : IsAmong(f, s, T, Len(s))
           N == {n \in Nat : n \in 0..Len(s) => Selection(f[n], T, s) /\ From(f[n], s, n)}
<1>1. IsAmong(f, s, T, Len(s)) /\ Len(s) \in Nat
  <2>1. Len(s) \in Nat
    OBVIOUS
  <2> QED
    BY Zenon, <2>1, AmongExists
<1>2. Mailbox!Among(s, T) = f[Len(s)]
  BY Zenon DEF Mailbox!Among, IsAmong
<1> HIDE DEF f
<1>3. 0 \in N
  <2>1. 0 \in 0..Len(s)
    BY <1>1
  <2>2. f[0] = <<>>
    BY Zenon, <1>1, <2>1 DEF IsAmong
  <2>3. Selection(<<>>, T, s) /\ From(<<>>, s, 0)
    BY DEF Selection, Distinct, From
  <2>4. Selection(f[0], T, s) /\ From(f[0], s, 0)
    BY Zenon, <2>2, <2>3
  <2> QED
    BY <2>4
<1>4. ASSUME NEW n \in Nat, n \in N PROVE n + 1 \in N
  <2>1. CASE n + 1 \in 0..Len(s)
    <3>1. n \in 0..Len(s) /\ n + 1 # 0 /\ (n + 1) - 1 = n /\ n + 1 \in 1..Len(s)
          /\ \A m \in 1..n : m \in 1..Len(s) /\ m < n + 1
      BY <1>1, <2>1
    <3>2. Selection(f[n], T, s) /\ From(f[n], s, n)
      BY Zenon, <1>4, <3>1
    <3>3. f[n + 1] = IF s[n + 1] \in T THEN Append(f[n], s[n + 1]) ELSE f[n]
      <4>1. f[n + 1] = IF n + 1 = 0 THEN <<>> ELSE IF s[n + 1] \in T THEN Append(f[(n + 1) - 1], s[n + 1])
                                                                     ELSE f[(n + 1) - 1]
        BY Zenon, <1>1, <2>1 DEF IsAmong
      <4> QED
        BY Zenon, <3>1, <4>1
    <3>4. ASSUME s[n + 1] \in T PROVE Selection(f[n + 1], T, s) /\ From(f[n + 1], s, n + 1)
      <4>1. Distinct(s) => \A m \in 1..n : s[m] # s[n + 1]
        BY Zenon, <3>1 DEF Distinct
      <4>2. Selection(Append(f[n], s[n + 1]), T, s) /\ From(Append(f[n], s[n + 1]), s, n + 1)
        BY Zenon, <3>2, <3>4, <4>1, SelectionGrows
      <4>3. f[n + 1] = Append(f[n], s[n + 1])
        BY Zenon, <3>3, <3>4
      <4> QED
        BY Zenon, <4>2, <4>3
    <3>5. ASSUME s[n + 1] \notin T PROVE Selection(f[n + 1], T, s) /\ From(f[n + 1], s, n + 1)
      <4>1. \A m \in 1..n : m \in 1..(n + 1)
        OBVIOUS
      <4> QED
        BY Zenon, <3>2, <3>3, <3>5, <4>1 DEF From
    <3>6. Selection(f[n + 1], T, s) /\ From(f[n + 1], s, n + 1)
      BY Zenon, <3>4, <3>5
    <3> QED
      BY <3>6
  <2>2. CASE n + 1 \notin 0..Len(s)
    BY <2>2
  <2> QED
    BY Zenon, <2>1, <2>2
<1> HIDE DEF N
<1>5. Len(s) \in N
  BY Zenon, <1>1, <1>3, <1>4, SetInduction
<1>6. Len(s) \in 0..Len(s)
  BY <1>1
<1> QED
  BY Zenon, <1>2, <1>5, <1>6 DEF N

\* f follows the awaited tasks, n of them at most.
IsReach(f, n) ==
  f = [i \in 0..n |-> [j \in Items |-> IF i > 0 /\ Mailbox!Awaits(j) THEN f[i - 1][previous[j]] ELSE j]]

\* There is such a function.
LEMMA ReachExists == \A n \in Nat : \E f : IsReach(f, n)
<1> DEFINE N == {n \in Nat : \E f : IsReach(f, n)}
<1>1. 0 \in N
  <2>1. PICK f : f = [i \in 0..0 |-> [j \in Items |-> j]]
    BY Zenon
  <2>2. \A i \in 0..0 : ~(i > 0)
    OBVIOUS
  <2>3. f = [i \in 0..0 |-> [j \in Items |-> IF i > 0 /\ Mailbox!Awaits(j) THEN f[i - 1][previous[j]] ELSE j]]
    BY Zenon, <2>1, <2>2
  <2>4. IsReach(f, 0)
    BY Zenon, <2>3 DEF IsReach
  <2> QED
    BY Zenon, <2>4
<1>2. ASSUME NEW n \in Nat, n \in N PROVE n + 1 \in N
  <2>1. PICK f : IsReach(f, n)
    BY Zenon, <1>2
  <2>2. PICK x : x = [j \in Items |-> IF n + 1 > 0 /\ Mailbox!Awaits(j) THEN f[n][previous[j]] ELSE j]
    BY Zenon
  <2>3. PICK g : g = [i \in 0..(n + 1) |-> IF i = n + 1 THEN x ELSE f[i]]
    BY Zenon
  <2>4. ASSUME NEW i \in 0..(n + 1)
        PROVE  g[i] = [j \in Items |-> IF i > 0 /\ Mailbox!Awaits(j) THEN g[i - 1][previous[j]] ELSE j]
    <3>1. CASE i = n + 1
      <4>1. g[i] = x /\ g[i - 1] = f[n]
        BY <2>3, <3>1
      <4> QED
        BY Zenon, <2>2, <3>1, <4>1
    <3>2. CASE i # n + 1
      <4>1. i \in 0..n /\ g[i] = f[i]
        BY <2>3, <3>2
      <4>2. f[i] = [j \in Items |-> IF i > 0 /\ Mailbox!Awaits(j) THEN f[i - 1][previous[j]] ELSE j]
        BY Zenon, <2>1, <4>1 DEF IsReach
      <4>3. i > 0 => g[i - 1] = f[i - 1]
        BY <2>3, <3>2
      <4> QED
        BY Zenon, <4>1, <4>2, <4>3
    <3> QED
      BY Zenon, <3>1, <3>2
  <2>5. g = [i \in 0..(n + 1) |-> g[i]]
    BY Zenon, <2>3
  <2>6. IsReach(g, n + 1)
    BY Zenon, <2>4, <2>5 DEF IsReach
  <2> QED
    BY <2>6
<1> HIDE DEF N
<1>3. \A n \in Nat : n \in N
  BY Zenon, <1>1, <1>2, SetInduction
<1> QED
  BY Zenon, <1>3 DEF N

\* A cancellation reaches an item.
LEMMA ReachedIsItem ==
  ASSUME Len(entries) \in Nat, \A j \in Items : Mailbox!Awaits(j) => previous[j] \in Items
  PROVE  \A j \in Items : Mailbox!Reached(j) \in Items
<1> DEFINE f == CHOOSE f : IsReach(f, Len(entries))
           N == {n \in Nat : n \in 0..Len(entries) => \A j \in Items : f[n][j] \in Items}
<1>1. IsReach(f, Len(entries))
  BY Zenon, ReachExists
<1>2. \A j : Mailbox!Reached(j) = f[Len(entries)][j]
  BY Zenon DEF Mailbox!Reached, IsReach
<1> HIDE DEF f
<1>3. 0 \in N
  <2>1. 0 \in 0..Len(entries) /\ ~(0 > 0)
    OBVIOUS
  <2>2. f[0] = [j \in Items |-> IF 0 > 0 /\ Mailbox!Awaits(j) THEN f[0 - 1][previous[j]] ELSE j]
    BY Zenon, <1>1, <2>1 DEF IsReach
  <2>3. \A j \in Items : f[0][j] \in Items
    BY Zenon, <2>1, <2>2
  <2> QED
    BY <2>3
<1>4. ASSUME NEW n \in Nat, n \in N PROVE n + 1 \in N
  <2>1. CASE n + 1 \in 0..Len(entries)
    <3>1. n \in 0..Len(entries) /\ (n + 1) - 1 = n
      BY <2>1
    <3>2. \A j \in Items : f[n][j] \in Items
      BY Zenon, <1>4, <3>1
    <3>3. f[n + 1] = [j \in Items |-> IF n + 1 > 0 /\ Mailbox!Awaits(j) THEN f[(n + 1) - 1][previous[j]] ELSE j]
      BY Zenon, <1>1, <2>1 DEF IsReach
    <3>4. \A j \in Items : f[n + 1][j] \in Items
      BY ZenonT(60), <3>1, <3>2, <3>3
    <3> QED
      BY <3>4
  <2>2. CASE n + 1 \notin 0..Len(entries)
    BY <2>2
  <2> QED
    BY Zenon, <2>1, <2>2
<1> HIDE DEF N
<1>5. Len(entries) \in N
  BY Zenon, <1>3, <1>4, SetInduction
<1>6. Len(entries) \in 0..Len(entries)
  OBVIOUS
<1> QED
  BY Zenon, <1>2, <1>5, <1>6 DEF N

-----------------------------------------------------------------------------
(* The inductive invariant. *)

\* The callbacks of the loop.
Calls == {"first", "shield", "tail", "search", "run", "mail", "provider", "finally"} \X Items

\* The mailbox task of i, or i itself, is over.
Over(i) == stage[i] \in {"ran", "done"}

\* A callback finds its item where it was when the callback was scheduled.
Fits(c, at, before) ==
  /\ c[1] = "first" => at[c[2]] = "created"
  /\ c[1] = "tail" => at[c[2]] = "tail"
  /\ c[1] = "search" => at[c[2]] = "provider"
  /\ c[1] = "run" => at[c[2]] = "entered"
  /\ c[1] = "mail" => at[c[2]] = "queued" /\ before[c[2]] \in Items /\ at[before[c[2]]] \in {"ran", "done"}
  /\ c[1] \in {"provider", "finally"} => at[c[2]] \in {"ran", "done"}
Agrees(c) == Fits(c, stage, previous)

\* Callbacks that may be scheduled twice.
Lax(c) == c[1] \in {"shield", "provider", "finally"}
OnceIn(q) == \A k, l \in 1..Len(q) : k < l /\ q[k] = q[l] => Lax(q[k])

MailTypes ==
  /\ stage \in [Items -> Mailbox!Stages] /\ ended \in [Items -> Mailbox!Ends]
  /\ ready \in Seq(Calls)
  /\ previous \in [Items -> Items \cup {NoItem}]
  /\ entries \in Seq(Items) /\ starts \in Seq(Items) /\ accepted \in Seq(Items)

CallsAgree == (\A k \in 1..Len(ready) : Agrees(ready[k])) /\ OnceIn(ready)

\* x is in the sequence q.
In(x, q) == \E k \in 1..Len(q) : q[k] = x

\* Every mailbox task remembers the one before it.
InLine ==
  /\ Distinct(entries)
  /\ \A k \in 1..Len(entries) : previous[entries[k]] = IF k = 1 THEN NoItem ELSE entries[k - 1]
  /\ mailTail = IF entries = <<>> THEN NoItem ELSE entries[Len(entries)]

\* Where an item is agrees with its entry into the mailbox and the start of its operation.
PlacedAt(i) ==
  /\ stage[i] \in {"new", "created", "tail", "provider"} => ~In(i, entries) /\ ~In(i, starts) /\ ended[i] = "open"
  /\ stage[i] \in {"entered", "queued", "running"} => In(i, entries) /\ ended[i] = "open"
  /\ stage[i] \in {"entered", "queued"} => ~In(i, starts)
  /\ stage[i] = "running" => In(i, starts)
  /\ stage[i] = "queued" => previous[i] \in Items
  /\ In(i, entries) /\ Over(i) /\ ~In(i, starts) => ended[i] = "cancelled"
Placed == \A i \in Items : PlacedAt(i)

\* No item was cancelled between its entry into the mailbox and its first step there.
DroppedAt(i) == In(i, entries) /\ ~In(i, starts) /\ ended[i] = "cancelled"
NoneDropped == \A i \in Items : ~DroppedAt(i)

\* Unless one was, an operation starts only after all those before it are over.
InOrder ==
  NoneDropped => \A k, l \in 1..Len(entries) :
    k < l /\ stage[entries[l]] \in {"running", "ran", "done"} => Over(entries[k])

MailInv == MailTypes /\ CallsAgree /\ InLine /\ Placed /\ InOrder

\* Callbacks are scheduled behind others.
LEMMA OnceJoin ==
  ASSUME NEW R, NEW q \in Seq(R), NEW c \in Seq(R), OnceIn(q), OnceIn(c),
         \A k \in 1..Len(c) : Lax(c[k]) \/ ~In(c[k], q)
  PROVE  OnceIn(q \o c)
<1>1. PICK r : r = q \o c
  BY Zenon
<1>2. /\ Len(r) = Len(q) + Len(c) /\ Len(q) \in Nat /\ Len(c) \in Nat
      /\ \A k \in 1..Len(r) : \/ k \in 1..Len(q) /\ r[k] = q[k]
                              \/ k - Len(q) \in 1..Len(c) /\ r[k] = c[k - Len(q)] /\ k > Len(q)
  BY <1>1
<1>3. ASSUME NEW k \in 1..Len(r), NEW l \in 1..Len(r), k < l, r[k] = r[l] PROVE Lax(r[k])
  <2>1. CASE l \in 1..Len(q) /\ r[l] = q[l]
    <3>1. k \in 1..Len(q)
      BY <1>2, <1>3, <2>1
    <3>2. r[k] = q[k]
      BY <1>2, <3>1
    <3> QED
      BY Zenon, <1>3, <2>1, <3>1, <3>2 DEF OnceIn
  <2>2. CASE /\ k - Len(q) \in 1..Len(c) /\ r[k] = c[k - Len(q)]
             /\ l - Len(q) \in 1..Len(c) /\ r[l] = c[l - Len(q)]
    <3>1. k - Len(q) < l - Len(q)
      BY <1>2, <1>3
    <3> QED
      BY Zenon, <1>3, <2>2, <3>1 DEF OnceIn
  <2>3. CASE k \in 1..Len(q) /\ r[k] = q[k] /\ l - Len(q) \in 1..Len(c) /\ r[l] = c[l - Len(q)]
    BY Zenon, <1>3, <2>3 DEF In
  <2> QED
    BY Zenon, <1>2, <2>1, <2>2, <2>3
<1> QED
  BY Zenon, <1>1, <1>3 DEF OnceIn

\* The callback at the head is taken.
LEMMA OnceTail ==
  ASSUME NEW R, NEW q \in Seq(R), q # <<>>, OnceIn(q)
  PROVE  OnceIn(Tail(q)) /\ Tail(q) \in Seq(R) /\ Head(q) \in R /\ (Lax(Head(q)) \/ ~In(Head(q), Tail(q)))
<1>1. PICK r : r = Tail(q)
  BY Zenon
<1>2. /\ r \in Seq(R) /\ Len(r) = Len(q) - 1 /\ Len(q) \in Nat /\ Len(r) \in Nat /\ Head(q) \in R /\ Head(q) = q[1]
      /\ \A k \in 1..Len(r) : k + 1 \in 1..Len(q) /\ r[k] = q[k + 1] /\ 1 < k + 1
      /\ 1 \in 1..Len(q)
  BY <1>1
<1>3. ASSUME NEW k \in 1..Len(r), NEW l \in 1..Len(r), k < l, r[k] = r[l] PROVE Lax(r[k])
  <2>1. k + 1 < l + 1
    BY <1>3
  <2> QED
    BY Zenon, <1>2, <1>3, <2>1 DEF OnceIn
<1>4. Lax(Head(q)) \/ ~In(Head(q), r)
  BY Zenon, <1>2 DEF OnceIn, In
<1> QED
  BY Zenon, <1>1, <1>2, <1>3, <1>4 DEF OnceIn

\* The queue of the loop after a step: what is left of it, and what the step scheduled.
LEMMA CallsJoin ==
  ASSUME NEW q \in Seq(Calls), NEW c \in Seq(Calls), ready' = q \o c, OnceIn(q), OnceIn(c),
         \A k \in 1..Len(c) : Lax(c[k]) \/ ~In(c[k], q),
         \A k \in 1..Len(q) : Agrees(q[k])', \A k \in 1..Len(c) : Agrees(c[k])'
  PROVE  ready' \in Seq(Calls) /\ CallsAgree'
<1>1. PICK r : r = q \o c
  BY Zenon
<1>2. /\ r \in Seq(Calls)
      /\ \A k \in 1..Len(r) : \/ k \in 1..Len(q) /\ r[k] = q[k]
                              \/ k - Len(q) \in 1..Len(c) /\ r[k] = c[k - Len(q)]
  BY <1>1
<1>3. OnceIn(r)
  BY Zenon, <1>1, OnceJoin
<1>4. ASSUME NEW k \in 1..Len(r) PROVE Agrees(r[k])'
  BY Zenon, <1>2
<1>5. ready' = r
  BY Zenon, <1>1
<1> QED
  BY Zenon, <1>2, <1>3, <1>4, <1>5 DEF CallsAgree, OnceIn, Lax, Agrees

\* What is in the queue agrees with a step that moves one item no callback looks at.
LEMMA RestAgrees ==
  ASSUME MailTypes, NEW r \in Seq(Calls), \A k \in 1..Len(r) : Agrees(r[k]), NEW i \in Items, NEW t,
         stage' = [stage EXCEPT ![i] = t], \A j \in Items \ {i} : previous'[j] = previous[j],
         Over(i) => t \in {"ran", "done"},
         \A k \in 1..Len(r) : r[k][2] = i => r[k][1] = "shield" \/ Over(i)
  PROVE  \A k \in 1..Len(r) : Agrees(r[k])'
<1>1. /\ stage'[i] = t
      /\ \A j \in Items \ {i} : stage'[j] = stage[j]
  BY Zenon DEF MailTypes
<1>2. \A j \in Items : Over(j) => Over(j)'
  BY Zenon, <1>1 DEF Over
<1>3. ASSUME NEW k \in 1..Len(r) PROVE Agrees(r[k])'
  <2>1. PICK c : c = r[k]
    BY Zenon
  <2>2. c \in Calls /\ c[2] \in Items
    BY <2>1 DEF Calls
  <2>3. Agrees(c) /\ (c[2] = i => c[1] = "shield" \/ Over(i))
    BY <2>1
  <2>4. Agrees(c)'
    <3>1. CASE c[2] # i
      <4>1. stage'[c[2]] = stage[c[2]] /\ previous'[c[2]] = previous[c[2]]
        BY Zenon, <1>1, <2>2, <3>1
      <4>2. previous[c[2]] \in Items /\ Over(previous[c[2]]) => previous'[c[2]] \in Items /\ stage'[previous'[c[2]]] \in {"ran", "done"}
        BY Zenon, <1>2, <4>1 DEF Over
      <4> QED
        BY Zenon, <2>2, <2>3, <4>1, <4>2 DEF Agrees, Fits, Over
    <3>2. CASE c[1] = "shield"
      BY <3>2 DEF Agrees, Fits
    <3>3. CASE c[2] = i /\ Over(i)
      <4>1. stage[i] \in {"ran", "done"} /\ stage'[c[2]] \in {"ran", "done"}
        BY Zenon, <1>2, <3>3 DEF Over
      <4>2. stage[i] \notin {"created", "tail", "provider", "entered", "queued"}
        BY <4>1
      <4>3. c[1] \notin {"first", "tail", "search", "run", "mail"}
        BY Zenon, <2>3, <3>3, <4>2 DEF Agrees, Fits
      <4> QED
        BY Zenon, <4>1, <4>3 DEF Agrees, Fits, Over
    <3> QED
      BY ZenonT(60), <2>3, <3>1, <3>2, <3>3
  <2> QED
    BY Zenon, <2>1, <2>4
<1> QED
  BY Zenon, <1>3

\* No callback of an item that is new or whose operation runs is scheduled, but a shield's.
LEMMA NoCall ==
  ASSUME NEW r, NEW i, \A k \in 1..Len(r) : Agrees(r[k]), stage[i] \in {"new", "running"}, NEW k \in 1..Len(r),
         r[k] \in Calls, r[k][2] = i
  PROVE  r[k][1] = "shield"
<1>1. PICK c : c = r[k]
  BY Zenon
<1>2. Agrees(c) /\ c[2] = i /\ c \in Calls
  BY Zenon, <1>1
<1>3. stage[i] \notin {"created", "tail", "provider", "entered", "queued", "ran", "done"}
  OBVIOUS
<1>4. c[1] \notin {"first", "tail", "search", "run", "mail", "provider", "finally"}
  BY Zenon, <1>2, <1>3 DEF Agrees, Fits, Over
<1>5. c[1] = "shield"
  BY <1>2, <1>4 DEF Calls
<1> QED
  BY Zenon, <1>1, <1>5

\* Nor is any but a shield's, once the callback of an item whose task is not over is taken.
LEMMA HeadTaken ==
  ASSUME MailTypes, CallsAgree, ready # <<>>, NEW r, r = Tail(ready), NEW c, c = Head(ready), ~Lax(c),
         NEW k \in 1..Len(r), r[k][2] = c[2]
  PROVE  r[k][1] = "shield"
<1>1. r \in Seq(Calls) /\ c \in Calls /\ ~In(c, r)
  BY Zenon, OnceTail DEF MailTypes, CallsAgree
<1>2. Agrees(c) /\ Agrees(r[k])
  <2>1. /\ ready[1] = c /\ 1 \in 1..Len(ready)
        /\ k + 1 \in 1..Len(ready) /\ r[k] = ready[k + 1]
    BY DEF MailTypes
  <2> QED
    BY Zenon, <2>1 DEF CallsAgree
<1>3. PICK d : d = r[k]
  BY Zenon
<1>4. d \in Calls /\ d # c /\ d[2] = c[2] /\ Agrees(d)
  <2>1. d \in Calls
    BY <1>1, <1>3
  <2> QED
    BY Zenon, <1>1, <1>2, <1>3, <2>1 DEF In
<1>5. d[1] # c[1]
  <2>1. d = <<d[1], d[2]>> /\ c = <<c[1], c[2]>>
    BY <1>1, <1>4 DEF Calls
  <2> QED
    BY Zenon, <1>4, <2>1
<1>6. PICK w : w = stage[c[2]]
  BY Zenon
<1>7. /\ c[1] = "first" => w = "created"
      /\ c[1] = "tail" => w = "tail"
      /\ c[1] = "search" => w = "provider"
      /\ c[1] = "run" => w = "entered"
      /\ c[1] = "mail" => w = "queued"
      /\ d[1] = "first" => w = "created"
      /\ d[1] = "tail" => w = "tail"
      /\ d[1] = "search" => w = "provider"
      /\ d[1] = "run" => w = "entered"
      /\ d[1] = "mail" => w = "queued"
      /\ d[1] \in {"provider", "finally"} => w \in {"ran", "done"}
  BY Zenon, <1>2, <1>4, <1>6 DEF Agrees, Fits, Over
<1>8. c[1] \in {"first", "tail", "search", "run", "mail"}
      /\ d[1] \in {"first", "shield", "tail", "search", "run", "mail", "provider", "finally"}
  BY <1>1, <1>4 DEF Calls, Lax
<1> QED
  BY <1>3, <1>5, <1>7, <1>8

\* A step leaves every item but i where it is.
Elsewhere(i) ==
  \A j \in Items \ {i} :
    /\ stage'[j] = stage[j] /\ ended'[j] = ended[j] /\ previous'[j] = previous[j]
    /\ In(j, entries') <=> In(j, entries)
    /\ In(j, starts') <=> In(j, starts)

\* When one item moves and the others rest, only its own place need be shown.
LEMMA OthersPlaced ==
  ASSUME Placed, NEW i \in Items, Elsewhere(i), PlacedAt(i)' PROVE Placed'
<1>1. ASSUME NEW j \in Items \ {i} PROVE PlacedAt(j)'
  <2>1. /\ stage'[j] = stage[j] /\ ended'[j] = ended[j] /\ previous'[j] = previous[j]
        /\ In(j, entries') <=> In(j, entries)
        /\ In(j, starts') <=> In(j, starts)
    BY Zenon DEF Elsewhere
  <2>2. PlacedAt(j)
    BY Zenon DEF Placed
  <2> QED
    BY Zenon, <2>1, <2>2 DEF PlacedAt, Over
<1> QED
  BY Zenon, <1>1 DEF Placed

\* An item that was dropped stays so.
LEMMA DroppedStays ==
  ASSUME NEW i \in Items, Elsewhere(i), DroppedAt(i) => DroppedAt(i)', NoneDropped' PROVE NoneDropped
<1>1. ASSUME NEW j \in Items \ {i}, DroppedAt(j) PROVE DroppedAt(j)'
  <2>1. /\ ended'[j] = ended[j]
        /\ In(j, entries') <=> In(j, entries)
        /\ In(j, starts') <=> In(j, starts)
    BY Zenon DEF Elsewhere
  <2> QED
    BY Zenon, <1>1, <2>1 DEF DroppedAt
<1> QED
  BY Zenon, <1>1 DEF NoneDropped

\* The operations stay in order when one item moves and none starts.
LEMMA OrderKept ==
  ASSUME MailTypes, InOrder, NEW i \in Items, Elsewhere(i), DroppedAt(i) => DroppedAt(i)', entries' = entries,
         Over(i) => Over(i)',
         stage'[i] \in {"running", "ran", "done"} /\ In(i, entries) =>
           stage[i] \in {"running", "ran", "done"} \/ DroppedAt(i)'
  PROVE  InOrder'
<1> SUFFICES ASSUME NoneDropped', NEW k \in 1..Len(entries), NEW l \in 1..Len(entries), k < l,
                    stage'[entries[l]] \in {"running", "ran", "done"}
             PROVE  stage'[entries[k]] \in {"ran", "done"}
  BY Zenon DEF InOrder, Over
<1>1. NoneDropped
  BY Zenon, DroppedStays
<1>2. entries[k] \in Items /\ entries[l] \in Items
  BY DEF MailTypes
<1>3. stage[entries[l]] \in {"running", "ran", "done"}
  <2>1. CASE entries[l] = i
    <3>1. In(i, entries) /\ ~DroppedAt(i)'
      BY Zenon, <2>1 DEF In, NoneDropped
    <3> QED
      BY Zenon, <2>1, <3>1
  <2>2. CASE entries[l] # i
    BY Zenon, <1>2, <2>2 DEF Elsewhere
  <2> QED
    BY Zenon, <2>1, <2>2
<1>4. Over(entries[k])
  BY Zenon, <1>1, <1>3 DEF InOrder
<1> QED
  BY Zenon, <1>2, <1>4 DEF Over, Elsewhere

\* A step that leaves the mailbox alone and moves i.
Moves(i, t) ==
  /\ stage' = [stage EXCEPT ![i] = t]
  /\ ended' \in [Items -> Mailbox!Ends] /\ \A j \in Items \ {i} : ended'[j] = ended[j]
  /\ UNCHANGED <<mailTail, previous, entries>>

\* A move changes the stage of one item and leaves the others where they were.
LEMMA MovesFacts ==
  ASSUME MailTypes, NEW i \in Items, NEW t \in Mailbox!Stages, Moves(i, t),
         starts' \in Seq(Items), \A j \in Items \ {i} : In(j, starts') <=> In(j, starts)
  PROVE  /\ stage' \in [Items -> Mailbox!Stages] /\ stage'[i] = t /\ Elsewhere(i)
         /\ \A j \in Items \ {i} : stage'[j] = stage[j]
<1>1. /\ stage' \in [Items -> Mailbox!Stages] /\ stage'[i] = t
      /\ \A j \in Items \ {i} : stage'[j] = stage[j]
  BY Zenon DEF MailTypes, Moves
<1> QED
  BY Zenon, <1>1 DEF Elsewhere, Moves

\* An item moves that is not in the mailbox.
LEMMA OutsideStep ==
  ASSUME MailTypes, InLine, Placed, InOrder, NEW i \in Items, NEW t \in {"created", "tail", "provider", "ran", "done"},
         Moves(i, t), starts' = starts, stage[i] \in {"new", "created", "tail", "provider"},
         t \notin {"ran", "done"} => ended'[i] = ended[i]
  PROVE  InLine' /\ Placed' /\ InOrder' /\ stage' \in [Items -> Mailbox!Stages]
<1>1. t \in Mailbox!Stages /\ t \notin {"entered", "queued", "running"} /\ ~Over(i)
  BY DEF Mailbox!Stages, Over
<1>2. /\ stage' \in [Items -> Mailbox!Stages] /\ stage'[i] = t /\ Elsewhere(i)
      /\ \A j \in Items \ {i} : stage'[j] = stage[j]
  <2>1. starts' \in Seq(Items) /\ \A j \in Items \ {i} : In(j, starts') <=> In(j, starts)
    BY Zenon DEF MailTypes
  <2> QED
    BY Zenon, <1>1, <2>1, MovesFacts
<1>3. ~In(i, entries) /\ entries' = entries /\ ~In(i, entries') /\ ~In(i, starts') /\ ended[i] = "open"
  BY Zenon DEF Placed, PlacedAt, Moves
<1>4. InLine'
  BY Zenon DEF InLine, Moves, Distinct
<1>5. PlacedAt(i)'
  <2>1. CASE t \in {"ran", "done"}
    <3>1. stage'[i] \notin {"new", "created", "tail", "provider"} /\ stage'[i] \notin {"entered", "queued", "running"}
          /\ stage'[i] \notin {"entered", "queued"} /\ stage'[i] # "running" /\ stage'[i] # "queued"
      BY <1>2, <2>1
    <3> QED
      BY Zenon, <1>3, <3>1 DEF PlacedAt
  <2>2. CASE t \notin {"ran", "done"}
    BY Zenon, <1>1, <1>2, <1>3, <2>2 DEF PlacedAt
  <2> QED
    BY Zenon, <2>1, <2>2
<1>6. ~DroppedAt(i)
  BY Zenon, <1>3 DEF DroppedAt
<1>7. InOrder'
  BY Zenon, <1>1, <1>2, <1>3, <1>6, OrderKept
<1> QED
  BY Zenon, <1>2, <1>4, <1>5, <1>7, OthersPlaced

\* An operation, or a mailbox task that was cancelled before it ran, ends.
LEMMA EndsStep ==
  ASSUME MailTypes, InLine, Placed, InOrder, NEW i \in Items, Moves(i, "ran"), starts' = starts,
         \/ stage[i] = "running"
         \/ stage[i] = "entered" /\ ended'[i] = "cancelled"
  PROVE  InLine' /\ Placed' /\ InOrder' /\ stage' \in [Items -> Mailbox!Stages]
<1>1. "ran" \in Mailbox!Stages /\ "ran" \notin {"entered", "queued", "running", "new", "created", "tail", "provider"}
      /\ ~Over(i)
  BY DEF Mailbox!Stages, Over
<1>2. /\ stage' \in [Items -> Mailbox!Stages] /\ stage'[i] = "ran" /\ Elsewhere(i)
      /\ \A j \in Items \ {i} : stage'[j] = stage[j]
  <2>1. starts' \in Seq(Items) /\ \A j \in Items \ {i} : In(j, starts') <=> In(j, starts)
    BY Zenon DEF MailTypes
  <2> QED
    BY Zenon, <1>1, <2>1, MovesFacts
<1>3. entries' = entries /\ In(i, entries) /\ ended[i] = "open" /\ (stage[i] = "running" => In(i, starts))
      /\ (stage[i] = "entered" => ~In(i, starts))
  BY Zenon DEF Placed, PlacedAt, Moves
<1>4. InLine'
  BY Zenon DEF InLine, Moves, Distinct
<1>5. PlacedAt(i)'
  <2>1. stage'[i] \notin {"entered", "queued", "new", "created", "tail", "provider"} /\ stage'[i] # "running"
        /\ stage'[i] # "queued"
    BY Zenon, <1>1, <1>2
  <2>2. In(i, starts') \/ ended'[i] = "cancelled"
    BY Zenon, <1>3
  <2> QED
    BY Zenon, <1>1, <1>2, <2>1, <2>2 DEF PlacedAt
<1>6. ~DroppedAt(i)
  <2>1. "open" # "cancelled"
    OBVIOUS
  <2> QED
    BY Zenon, <1>3, <2>1 DEF DroppedAt
<1>7. stage[i] = "running" \/ DroppedAt(i)'
  BY Zenon, <1>3 DEF DroppedAt
<1>8. InOrder'
  BY Zenon, <1>1, <1>2, <1>3, <1>6, <1>7, OrderKept
<1> QED
  BY Zenon, <1>2, <1>4, <1>5, <1>8, OthersPlaced

\* An item whose mailbox task is over goes on.
LEMMA OverMoves ==
  ASSUME MailTypes, InLine, Placed, InOrder, NEW i \in Items, NEW t \in {"ran", "done"}, Moves(i, t), starts' = starts,
         Over(i), ended'[i] \in {ended[i], "cancelled"}
  PROVE  InLine' /\ Placed' /\ InOrder' /\ stage' \in [Items -> Mailbox!Stages]
<1>1. t \in Mailbox!Stages /\ t \notin {"entered", "queued", "running", "new", "created", "tail", "provider"}
  BY DEF Mailbox!Stages
<1>2. /\ stage' \in [Items -> Mailbox!Stages] /\ stage'[i] = t /\ Elsewhere(i)
      /\ \A j \in Items \ {i} : stage'[j] = stage[j]
  <2>1. starts' \in Seq(Items) /\ \A j \in Items \ {i} : In(j, starts') <=> In(j, starts)
    BY Zenon DEF MailTypes
  <2> QED
    BY Zenon, <1>1, <2>1, MovesFacts
<1>3. entries' = entries /\ (In(i, entries) /\ ~In(i, starts) => ended[i] = "cancelled")
  BY Zenon DEF Placed, PlacedAt, Moves
<1>4. InLine'
  BY Zenon DEF InLine, Moves, Distinct
<1>5. PlacedAt(i)'
  <2>1. stage'[i] \notin {"new", "created", "tail", "provider"} /\ stage'[i] \notin {"entered", "queued", "running"}
        /\ stage'[i] \notin {"entered", "queued"} /\ stage'[i] # "running" /\ stage'[i] # "queued"
    BY Zenon, <1>1, <1>2
  <2>2. In(i, entries') /\ ~In(i, starts') => ended'[i] = "cancelled"
    BY Zenon, <1>3
  <2> QED
    BY Zenon, <2>1, <2>2 DEF PlacedAt
<1>6. DroppedAt(i) => DroppedAt(i)'
  BY Zenon, <1>3 DEF DroppedAt
<1>7. Over(i)' /\ stage[i] \in {"running", "ran", "done"}
  BY Zenon, <1>2 DEF Over
<1>8. InOrder'
  BY Zenon, <1>2, <1>3, <1>6, <1>7, OrderKept
<1> QED
  BY Zenon, <1>2, <1>4, <1>5, <1>8, OthersPlaced

\* A mailbox task finds the one before it at work, and waits.
LEMMA WaitsStep ==
  ASSUME MailTypes, InLine, Placed, InOrder, NEW i \in Items, Moves(i, "queued"), starts' = starts, ended' = ended,
         stage[i] = "entered", previous[i] # NoItem
  PROVE  InLine' /\ Placed' /\ InOrder' /\ stage' \in [Items -> Mailbox!Stages]
<1>1. "queued" \in Mailbox!Stages /\ ~Over(i)
      /\ "queued" \notin {"running", "ran", "done"} /\ "queued" \notin {"new", "created", "tail", "provider"}
  BY DEF Mailbox!Stages, Over
<1>2. /\ stage' \in [Items -> Mailbox!Stages] /\ stage'[i] = "queued" /\ Elsewhere(i)
      /\ \A j \in Items \ {i} : stage'[j] = stage[j]
  <2>1. starts' \in Seq(Items) /\ \A j \in Items \ {i} : In(j, starts') <=> In(j, starts)
    BY Zenon DEF MailTypes
  <2> QED
    BY Zenon, <1>1, <2>1, MovesFacts
<1>3. entries' = entries /\ previous' = previous /\ In(i, entries) /\ ended[i] = "open" /\ ~In(i, starts)
  BY Zenon DEF Placed, PlacedAt, Moves
<1>4. previous[i] \in Items
  BY Zenon DEF MailTypes
<1>5. InLine'
  BY Zenon DEF InLine, Moves, Distinct
<1>6. PlacedAt(i)'
  <2>1. stage'[i] # "running" /\ ~(stage'[i] \in {"ran", "done"}) /\ stage'[i] \notin {"new", "created", "tail", "provider"}
    BY Zenon, <1>1, <1>2
  <2> QED
    BY Zenon, <1>3, <1>4, <2>1 DEF PlacedAt, Over
<1>7. DroppedAt(i) => DroppedAt(i)'
  BY Zenon, <1>3 DEF DroppedAt
<1>8. InOrder'
  BY Zenon, <1>1, <1>2, <1>3, <1>7, OrderKept
<1> QED
  BY Zenon, <1>2, <1>5, <1>6, <1>8, OthersPlaced

\* An operation starts: nothing before it in the mailbox is at work.
LEMMA BeginStep ==
  ASSUME MailTypes, InLine, Placed, InOrder, NEW i \in Items, Moves(i, "running"), starts' = Append(starts, i),
         ended' = ended, stage[i] \in {"entered", "queued"},
         previous[i] # NoItem => Over(previous[i])
  PROVE  InLine' /\ Placed' /\ InOrder' /\ stage' \in [Items -> Mailbox!Stages] /\ starts' \in Seq(Items)
<1>1. "running" \in Mailbox!Stages /\ ~Over(i)
      /\ "running" \notin {"entered", "queued"} /\ "running" \notin {"new", "created", "tail", "provider"}
      /\ "running" \notin {"ran", "done"}
  BY DEF Mailbox!Stages, Over
<1>2. starts' \in Seq(Items) /\ In(i, starts') /\ \A j \in Items \ {i} : In(j, starts') <=> In(j, starts)
  <2>1. /\ starts' \in Seq(Items) /\ Len(starts') = Len(starts) + 1 /\ Len(starts) \in Nat
        /\ Len(starts) + 1 \in 1..Len(starts') /\ starts'[Len(starts) + 1] = i
        /\ \A k \in 1..Len(starts) : k \in 1..Len(starts') /\ starts'[k] = starts[k]
        /\ \A k \in 1..Len(starts') : k \in 1..Len(starts) \/ k = Len(starts) + 1
    BY DEF MailTypes
  <2> QED
    BY Zenon, <2>1 DEF In
<1>3. /\ stage' \in [Items -> Mailbox!Stages] /\ stage'[i] = "running" /\ Elsewhere(i)
      /\ \A j \in Items \ {i} : stage'[j] = stage[j]
  BY Zenon, <1>1, <1>2, MovesFacts
<1>4. entries' = entries /\ In(i, entries) /\ ended[i] = "open"
  <2>1. stage[i] \in {"entered", "queued", "running"}
    BY Zenon
  <2> QED
    BY Zenon, <2>1 DEF Placed, PlacedAt, Moves
<1>5. InLine'
  BY Zenon DEF InLine, Moves, Distinct
<1>6. PlacedAt(i)'
  <2>1. stage'[i] \notin {"entered", "queued"} /\ ~(stage'[i] \in {"ran", "done"}) /\ stage'[i] # "queued"
        /\ stage'[i] \notin {"new", "created", "tail", "provider"}
    BY Zenon, <1>1, <1>3
  <2> QED
    BY Zenon, <1>2, <1>4, <2>1 DEF PlacedAt, Over
<1>7. ~DroppedAt(i)
  <2>1. "open" # "cancelled"
    OBVIOUS
  <2> QED
    BY Zenon, <1>4, <2>1 DEF DroppedAt
<1>8. InOrder'
  <2> SUFFICES ASSUME NoneDropped', NEW k \in 1..Len(entries), NEW l \in 1..Len(entries), k < l,
                      stage'[entries[l]] \in {"running", "ran", "done"}
               PROVE  stage'[entries[k]] \in {"ran", "done"}
    BY Zenon, <1>4 DEF InOrder, Over
  <2>1. NoneDropped
    BY Zenon, <1>3, <1>7, DroppedStays
  <2>2. entries[k] \in Items /\ entries[l] \in Items /\ Len(entries) \in Nat
    BY DEF MailTypes
  <2>3. Over(entries[k])
    <3>1. CASE entries[l] = i
      <4>1. l # 1 /\ l - 1 \in 1..Len(entries) /\ (k # l - 1 => k < l - 1)
        BY <2>2
      <4>2. previous[i] = entries[l - 1]
        BY Zenon, <3>1, <4>1 DEF InLine
      <4>3. entries[l - 1] \in Items
        BY <4>1 DEF MailTypes
      <4>4. Over(entries[l - 1])
        <5>1. NoItem \notin Items
          BY Zenon, WorkAssumption DEF Mailbox!RoutesAssumption
        <5> QED
          BY Zenon, <4>2, <4>3, <5>1
      <4>5. stage[entries[l - 1]] \in {"running", "ran", "done"}
        BY Zenon, <4>4 DEF Over
      <4> QED
        BY Zenon, <2>1, <4>1, <4>4, <4>5 DEF InOrder
    <3>2. CASE entries[l] # i
      <4>1. stage[entries[l]] \in {"running", "ran", "done"}
        BY Zenon, <1>3, <2>2, <3>2
      <4> QED
        BY Zenon, <2>1, <4>1 DEF InOrder
    <3> QED
      BY Zenon, <3>1, <3>2
  <2>4. entries[k] # i
    BY Zenon, <1>1, <2>3
  <2> QED
    BY Zenon, <1>3, <2>2, <2>3, <2>4 DEF Over
<1> QED
  BY Zenon, <1>2, <1>3, <1>5, <1>6, <1>8, OthersPlaced

\* A member x joins the sequence q at its end.
Earlier(r, q) == \A k \in 1..Len(r) : k = Len(r) \/ (k \in 1..Len(q) /\ r[k] = q[k] /\ k < Len(r))
SameBut(r, q, S) == \A y \in S : In(y, r) <=> In(y, q)
Joined(r, q, x, R) ==
  /\ r \in Seq(R) /\ Len(r) = Len(q) + 1 /\ Len(q) \in Nat /\ r[Len(r)] = x /\ r # <<>>
  /\ Earlier(r, q) /\ In(x, r) /\ SameBut(r, q, R \ {x})

\* An element appended to a sequence is its last, and the others keep their places.
LEMMA JoinsEnd ==
  ASSUME NEW R, NEW q \in Seq(R), NEW x \in R, NEW r, r = Append(q, x) PROVE Joined(r, q, x, R)
<1>1. /\ r \in Seq(R) /\ Len(r) = Len(q) + 1 /\ Len(q) \in Nat /\ r[Len(r)] = x /\ r # <<>>
      /\ \A k \in 1..Len(r) : k = Len(r) \/ (k \in 1..Len(q) /\ r[k] = q[k] /\ k < Len(r))
      /\ Len(r) \in 1..Len(r)
      /\ \A k \in 1..Len(q) : k \in 1..Len(r) /\ r[k] = q[k]
  OBVIOUS
<1>2. In(x, r)
  BY Zenon, <1>1 DEF In
<1>3. ASSUME NEW y \in R \ {x} PROVE In(y, r) <=> In(y, q)
  BY Zenon, <1>1 DEF In
<1> QED
  BY Zenon, <1>1, <1>2, <1>3 DEF Joined, Earlier, SameBut

\* submit(): an item enters the mailbox behind all the others.
LEMMA EnterStep ==
  ASSUME MailTypes, InLine, Placed, InOrder, NEW i \in Items, stage[i] \in {"created", "provider"},
         previous' = [previous EXCEPT ![i] = mailTail], mailTail' = i, entries' = Append(entries, i),
         stage' = [stage EXCEPT ![i] = "entered"], ended' = ended, starts' = starts
  PROVE  /\ InLine' /\ Placed' /\ InOrder' /\ stage' \in [Items -> Mailbox!Stages]
         /\ previous' \in [Items -> Items \cup {NoItem}] /\ entries' \in Seq(Items)
<1>1. PICK e : e = Append(entries, i)
  BY Zenon
<1>2. entries' = e /\ entries \in Seq(Items)
  BY Zenon, <1>1 DEF MailTypes
<1>3. /\ e \in Seq(Items) /\ Len(e) = Len(entries) + 1 /\ Len(entries) \in Nat /\ e[Len(e)] = i /\ e # <<>>
      /\ \A k \in 1..Len(e) : k = Len(e) \/ (k \in 1..Len(entries) /\ e[k] = entries[k] /\ k < Len(e))
      /\ In(i, e) /\ \A j \in Items \ {i} : In(j, e) <=> In(j, entries)
  <2>1. /\ e \in Seq(Items) /\ Len(e) = Len(entries) + 1 /\ Len(entries) \in Nat /\ e[Len(e)] = i /\ e # <<>>
        /\ Earlier(e, entries) /\ In(i, e) /\ SameBut(e, entries, Items \ {i})
    <3>1. Joined(e, entries, i, Items)
      BY Zenon, <1>1, <1>2, JoinsEnd
    <3> QED
      BY Zenon, <3>1 DEF Joined
  <2>2. \A k \in 1..Len(e) : k = Len(e) \/ (k \in 1..Len(entries) /\ e[k] = entries[k] /\ k < Len(e))
    <3>1. Earlier(e, entries)
      BY Zenon, <2>1
    <3> QED
      BY Zenon, <3>1 DEF Earlier
  <2>3. \A j \in Items \ {i} : In(j, e) <=> In(j, entries)
    <3>1. SameBut(e, entries, Items \ {i})
      BY Zenon, <2>1
    <3> QED
      BY Zenon, <3>1 DEF SameBut
  <2> QED
    BY Zenon, <2>1, <2>2, <2>3
<1>4. ~In(i, entries) /\ ~In(i, starts) /\ ended[i] = "open"
  <2>1. stage[i] \in {"new", "created", "tail", "provider"}
    OBVIOUS
  <2> QED
    BY Zenon, <2>1 DEF Placed, PlacedAt
<1>5. "entered" \in Mailbox!Stages /\ ~Over(i) /\ "entered" \notin {"new", "created", "tail", "provider"}
      /\ "entered" # "running" /\ "entered" # "queued" /\ "entered" \notin {"running", "ran", "done"}
  BY DEF Mailbox!Stages, Over
<1>6. mailTail \in Items \cup {NoItem}
  <2>1. CASE entries = <<>>
    BY Zenon, <2>1 DEF InLine
  <2>2. CASE entries # <<>>
    <3>1. Len(entries) \in 1..Len(entries)
      BY <1>2, <2>2
    <3> QED
      BY Zenon, <1>2, <2>2, <3>1, MemberOfSeq DEF InLine
  <2> QED
    BY Zenon, <2>1, <2>2
<1>7. /\ stage' \in [Items -> Mailbox!Stages] /\ stage'[i] = "entered"
      /\ \A j \in Items \ {i} : stage'[j] = stage[j]
      /\ previous' \in [Items -> Items \cup {NoItem}] /\ previous'[i] = mailTail
      /\ \A j \in Items \ {i} : previous'[j] = previous[j]
  BY Zenon, <1>5, <1>6 DEF MailTypes
<1>8. Elsewhere(i)
  <2>1. \A j \in Items \ {i} : In(j, entries') <=> In(j, entries)
    BY Zenon, <1>2, <1>3
  <2>2. \A j \in Items \ {i} : In(j, starts') <=> In(j, starts)
    BY Zenon
  <2> QED
    BY Zenon, <1>7, <2>1, <2>2 DEF Elsewhere
<1>9. InLine'
  <2>1. ASSUME NEW k \in 1..Len(e), NEW l \in 1..Len(e), k < l PROVE e[k] # e[l]
    <3>1. k # Len(e) /\ Len(e) \in Nat
      BY <1>3, <2>1
    <3>2. k \in 1..Len(entries) /\ e[k] = entries[k]
      BY Zenon, <1>3, <3>1
    <3>3. CASE l = Len(e)
      BY Zenon, <1>3, <1>4, <3>2, <3>3 DEF In
    <3>4. CASE l # Len(e)
      <4>1. l \in 1..Len(entries) /\ e[l] = entries[l]
        BY Zenon, <1>3, <3>4
      <4> QED
        BY Zenon, <2>1, <3>2, <4>1 DEF InLine, Distinct
    <3> QED
      BY Zenon, <3>3, <3>4
  <2>2. ASSUME NEW k \in 1..Len(e) PROVE previous'[e[k]] = IF k = 1 THEN NoItem ELSE e[k - 1]
    <3>1. CASE k = Len(e)
      <4>1. CASE entries = <<>>
        <5>1. k = 1
          BY <1>3, <3>1, <4>1
        <5> QED
          BY Zenon, <1>3, <1>7, <3>1, <4>1, <5>1 DEF InLine
      <4>2. CASE entries # <<>>
        <5>1. k # 1 /\ k - 1 = Len(entries) /\ k - 1 \in 1..Len(e) /\ k - 1 # Len(e)
          BY <1>2, <1>3, <3>1, <4>2
        <5>2. e[k - 1] = entries[Len(entries)]
          BY Zenon, <1>3, <5>1
        <5> QED
          BY Zenon, <1>3, <1>7, <3>1, <4>2, <5>1, <5>2 DEF InLine
      <4> QED
        BY Zenon, <4>1, <4>2
    <3>2. CASE k # Len(e)
      <4>1. k \in 1..Len(entries) /\ e[k] = entries[k]
        BY Zenon, <1>3, <3>2
      <4>2. entries[k] # i /\ entries[k] \in Items
        BY Zenon, <1>2, <1>4, <4>1, MemberOfSeq DEF In
      <4>3. k # 1 => k - 1 \in 1..Len(e) /\ k - 1 # Len(e)
        BY <1>3, <4>1
      <4>4. k # 1 => e[k - 1] = entries[k - 1]
        BY Zenon, <1>3, <4>3
      <4>5. previous[entries[k]] = IF k = 1 THEN NoItem ELSE entries[k - 1]
        BY Zenon, <4>1 DEF InLine
      <4> QED
        BY Zenon, <1>7, <4>1, <4>2, <4>4, <4>5
    <3> QED
      BY Zenon, <3>1, <3>2
  <2>3. Distinct(e)
    BY Zenon, <2>1 DEF Distinct
  <2>4. mailTail' = IF entries' = <<>> THEN NoItem ELSE entries'[Len(entries')]
    BY Zenon, <1>2, <1>3
  <2>5. Distinct(entries)'
    BY Zenon, <1>2, <2>3 DEF Distinct
  <2>6. \A k \in 1..Len(entries') : previous'[entries'[k]] = IF k = 1 THEN NoItem ELSE entries'[k - 1]
    BY Zenon, <1>2, <2>2
  <2> QED
    BY Zenon, <2>4, <2>5, <2>6 DEF InLine
<1>10. PlacedAt(i)'
  <2>1. stage'[i] \notin {"new", "created", "tail", "provider"} /\ stage'[i] # "running" /\ stage'[i] # "queued"
        /\ stage'[i] \notin {"ran", "done"}
    BY <1>7
  <2> QED
    BY Zenon, <1>2, <1>3, <1>4, <2>1 DEF PlacedAt, Over
<1>11. InOrder'
  <2> SUFFICES ASSUME NoneDropped', NEW k \in 1..Len(e), NEW l \in 1..Len(e), k < l,
                      stage'[e[l]] \in {"running", "ran", "done"}
               PROVE  stage'[e[k]] \in {"ran", "done"}
    BY Zenon, <1>2 DEF InOrder, Over
  <2>1. NoneDropped
    BY Zenon, <1>4, <1>8, DroppedStays DEF DroppedAt
  <2>2. l # Len(e)
    BY Zenon, <1>3, <1>5, <1>7
  <2>3. k # Len(e) /\ l < Len(e)
    BY <1>3, <2>2
  <2>4. k \in 1..Len(entries) /\ e[k] = entries[k] /\ l \in 1..Len(entries) /\ e[l] = entries[l]
    BY Zenon, <1>3, <2>2, <2>3
  <2>5. entries[k] \in Items \ {i} /\ entries[l] \in Items \ {i}
    BY Zenon, <1>2, <1>4, <2>4, MemberOfSeq DEF In
  <2> QED
    BY Zenon, <1>7, <2>1, <2>4, <2>5 DEF InOrder, Over
<1> QED
  BY Zenon, <1>2, <1>3, <1>7, <1>8, <1>9, <1>10, <1>11, OthersPlaced

-----------------------------------------------------------------------------
(* What a step may schedule. *)

\* A queue of callbacks that all find their item where it was.
Sound(q) == q \in Seq(Calls) /\ OnceIn(q) /\ \A k \in 1..Len(q) : Agrees(q[k])

\* A step may schedule the callbacks c behind the queue q.
Schedules(c, q) ==
  /\ c \in Seq(Calls) /\ OnceIn(c)
  /\ \A k \in 1..Len(c) : Lax(c[k]) \/ ~In(c[k], q)
  /\ \A k \in 1..Len(c) : Fits(c[k], stage', previous')

\* No callback in q waits for i, but a shield's or one that comes after the end of its task.
Unheard(i, q) == \A k \in 1..Len(q) : q[k][2] = i => q[k][1] = "shield" \/ Over(i)

\* The queue after a step that moves one item.
LEMMA QueueStep ==
  ASSUME MailTypes, NEW q, Sound(q), NEW c, Schedules(c, q), NEW i \in Items, NEW t,
         stage' = [stage EXCEPT ![i] = t], \A j \in Items \ {i} : previous'[j] = previous[j],
         Over(i) => t \in {"ran", "done"}, Unheard(i, q), ready' = q \o c
  PROVE  ready' \in Seq(Calls) /\ CallsAgree'
<1>1. q \in Seq(Calls) /\ OnceIn(q) /\ \A k \in 1..Len(q) : Agrees(q[k])
  BY Zenon DEF Sound
<1>2. \A k \in 1..Len(q) : Agrees(q[k])'
  BY Zenon, <1>1, RestAgrees DEF Unheard
<1>3. c \in Seq(Calls) /\ OnceIn(c) /\ (\A k \in 1..Len(c) : Lax(c[k]) \/ ~In(c[k], q))
      /\ \A k \in 1..Len(c) : Agrees(c[k])'
  BY Zenon DEF Schedules, Agrees
<1> QED
  BY Zenon, <1>1, <1>2, <1>3, CallsJoin

\* The loop takes the callback at the head of its queue.
LEMMA HeadFacts ==
  ASSUME MailTypes, CallsAgree, ready # <<>>
  PROVE  Sound(Tail(ready)) /\ Head(ready) \in Calls /\ Agrees(Head(ready))
<1>1. PICK r : r = Tail(ready)
  BY Zenon
<1>2. r \in Seq(Calls) /\ OnceIn(r) /\ Head(ready) \in Calls
  BY Zenon, <1>1, OnceTail DEF MailTypes, CallsAgree
<1>3. /\ ready[1] = Head(ready) /\ 1 \in 1..Len(ready)
      /\ \A k \in 1..Len(r) : k + 1 \in 1..Len(ready) /\ r[k] = ready[k + 1]
  BY <1>1 DEF MailTypes
<1> QED
  BY Zenon, <1>1, <1>2, <1>3 DEF Sound, CallsAgree

\* Once it is taken, no other waits for its item.
LEMMA HeadUnheard ==
  ASSUME MailTypes, CallsAgree, ready # <<>>, Head(ready)[1] # "shield"
  PROVE  Unheard(Head(ready)[2], Tail(ready))
<1>1. PICK r : r = Tail(ready)
  BY Zenon
<1>2. PICK c : c = Head(ready)
  BY Zenon
<1>3. c \in Calls /\ Agrees(c) /\ Sound(r)
  BY Zenon, <1>1, <1>2, HeadFacts
<1>4. CASE ~Lax(c)
  BY Zenon, <1>1, <1>2, <1>4, HeadTaken DEF Unheard
<1>5. CASE c[1] \in {"provider", "finally"}
  BY Zenon, <1>1, <1>2, <1>3, <1>5 DEF Unheard, Agrees, Fits, Over
<1> QED
  BY Zenon, <1>2, <1>4, <1>5 DEF Lax

\* The queue after a step that moves none.
LEMMA QueueStays ==
  ASSUME NEW q, Sound(q), NEW c, Schedules(c, q), stage' = stage, previous' = previous, ready' = q \o c
  PROVE  ready' \in Seq(Calls) /\ CallsAgree'
<1>1. q \in Seq(Calls) /\ OnceIn(q) /\ \A k \in 1..Len(q) : Agrees(q[k])'
  BY Zenon DEF Sound, Agrees
<1>2. c \in Seq(Calls) /\ OnceIn(c) /\ (\A k \in 1..Len(c) : Lax(c[k]) \/ ~In(c[k], q))
      /\ \A k \in 1..Len(c) : Agrees(c[k])'
  BY Zenon DEF Schedules, Agrees
<1> QED
  BY Zenon, <1>1, <1>2, CallsJoin

\* A step that schedules nothing, or one callback.
LEMMA SchedulesNone ==
  ASSUME NEW q PROVE Schedules(<<>>, q)
BY DEF Schedules, OnceIn

\* Scheduling one callback that fits the new state and is not scheduled yet.
LEMMA SchedulesOne ==
  ASSUME NEW q, NEW x \in Calls, Lax(x) \/ ~In(x, q), Fits(x, stage', previous')
  PROVE  Schedules(<<x>>, q)
<1>1. PICK c : c = <<x>>
  BY Zenon
<1>2. c \in Seq(Calls) /\ Len(c) = 1 /\ \A k \in 1..Len(c) : k = 1 /\ c[k] = x
  BY <1>1
<1>3. OnceIn(c)
  <2>1. ASSUME NEW k \in 1..Len(c), NEW l \in 1..Len(c), k < l PROVE FALSE
    BY <1>2, <2>1
  <2> QED
    BY Zenon, <2>1 DEF OnceIn
<1> QED
  BY Zenon, <1>1, <1>2, <1>3 DEF Schedules

\* The callback of an item no callback waits for.
LEMMA NotYet ==
  ASSUME NEW q, NEW i \in Items, Unheard(i, q), ~Over(i), NEW kind, kind # "shield"
  PROVE  ~In(<<kind, i>>, q)
<1>1. PICK x : x = <<kind, i>>
  BY Zenon
<1>2. x[1] = kind /\ x[2] = i
  BY <1>1
<1> QED
  BY Zenon, <1>1, <1>2 DEF In, Unheard

\* The end of a mailbox task wakes its caller and whoever waits behind it, who are not awake yet.
LEMMA SchedulesAfter ==
  ASSUME MailTypes, InLine, NEW q, Sound(q), NEW i \in Items, stage[i] \in {"entered", "running"},
         stage' = [stage EXCEPT ![i] = "ran"], previous' = previous
  PROVE  Schedules(Mailbox!AfterMailbox(i), q)
<1> DEFINE T == {j \in Items : previous[j] = i /\ stage[j] = "queued"}
<1>1. PICK b : b = Mailbox!Behind(i)
  BY Zenon
<1>2. b \in Seq(T) /\ Distinct(b)
  <2>1. entries \in Seq(Items) /\ Distinct(entries)
    BY Zenon DEF MailTypes, InLine
  <2>2. Selection(Mailbox!Among(entries, T), T, entries)
    BY Zenon, <2>1, AmongFacts
  <2> QED
    BY Zenon, <1>1, <2>1, <2>2 DEF Selection, Mailbox!Behind
<1>3. \A k \in 1..Len(b) : b[k] \in Items /\ previous[b[k]] = i /\ stage[b[k]] = "queued"
  <2>1. \A k \in 1..Len(b) : b[k] \in T
    <3> HIDE DEF T
    <3> QED
      BY Zenon, <1>2, MemberOfSeq
  <2> QED
    BY Zenon, <2>1
<1>4. PICK w : w = [k \in 1..Len(b) |-> <<"mail", b[k]>>]
  BY Zenon
<1>5. PICK c : c = <<<<"provider", i>>>> \o w
  BY Zenon
<1>6. c = Mailbox!AfterMailbox(i)
  BY Zenon, <1>1, <1>4, <1>5 DEF Mailbox!AfterMailbox, Mailbox!Wakeups
<1>7. \A k \in 1..Len(b) : <<"mail", b[k]>> \in Calls
  BY <1>3 DEF Calls
<1>8. Len(b) \in Nat
  BY <1>2
<1>9. w \in Seq(Calls) /\ Len(w) = Len(b)
  BY <1>4, <1>7, <1>8
<1>10. /\ c \in Seq(Calls) /\ Len(c) = Len(b) + 1
       /\ \A k \in 1..Len(c) : IF k = 1 THEN c[k] = <<"provider", i>>
                               ELSE k - 1 \in 1..Len(b) /\ c[k] = w[k - 1]
  <2>1. <<"provider", i>> \in Calls
    BY DEF Calls
  <2> QED
    BY <1>5, <1>8, <1>9, <2>1
<1>11. \A k \in 1..Len(c) : IF k = 1 THEN c[k] = <<"provider", i>>
                             ELSE k - 1 \in 1..Len(b) /\ c[k] = <<"mail", b[k - 1]>>
  BY Zenon, <1>4, <1>10
<1>12. stage'[i] = "ran" /\ \A j \in Items : stage[j] = "queued" => stage'[j] = "queued"
  BY DEF MailTypes
<1>13. ASSUME NEW k \in 1..Len(c)
       PROVE  (Lax(c[k]) \/ ~In(c[k], q)) /\ Fits(c[k], stage', previous')
  <2>1. CASE k = 1
    <3>1. c[k] = <<"provider", i>>
      BY Zenon, <1>11, <2>1
    <3>2. c[k][1] = "provider" /\ c[k][2] = i
      BY <3>1
    <3>3. Lax(c[k])
      BY Zenon, <3>2 DEF Lax
    <3>4. Fits(c[k], stage', previous')
      BY <1>12, <3>2 DEF Fits
    <3> QED
      BY Zenon, <3>3, <3>4
  <2>2. CASE k # 1
    <3>1. PICK j \in Items : c[k] = <<"mail", j>> /\ previous[j] = i /\ stage[j] = "queued"
      BY Zenon, <1>3, <1>11, <2>2
    <3>2. PICK x : x = c[k]
      BY Zenon
    <3>3. x[1] = "mail" /\ x[2] = j
      BY <3>1, <3>2
    <3>4. ASSUME In(x, q) PROVE FALSE
      <4>1. Agrees(x)
        BY Zenon, <3>4 DEF In, Sound
      <4>2. stage[i] \in {"ran", "done"}
        BY Zenon, <3>1, <3>3, <4>1 DEF Agrees, Fits
      <4> QED
        BY <4>2
    <3>5. stage'[j] = "queued" /\ previous'[j] = i
      BY Zenon, <1>12, <3>1
    <3>6. Fits(x, stage', previous')
      BY <1>12, <3>3, <3>5 DEF Fits
    <3> QED
      BY Zenon, <3>2, <3>4, <3>6
  <2> QED
    BY Zenon, <2>1, <2>2
<1>14. OnceIn(c)
  <2> SUFFICES ASSUME NEW k \in 1..Len(c), NEW l \in 1..Len(c), k < l, c[k] = c[l] PROVE Lax(c[k])
    BY Zenon DEF OnceIn
  <2>1. CASE k = 1
    <3>1. c[k] = <<"provider", i>>
      BY Zenon, <1>11, <2>1
    <3>2. c[k][1] = "provider"
      BY <3>1
    <3> QED
      BY Zenon, <3>2 DEF Lax
  <2>2. CASE k # 1
    <3>1. l # 1 /\ k - 1 < l - 1
      BY <1>8, <1>10, <2>2
    <3>2. /\ k - 1 \in 1..Len(b) /\ c[k] = <<"mail", b[k - 1]>>
          /\ l - 1 \in 1..Len(b) /\ c[l] = <<"mail", b[l - 1]>>
      BY Zenon, <1>11, <2>2, <3>1
    <3>3. b[k - 1] = b[l - 1]
      <4>1. <<"mail", b[k - 1]>> = <<"mail", b[l - 1]>>
        BY Zenon, <3>2
      <4>2. \A y, z : <<"mail", y>> = <<"mail", z>> => y = z
        OBVIOUS
      <4> QED
        BY Zenon, <4>1, <4>2
    <3> QED
      BY Zenon, <1>2, <3>1, <3>2, <3>3 DEF Distinct
  <2> QED
    BY Zenon, <2>1, <2>2
<1> QED
  BY Zenon, <1>6, <1>10, <1>13, <1>14 DEF Schedules

\* The end of a provider task resumes one() and tells the shields.
LEMMA SchedulesOver ==
  ASSUME MailTypes, NEW q, NEW i \in Items, stage'[i] \in {"ran", "done"}
  PROVE  Schedules(Mailbox!ProviderOver(i), q)
<1> DEFINE T == {j \in Items : waitsFor[j] = i /\ stage[j] = "tail"}
<1>1. PICK b : b = Mailbox!Shielding(i)
  BY Zenon
<1>2. b \in Seq(T)
  <2>1. accepted \in Seq(Items)
    BY Zenon DEF MailTypes
  <2>2. Selection(Mailbox!Among(accepted, T), T, accepted)
    BY Zenon, <2>1, AmongFacts
  <2> QED
    BY Zenon, <1>1, <2>2 DEF Selection, Mailbox!Shielding
<1>3. \A k \in 1..Len(b) : b[k] \in Items
  <2>1. \A k \in 1..Len(b) : b[k] \in T
    <3> HIDE DEF T
    <3> QED
      BY Zenon, <1>2, MemberOfSeq
  <2> QED
    BY Zenon, <2>1
<1>4. PICK w : w = [k \in 1..Len(b) |-> <<"shield", b[k]>>]
  BY Zenon
<1>5. PICK c : c = <<<<"finally", i>>>> \o w
  BY Zenon
<1>6. c = Mailbox!ProviderOver(i)
  BY Zenon, <1>1, <1>4, <1>5 DEF Mailbox!ProviderOver, Mailbox!Wakeups
<1>7. \A k \in 1..Len(b) : <<"shield", b[k]>> \in Calls
  BY <1>3 DEF Calls
<1>8. Len(b) \in Nat
  BY <1>2
<1>9. w \in Seq(Calls) /\ Len(w) = Len(b)
  BY <1>4, <1>7, <1>8
<1>10. /\ c \in Seq(Calls) /\ Len(c) = Len(b) + 1
       /\ \A k \in 1..Len(c) : IF k = 1 THEN c[k] = <<"finally", i>>
                               ELSE k - 1 \in 1..Len(b) /\ c[k] = w[k - 1]
  <2>1. <<"finally", i>> \in Calls
    BY DEF Calls
  <2> QED
    BY <1>5, <1>8, <1>9, <2>1
<1>11. ASSUME NEW k \in 1..Len(c) PROVE Lax(c[k]) /\ Fits(c[k], stage', previous')
  <2>1. CASE k = 1
    <3>1. c[k] = <<"finally", i>>
      BY Zenon, <1>10, <2>1
    <3>2. c[k][1] = "finally" /\ c[k][2] = i
      BY <3>1
    <3>3. Lax(c[k])
      BY Zenon, <3>2 DEF Lax
    <3>4. Fits(c[k], stage', previous')
      BY <3>2 DEF Fits
    <3> QED
      BY Zenon, <3>3, <3>4
  <2>2. CASE k # 1
    <3>1. PICK j \in Items : c[k] = <<"shield", j>>
      BY Zenon, <1>3, <1>4, <1>10, <2>2
    <3>2. c[k][1] = "shield"
      BY <3>1
    <3>3. Lax(c[k])
      BY Zenon, <3>2 DEF Lax
    <3>4. Fits(c[k], stage', previous')
      BY <3>2 DEF Fits
    <3> QED
      BY Zenon, <3>3, <3>4
  <2> QED
    BY Zenon, <2>1, <2>2
<1> QED
  BY Zenon, <1>6, <1>10, <1>11 DEF Schedules, OnceIn

-----------------------------------------------------------------------------
(* One lemma per step. *)

\* What holds of the mailbox after a step.
Kept == InLine' /\ Placed' /\ InOrder' /\ stage' \in [Items -> Mailbox!Stages]

\* A step that moves one item and leaves the order of the mailbox alone.
LEMMA MovedStep ==
  ASSUME MailInv, NEW i \in Items, NEW t, Moves(i, t), Kept, starts' \in Seq(Items), accepted' \in Seq(Items),
         NEW q, Sound(q), NEW c, Schedules(c, q), Unheard(i, q), Over(i) => t \in {"ran", "done"}, ready' = q \o c
  PROVE  MailInv'
<1>1. MailTypes
  BY Zenon DEF MailInv
<1>2. /\ stage' = [stage EXCEPT ![i] = t] /\ ended' \in [Items -> Mailbox!Ends]
      /\ previous' = previous /\ entries' = entries
  BY Zenon DEF Moves
<1>3. ready' \in Seq(Calls) /\ CallsAgree'
  <2>1. \A j \in Items \ {i} : previous'[j] = previous[j]
    BY Zenon, <1>2
  <2> QED
    BY Zenon, <1>1, <1>2, <2>1, QueueStep
<1>4. MailTypes'
  BY Zenon, <1>1, <1>2, <1>3 DEF MailTypes, Kept
<1> QED
  BY Zenon, <1>3, <1>4 DEF MailInv, Kept

\* The end of an item, recorded or left as it is.
LEMMA EndedMoves ==
  ASSUME MailTypes, NEW i \in Items, NEW t, stage' = [stage EXCEPT ![i] = t],
         NEW how \in Mailbox!Ends, ended' = [ended EXCEPT ![i] = how], UNCHANGED <<mailTail, previous, entries>>
  PROVE  Moves(i, t) /\ ended'[i] = how
<1>1. ended \in [Items -> Mailbox!Ends]
  BY Zenon DEF MailTypes
<1>2. ended' \in [Items -> Mailbox!Ends] /\ ended'[i] = how /\ \A j \in Items \ {i} : ended'[j] = ended[j]
  BY Zenon, <1>1
<1> QED
  BY Zenon, <1>2 DEF Moves

\* A step that changes one stage and no outcome moves one item.
LEMMA OpenMoves ==
  ASSUME MailTypes, NEW i \in Items, NEW t, stage' = [stage EXCEPT ![i] = t], ended' = ended,
         UNCHANGED <<mailTail, previous, entries>>
  PROVE  Moves(i, t)
BY Zenon DEF MailTypes, Moves

\* The callback at the head belongs to i.
Called(i) ==
  /\ MailInv /\ Sound(Tail(ready)) /\ Unheard(i, Tail(ready)) /\ accepted' = accepted

\* A task ends before it reached the mailbox.
LEMMA UnrunStep ==
  ASSUME NEW i \in Items, Called(i), stage[i] \in {"created", "tail"}, Mailbox!Put("done", i),
         NEW how \in {"cancelled", "failed"}, ended' = [ended EXCEPT ![i] = how], Mailbox!Queue(<<>>),
         UNCHANGED <<mailTail, previous, entries, starts>>
  PROVE  MailInv'
<1>1. MailInv /\ MailTypes /\ InLine /\ Placed /\ InOrder /\ starts \in Seq(Items) /\ accepted \in Seq(Items)
  BY Zenon DEF Called, MailInv, MailTypes
<1>2. how \in Mailbox!Ends
  BY DEF Mailbox!Ends
<1>3. Moves(i, "done") /\ ready' = Tail(ready) \o <<>> /\ starts' = starts
  BY Zenon, <1>1, <1>2, EndedMoves DEF Mailbox!Put, Mailbox!Queue
<1>4. stage[i] \in {"new", "created", "tail", "provider"} /\ ~Over(i)
  BY DEF Over
<1>5. Kept
  BY Zenon, <1>1, <1>3, <1>4, OutsideStep DEF Kept
<1>6. Schedules(<<>>, Tail(ready))
  BY Zenon, SchedulesNone
<1> QED
  BY Zenon, <1>1, <1>3, <1>4, <1>5, <1>6, MovedStep DEF Called

\* one() creates the provider task.
LEMMA ProvidesStep ==
  ASSUME NEW i \in Items, Called(i), stage[i] \in {"created", "tail"}, Mailbox!StartProvider(i), ended' = ended,
         UNCHANGED <<mailTail, previous, entries, starts>>
  PROVE  MailInv'
<1>1. MailInv /\ MailTypes /\ InLine /\ Placed /\ InOrder /\ starts \in Seq(Items) /\ accepted \in Seq(Items)
  BY Zenon DEF Called, MailInv, MailTypes
<1>2. Moves(i, "provider") /\ ready' = Tail(ready) \o <<<<"search", i>>>> /\ starts' = starts
      /\ stage' = [stage EXCEPT ![i] = "provider"]
  BY Zenon, <1>1, OpenMoves DEF Mailbox!StartProvider, Mailbox!Put, Mailbox!Queue
<1>3. stage[i] \in {"new", "created", "tail", "provider"} /\ ~Over(i)
  BY DEF Over
<1>4. Kept
  BY Zenon, <1>1, <1>2, <1>3, OutsideStep DEF Kept
<1>5. PICK x : x = <<"search", i>>
  BY Zenon
<1>6. x \in Calls /\ x[1] = "search" /\ x[2] = i
  BY <1>5 DEF Calls
<1>7. stage'[i] = "provider"
  BY Zenon, <1>1, <1>2 DEF MailTypes
<1>8. Fits(x, stage', previous')
  BY SMTT(30), <1>6, <1>7 DEF Fits
<1>9. ~In(x, Tail(ready))
  <2>1. "search" # "shield"
    OBVIOUS
  <2> QED
    BY Zenon, <1>3, <1>5, <2>1, NotYet DEF Called
<1>10. Schedules(<<x>>, Tail(ready))
  BY Zenon, <1>6, <1>8, <1>9, SchedulesOne
<1> QED
  BY Zenon, <1>1, <1>2, <1>3, <1>4, <1>5, <1>10, MovedStep DEF Called

\* submit(): the item enters the mailbox.
LEMMA EntersStep ==
  ASSUME NEW i \in Items, Called(i), stage[i] \in {"created", "provider"}, Mailbox!EnterMailbox(i), ended' = ended,
         starts' = starts
  PROVE  MailInv'
<1>1. MailInv /\ MailTypes /\ InLine /\ Placed /\ InOrder /\ starts \in Seq(Items) /\ accepted \in Seq(Items)
  BY Zenon DEF Called, MailInv, MailTypes
<1>2. /\ previous' = [previous EXCEPT ![i] = mailTail] /\ mailTail' = i /\ entries' = Append(entries, i)
      /\ stage' = [stage EXCEPT ![i] = "entered"] /\ ready' = Tail(ready) \o <<<<"run", i>>>>
  BY Zenon DEF Mailbox!EnterMailbox, Mailbox!Put, Mailbox!Queue
<1>3. Kept /\ previous' \in [Items -> Items \cup {NoItem}] /\ entries' \in Seq(Items)
  BY Zenon, <1>1, <1>2, EnterStep DEF Kept
<1>4. ~Over(i)
  BY DEF Over
<1>5. PICK x : x = <<"run", i>>
  BY Zenon
<1>6. x \in Calls /\ x[1] = "run" /\ x[2] = i
  BY <1>5 DEF Calls
<1>7. stage'[i] = "entered" /\ \A j \in Items \ {i} : previous'[j] = previous[j]
  BY Zenon, <1>1, <1>2 DEF MailTypes
<1>8. Fits(x, stage', previous')
  BY <1>6, <1>7 DEF Fits
<1>9. ~In(x, Tail(ready))
  <2>1. "run" # "shield"
    OBVIOUS
  <2> QED
    BY Zenon, <1>4, <1>5, <2>1, NotYet DEF Called
<1>10. Schedules(<<x>>, Tail(ready))
  BY Zenon, <1>6, <1>8, <1>9, SchedulesOne
<1>11. ready' \in Seq(Calls) /\ CallsAgree'
  BY Zenon, <1>1, <1>2, <1>4, <1>5, <1>7, <1>10, QueueStep DEF Called
<1>12. MailTypes'
  BY Zenon, <1>1, <1>3, <1>11 DEF MailTypes, Kept, Called
<1> QED
  BY Zenon, <1>3, <1>11, <1>12 DEF MailInv, Kept

\* The operation starts.
LEMMA BeginsStep ==
  ASSUME NEW i \in Items, Called(i), stage[i] \in {"entered", "queued"}, Mailbox!Begin(i), ended' = ended,
         previous[i] # NoItem => Over(previous[i]), UNCHANGED <<mailTail, previous, entries>>
  PROVE  MailInv'
<1>1. MailInv /\ MailTypes /\ InLine /\ Placed /\ InOrder /\ starts \in Seq(Items) /\ accepted \in Seq(Items)
  BY Zenon DEF Called, MailInv, MailTypes
<1>2. /\ Moves(i, "running") /\ ready' = Tail(ready) \o <<>> /\ starts' = Append(starts, i)
  BY Zenon, <1>1, OpenMoves DEF Mailbox!Begin, Mailbox!Put, Mailbox!Queue
<1>3. Kept /\ starts' \in Seq(Items)
  BY Zenon, <1>1, <1>2, BeginStep DEF Kept
<1>4. ~Over(i)
  BY DEF Over
<1>5. Schedules(<<>>, Tail(ready))
  BY Zenon, SchedulesNone
<1> QED
  BY Zenon, <1>1, <1>2, <1>3, <1>4, <1>5, MovedStep DEF Called

\* The first step of an item's task.
LEMMA FirstStep ==
  ASSUME NEW i \in Items, Called(i), stage[i] = "created", Mailbox!First(i) PROVE MailInv'
<1>1. CASE Mailbox!EndUnrun(i) /\ Mailbox!Queue(<<>>) /\ UNCHANGED <<tail, waitsFor, mailTail, previous, entries, starts>>
  BY Zenon, <1>1, UnrunStep DEF Mailbox!EndUnrun
<1>2. CASE Mailbox!EnterMailbox(i) /\ ended' = ended /\ starts' = starts
  BY Zenon, <1>2, EntersStep
<1>3. CASE /\ Mailbox!Put("done", i) /\ ended' = [ended EXCEPT ![i] = "failed"] /\ Mailbox!Queue(<<>>)
           /\ UNCHANGED <<mailTail, previous, entries>> /\ starts' = starts
  BY Zenon, <1>3, UnrunStep
<1>4. CASE Mailbox!StartProvider(i) /\ ended' = ended /\ UNCHANGED <<mailTail, previous, entries, starts>>
  BY Zenon, <1>4, ProvidesStep
<1>5. CASE /\ Mailbox!Put("tail", i) /\ Mailbox!Queue(<<>>) /\ ended' = ended
           /\ UNCHANGED <<mailTail, previous, entries, starts>>
  <2>1. MailInv /\ MailTypes /\ InLine /\ Placed /\ InOrder /\ starts \in Seq(Items) /\ accepted \in Seq(Items)
    BY Zenon DEF Called, MailInv, MailTypes
  <2>2. Moves(i, "tail") /\ ready' = Tail(ready) \o <<>> /\ starts' = starts
    BY Zenon, <1>5, <2>1, OpenMoves DEF Mailbox!Put, Mailbox!Queue
  <2>3. stage[i] \in {"new", "created", "tail", "provider"} /\ ~Over(i)
    BY DEF Over
  <2>4. Kept
    BY Zenon, <1>5, <2>1, <2>2, <2>3, OutsideStep DEF Kept
  <2>5. Schedules(<<>>, Tail(ready))
    BY Zenon, SchedulesNone
  <2> QED
    BY Zenon, <2>1, <2>2, <2>3, <2>4, <2>5, MovedStep DEF Called
<1> QED
  BY Zenon, <1>1, <1>2, <1>3, <1>4, <1>5 DEF Mailbox!First

\* one() resumes from its shield.
LEMMA TailStep ==
  ASSUME NEW i \in Items, Called(i), stage[i] = "tail", Mailbox!TailWakes(i) PROVE MailInv'
<1>1. CASE Mailbox!EndUnrun(i) /\ Mailbox!Queue(<<>>) /\ UNCHANGED <<tail, waitsFor, mailTail, previous, entries, starts>>
  BY Zenon, <1>1, UnrunStep DEF Mailbox!EndUnrun
<1>2. CASE Mailbox!StartProvider(i) /\ ended' = ended /\ UNCHANGED <<mailTail, previous, entries, starts>>
  BY Zenon, <1>2, ProvidesStep
<1> QED
  BY Zenon, <1>1, <1>2 DEF Mailbox!TailWakes

\* The provider task's first step.
LEMMA SearchStep ==
  ASSUME NEW i \in Items, Called(i), stage[i] = "provider", Mailbox!Search(i), starts' = starts PROVE MailInv'
<1>1. CASE Mailbox!EnterMailbox(i) /\ ended' = ended
  BY Zenon, <1>1, EntersStep
<1>2. CASE /\ ended' = [ended EXCEPT ![i] = IF i \in cancelled THEN "cancelled" ELSE "failed"]
           /\ Mailbox!Put("ran", i) /\ Mailbox!Queue(Mailbox!ProviderOver(i)) /\ UNCHANGED <<mailTail, previous, entries>>
  <2>1. MailInv /\ MailTypes /\ InLine /\ Placed /\ InOrder /\ starts \in Seq(Items) /\ accepted \in Seq(Items)
    BY Zenon DEF Called, MailInv, MailTypes
  <2>2. PICK how : how = IF i \in cancelled THEN "cancelled" ELSE "failed"
    BY Zenon
  <2>3. how \in Mailbox!Ends
    BY <2>2 DEF Mailbox!Ends
  <2>4. ended' = [ended EXCEPT ![i] = how]
    BY Zenon, <1>2, <2>2
  <2>5. Moves(i, "ran") /\ ready' = Tail(ready) \o Mailbox!ProviderOver(i)
    BY Zenon, <1>2, <2>1, <2>3, <2>4, EndedMoves DEF Mailbox!Put, Mailbox!Queue
  <2>6. stage[i] \in {"new", "created", "tail", "provider"} /\ ~Over(i)
    BY DEF Over
  <2>7. Kept
    BY Zenon, <2>1, <2>5, <2>6, OutsideStep DEF Kept
  <2>8. stage'[i] \in {"ran", "done"}
    BY Zenon, <1>2, <2>1 DEF Mailbox!Put, MailTypes
  <2>9. Schedules(Mailbox!ProviderOver(i), Tail(ready))
    BY Zenon, <2>1, <2>8, SchedulesOver
  <2> QED
    BY Zenon, <2>1, <2>5, <2>6, <2>7, <2>9, MovedStep DEF Called
<1> QED
  BY Zenon, <1>1, <1>2 DEF Mailbox!Search

\* The first step of an item's mailbox task.
LEMMA RunStep ==
  ASSUME NEW i \in Items, Called(i), stage[i] = "entered", Mailbox!Run(i), UNCHANGED <<mailTail, previous, entries>>
  PROVE  MailInv'
<1>1. MailInv /\ MailTypes /\ InLine /\ Placed /\ InOrder /\ starts \in Seq(Items) /\ accepted \in Seq(Items)
  BY Zenon DEF Called, MailInv, MailTypes
<1>2. ~Over(i)
  BY DEF Over
<1>3. CASE Mailbox!MailboxEnds(i, "cancelled") /\ Mailbox!Queue(Mailbox!AfterMailbox(i)) /\ starts' = starts
  <2>1. "cancelled" \in Mailbox!Ends
    BY DEF Mailbox!Ends
  <2>2. Moves(i, "ran") /\ ended'[i] = "cancelled" /\ ready' = Tail(ready) \o Mailbox!AfterMailbox(i)
        /\ stage' = [stage EXCEPT ![i] = "ran"]
    BY Zenon, <1>1, <1>3, <2>1, EndedMoves DEF Mailbox!MailboxEnds, Mailbox!Queue
  <2>3. Kept
    BY Zenon, <1>1, <1>3, <2>2, EndsStep DEF Kept
  <2>4. Schedules(Mailbox!AfterMailbox(i), Tail(ready))
    BY Zenon, <1>1, <2>2, SchedulesAfter DEF Called
  <2> QED
    BY Zenon, <1>1, <1>2, <1>3, <2>2, <2>3, <2>4, MovedStep DEF Called
<1>4. CASE Mailbox!MailboxFree(i) /\ Mailbox!Begin(i) /\ ended' = ended
  BY Zenon, <1>4, BeginsStep DEF Mailbox!MailboxFree, Over
<1>5. CASE ~Mailbox!MailboxFree(i) /\ Mailbox!Put("queued", i) /\ Mailbox!Queue(<<>>) /\ starts' = starts /\ ended' = ended
  <2>1. previous[i] # NoItem
    BY Zenon, <1>5 DEF Mailbox!MailboxFree
  <2>2. Moves(i, "queued") /\ ready' = Tail(ready) \o <<>>
    BY Zenon, <1>1, <1>5, OpenMoves DEF Mailbox!Put, Mailbox!Queue
  <2>3. Kept
    BY Zenon, <1>1, <1>5, <2>1, <2>2, WaitsStep DEF Kept
  <2>4. Schedules(<<>>, Tail(ready))
    BY Zenon, SchedulesNone
  <2> QED
    BY Zenon, <1>1, <1>2, <1>5, <2>2, <2>3, <2>4, MovedStep DEF Called
<1> QED
  BY Zenon, <1>3, <1>4, <1>5 DEF Mailbox!Run

\* What search() does when its mailbox task is over, and one() when its provider task is.
LEMMA ReturnsStep ==
  ASSUME NEW i \in Items, Called(i), Over(i), NEW t \in {"ran", "done"}, stage' = [stage EXCEPT ![i] = t],
         ended' = [ended EXCEPT ![i] = IF i \in cancelled THEN "cancelled" ELSE ended[i]],
         UNCHANGED <<mailTail, previous, entries, starts>>,
         ready' = Tail(ready) \o <<>> \/ ready' = Tail(ready) \o Mailbox!ProviderOver(i)
  PROVE  MailInv'
<1>1. MailInv /\ MailTypes /\ InLine /\ Placed /\ InOrder /\ starts \in Seq(Items) /\ accepted \in Seq(Items)
  BY Zenon DEF Called, MailInv, MailTypes
<1>2. PICK how : how = IF i \in cancelled THEN "cancelled" ELSE ended[i]
  BY Zenon
<1>3. how \in Mailbox!Ends /\ how \in {ended[i], "cancelled"}
  <2>1. "cancelled" \in Mailbox!Ends
    BY DEF Mailbox!Ends
  <2> QED
    BY Zenon, <1>1, <1>2, <2>1 DEF MailTypes
<1>4. ended' = [ended EXCEPT ![i] = how]
  BY Zenon, <1>2
<1>5. Moves(i, t) /\ ended'[i] = how /\ starts' = starts
  BY Zenon, <1>1, <1>3, <1>4, EndedMoves
<1>6. Kept
  BY Zenon, <1>1, <1>3, <1>5, OverMoves DEF Kept
<1>7. stage'[i] \in {"ran", "done"}
  BY Zenon, <1>1 DEF MailTypes
<1>8. Schedules(<<>>, Tail(ready)) /\ Schedules(Mailbox!ProviderOver(i), Tail(ready))
  BY Zenon, <1>1, <1>7, SchedulesNone, SchedulesOver
<1> QED
  BY Zenon, <1>1, <1>5, <1>6, <1>8, MovedStep DEF Called

\* search() returns to its caller, or to the provider call that is over (_finish).
LEMMA SearchReturnsStep ==
  ASSUME NEW i \in Items, Called(i), Over(i), Mailbox!SearchReturns(i), UNCHANGED <<mailTail, previous, entries, starts>>
  PROVE  MailInv'
<1>1. stage \in [Items -> Mailbox!Stages] /\ stage[i] \in {"ran", "done"}
  BY Zenon DEF Called, MailInv, MailTypes, Over
<1>2. CASE Mailbox!Put("done", i) /\ Mailbox!Queue(<<>>)
  BY Zenon, <1>2, ReturnsStep DEF Mailbox!SearchReturns, Mailbox!Put, Mailbox!Queue
<1>3. CASE stage' = stage /\ Mailbox!Queue(Mailbox!ProviderOver(i))
  <2>1. PICK t \in {"ran", "done"} : t = stage[i]
    BY Zenon, <1>1
  <2>2. stage' = [stage EXCEPT ![i] = t]
    BY Zenon, <1>1, <1>3, <2>1
  <2> QED
    BY Zenon, <1>3, <2>2, ReturnsStep DEF Mailbox!SearchReturns, Mailbox!Queue
<1> QED
  BY Zenon, <1>2, <1>3 DEF Mailbox!SearchReturns

\* A step that leaves the mailbox and every item where they are.
LEMMA StillStep ==
  ASSUME MailInv, NEW q, Sound(q), NEW c, Schedules(c, q), ready' = q \o c,
         UNCHANGED <<stage, ended, mailTail, previous, entries, starts, accepted>>
  PROVE  MailInv'
<1>1. MailTypes /\ InLine /\ Placed /\ InOrder
  BY Zenon DEF MailInv
<1>2. ready' \in Seq(Calls) /\ CallsAgree'
  BY Zenon, QueueStays
<1>3. MailTypes'
  BY Zenon, <1>1, <1>2 DEF MailTypes
<1>4. InLine'
  BY Zenon, <1>1 DEF InLine, Distinct
<1>5. Placed'
  BY ZenonT(60), <1>1 DEF Placed, PlacedAt, In, Over
<1>6. InOrder'
  BY Zenon, <1>1 DEF InOrder, NoneDropped, DroppedAt, In, Over
<1> QED
  BY Zenon, <1>2, <1>3, <1>4, <1>5, <1>6 DEF MailInv

\* The shield of the previous provider task passes its outcome on.
LEMMA ShieldStep ==
  ASSUME NEW i \in Items, MailInv, Sound(Tail(ready)), Mailbox!Shield(i), accepted' = accepted,
         ready # <<>>, Head(ready)[1] = "shield"
  PROVE  MailInv'
<1>1. UNCHANGED <<stage, ended, mailTail, previous, entries, starts, accepted>>
  BY Zenon DEF Mailbox!Shield
<1>2. CASE ready' = Tail(ready) \o <<>>
  BY Zenon, <1>1, <1>2, SchedulesNone, StillStep
<1>3. CASE <<"tail", i>> \notin Mailbox!Range(ready) /\ stage[i] = "tail" /\ ready' = Tail(ready) \o <<<<"tail", i>>>>
  <2>1. PICK x : x = <<"tail", i>>
    BY Zenon
  <2>2. x \in Calls /\ x[1] = "tail" /\ x[2] = i
    BY <2>1 DEF Calls
  <2>3. Fits(x, stage', previous')
    BY <1>1, <1>3, <2>2 DEF Fits
  <2>4. ~In(x, Tail(ready))
    <3>1. PICK r : r = Tail(ready)
      BY Zenon
    <3>2. \A k \in 1..Len(r) : r[k] = ready[k + 1] /\ k + 1 \in DOMAIN ready
      BY <3>1 DEF MailInv, MailTypes
    <3> QED
      BY Zenon, <1>3, <2>1, <3>1, <3>2 DEF In, Mailbox!Range
  <2>5. Schedules(<<x>>, Tail(ready))
    BY Zenon, <2>2, <2>3, <2>4, SchedulesOne
  <2> QED
    BY Zenon, <1>1, <1>3, <2>1, <2>5, StillStep
<1> QED
  BY Zenon, <1>2, <1>3 DEF Mailbox!Shield, Mailbox!Queue

\* The callback at the head of the queue runs.
LEMMA LoopStep ==
  ASSUME MailInv, Mailbox!Step PROVE MailInv'
<1>1. PICK c : c = Head(ready)
  BY Zenon
<1>2. PICK i : i = c[2]
  BY Zenon
<1>3. ready # <<>> /\ accepted' = accepted
  BY Zenon DEF Mailbox!Step
<1>4. MailTypes /\ CallsAgree
  BY Zenon DEF MailInv
<1>5. Sound(Tail(ready)) /\ c \in Calls /\ Agrees(c)
  BY Zenon, <1>1, <1>3, <1>4, HeadFacts
<1>6. i \in Items
  BY <1>2, <1>5 DEF Calls
<1>7. c[1] # "shield" => Called(i)
  BY Zenon, <1>1, <1>2, <1>3, <1>4, <1>5, HeadUnheard DEF Called
<1>8. /\ c[1] = "first" => stage[i] = "created"
      /\ c[1] = "tail" => stage[i] = "tail"
      /\ c[1] = "search" => stage[i] = "provider"
      /\ c[1] = "run" => stage[i] = "entered"
      /\ c[1] = "mail" => stage[i] = "queued" /\ previous[i] \in Items /\ Over(previous[i])
      /\ c[1] \in {"provider", "finally"} => Over(i)
  BY Zenon, <1>2, <1>5 DEF Agrees, Fits, Over
<1>9. "first" # "shield" /\ "tail" # "shield" /\ "search" # "shield" /\ "run" # "shield" /\ "mail" # "shield"
      /\ "provider" # "shield" /\ "finally" # "shield"
  OBVIOUS
<1>10. CASE c[1] = "first" /\ Mailbox!First(i)
  BY Zenon, <1>6, <1>7, <1>8, <1>9, <1>10, FirstStep
<1>11. CASE c[1] = "shield" /\ Mailbox!Shield(i)
  BY Zenon, <1>1, <1>3, <1>5, <1>6, <1>11, ShieldStep
<1>12. CASE c[1] = "tail" /\ Mailbox!TailWakes(i)
  BY Zenon, <1>6, <1>7, <1>8, <1>9, <1>12, TailStep
<1>13. CASE c[1] = "search" /\ Mailbox!Search(i) /\ UNCHANGED <<tail, waitsFor, starts>>
  BY Zenon, <1>6, <1>7, <1>8, <1>9, <1>13, SearchStep
<1>14. CASE c[1] = "run" /\ Mailbox!Run(i) /\ UNCHANGED <<tail, waitsFor, mailTail, previous, entries>>
  BY Zenon, <1>6, <1>7, <1>8, <1>9, <1>14, RunStep
<1>15. CASE c[1] = "mail" /\ Mailbox!MailWakes(i) /\ UNCHANGED <<tail, waitsFor, mailTail, previous, entries>>
  BY Zenon, <1>6, <1>7, <1>8, <1>9, <1>15, BeginsStep DEF Mailbox!MailWakes
<1>16. CASE c[1] = "provider" /\ Mailbox!SearchReturns(i) /\ UNCHANGED <<tail, waitsFor, mailTail, previous, entries, starts>>
  BY Zenon, <1>6, <1>7, <1>8, <1>9, <1>16, SearchReturnsStep
<1>17. CASE c[1] = "finally" /\ Mailbox!Finally(i) /\ UNCHANGED <<waitsFor, mailTail, previous, entries, starts>>
  BY Zenon, <1>6, <1>7, <1>8, <1>9, <1>17, ReturnsStep DEF Mailbox!Finally, Mailbox!Put, Mailbox!Queue
<1> QED
  BY Zenon, <1>1, <1>2, <1>10, <1>11, <1>12, <1>13, <1>14, <1>15, <1>16, <1>17 DEF Mailbox!Step

\* To append is to join a sequence of one.
LEMMA AppendJoins ==
  ASSUME NEW R, NEW q \in Seq(R), NEW x \in R PROVE Append(q, x) = q \o <<x>>
<1>1. PICK a : a = Append(q, x)
  BY Zenon
<1>2. PICK b : b = q \o <<x>>
  BY Zenon
<1>3. a \in Seq(R) /\ Len(a) = Len(q) + 1 /\ Len(q) \in Nat /\ (\A k \in 1..Len(q) : a[k] = q[k]) /\ a[Len(q) + 1] = x
  BY <1>1
<1>4. b \in Seq(R) /\ Len(b) = Len(q) + 1 /\ (\A k \in 1..Len(q) : b[k] = q[k]) /\ b[Len(q) + 1] = x
  BY <1>2
<1>5. a = b
  BY <1>3, <1>4
<1> QED
  BY Zenon, <1>1, <1>2, <1>5

\* No callback waits for an item that is new or whose operation runs.
LEMMA Quiet ==
  ASSUME MailInv, NEW i \in Items, stage[i] \in {"new", "running"} PROVE Sound(ready) /\ Unheard(i, ready)
<1>1. ready \in Seq(Calls) /\ OnceIn(ready) /\ \A k \in 1..Len(ready) : Agrees(ready[k])
  BY Zenon DEF MailInv, MailTypes, CallsAgree
<1>2. \A k \in 1..Len(ready) : ready[k] \in Calls
  BY Zenon, <1>1, MemberOfSeq
<1> QED
  BY Zenon, <1>1, <1>2, NoCall DEF Sound, Unheard

\* start_task creates an item's task.
LEMMA AcceptStep ==
  ASSUME MailInv, NEW i \in Items, Mailbox!Accept(i) PROVE MailInv'
<1>1. MailTypes /\ InLine /\ Placed /\ InOrder /\ starts \in Seq(Items) /\ accepted \in Seq(Items)
  BY Zenon DEF MailInv, MailTypes
<1>2. /\ stage[i] = "new" /\ stage' = [stage EXCEPT ![i] = "created"] /\ ended' = ended /\ starts' = starts
      /\ ready' = Append(ready, <<"first", i>>) /\ accepted' = Append(accepted, i)
      /\ UNCHANGED <<mailTail, previous, entries>>
  BY Zenon DEF Mailbox!Accept, Mailbox!Put
<1>3. Moves(i, "created")
  BY Zenon, <1>1, <1>2, OpenMoves
<1>4. stage[i] \in {"new", "created", "tail", "provider"} /\ ~Over(i)
  BY <1>2 DEF Over
<1>5. Kept
  BY Zenon, <1>1, <1>2, <1>3, <1>4, OutsideStep DEF Kept
<1>6. Sound(ready) /\ Unheard(i, ready)
  BY Zenon, <1>2, Quiet
<1>7. PICK x : x = <<"first", i>>
  BY Zenon
<1>8. x \in Calls /\ x[1] = "first" /\ x[2] = i
  BY <1>7 DEF Calls
<1>9. stage'[i] = "created"
  BY Zenon, <1>1, <1>2 DEF MailTypes
<1>10. Fits(x, stage', previous')
  BY <1>8, <1>9 DEF Fits
<1>11. ~In(x, ready)
  <2>1. "first" # "shield"
    OBVIOUS
  <2> QED
    BY Zenon, <1>4, <1>6, <1>7, <2>1, NotYet
<1>12. Schedules(<<x>>, ready)
  BY Zenon, <1>8, <1>10, <1>11, SchedulesOne
<1>13. accepted' \in Seq(Items) /\ ready' = ready \o <<x>>
  <2>1. ready \in Seq(Calls)
    BY Zenon, <1>1 DEF MailTypes
  <2>2. accepted' \in Seq(Items)
    BY <1>1, <1>2
  <2> QED
    BY Zenon, <1>2, <1>7, <1>8, <2>1, <2>2, AppendJoins
<1> QED
  BY Zenon, <1>1, <1>2, <1>3, <1>4, <1>5, <1>6, <1>12, <1>13, MovedStep

\* A running operation ends: answered, failed, out of time or cancelled.
LEMMA OperationEnds ==
  ASSUME MailInv, NEW i \in Items, stage[i] = "running", NEW how \in Mailbox!Ends, Mailbox!MailboxEnds(i, how),
         ready' = ready \o Mailbox!AfterMailbox(i), UNCHANGED <<mailTail, previous, accepted, entries, starts>>
  PROVE  MailInv'
<1>1. MailTypes /\ InLine /\ Placed /\ InOrder /\ starts \in Seq(Items) /\ accepted \in Seq(Items)
  BY Zenon DEF MailInv, MailTypes
<1>2. Moves(i, "ran") /\ stage' = [stage EXCEPT ![i] = "ran"]
  BY Zenon, <1>1, EndedMoves DEF Mailbox!MailboxEnds
<1>3. Kept
  BY Zenon, <1>1, <1>2, EndsStep DEF Kept
<1>4. Sound(ready) /\ Unheard(i, ready)
  BY Zenon, Quiet
<1>5. Schedules(Mailbox!AfterMailbox(i), ready)
  BY Zenon, <1>1, <1>2, <1>4, SchedulesAfter
<1> QED
  BY Zenon, <1>1, <1>2, <1>3, <1>4, <1>5, MovedStep

\* The provider answers: the operation that runs in the mailbox ends.
LEMMA AnswerStep ==
  ASSUME MailInv, NEW i \in Items, Mailbox!ProviderAnswers(i) PROVE MailInv'
<1>1. PICK how \in {"completed", "failed"} : Mailbox!MailboxEnds(i, how)
  BY Zenon DEF Mailbox!ProviderAnswers
<1>2. how \in Mailbox!Ends
  BY <1>1 DEF Mailbox!Ends
<1> QED
  BY Zenon, <1>1, <1>2, OperationEnds DEF Mailbox!ProviderAnswers

\* A cancellation goes to the item its chain of awaited tasks ends at.
LEMMA CancelStep ==
  ASSUME MailInv, NEW i \in Items, Mailbox!Cancel(i) PROVE MailInv'
<1>1. MailTypes /\ Placed /\ ready \in Seq(Calls) /\ entries \in Seq(Items)
  BY Zenon DEF MailInv, MailTypes
<1>2. PICK j : j = Mailbox!Reached(i)
  BY Zenon
<1>3. j \in Items
  <2>1. Len(entries) \in Nat
    BY <1>1
  <2>2. \A n \in Items : Mailbox!Awaits(n) => previous[n] \in Items
    BY Zenon, <1>1 DEF Mailbox!Awaits, Placed, PlacedAt
  <2> QED
    BY Zenon, <1>2, <2>1, <2>2, ReachedIsItem
<1>4. UNCHANGED <<mailTail, previous, accepted, entries, starts>>
  BY Zenon DEF Mailbox!Cancel
<1>5. Sound(ready)
  BY Zenon DEF Sound, MailInv, MailTypes, CallsAgree
<1>6. CASE stage[j] = "running" /\ Mailbox!MailboxEnds(j, "cancelled") /\ ready' = ready \o Mailbox!AfterMailbox(j)
  <2>1. "cancelled" \in Mailbox!Ends
    BY DEF Mailbox!Ends
  <2> QED
    BY Zenon, <1>3, <1>4, <1>6, <2>1, OperationEnds
<1>7. CASE ready' = ready /\ UNCHANGED <<stage, ended>>
  <2>1. ready' = ready \o <<>>
    BY <1>1, <1>7
  <2> QED
    BY Zenon, <1>4, <1>5, <1>7, <2>1, SchedulesNone, StillStep
<1>8. CASE /\ stage[j] = "tail" /\ <<"tail", j>> \notin Mailbox!Range(ready) /\ ready' = Append(ready, <<"tail", j>>)
           /\ UNCHANGED <<stage, ended>>
  <2>1. PICK x : x = <<"tail", j>>
    BY Zenon
  <2>2. x \in Calls /\ x[1] = "tail" /\ x[2] = j
    BY <1>3, <2>1 DEF Calls
  <2>3. Fits(x, stage', previous')
    BY <1>8, <2>2 DEF Fits
  <2>4. ~In(x, ready)
    <3>1. \A k \in 1..Len(ready) : k \in DOMAIN ready
      BY <1>1
    <3> QED
      BY Zenon, <1>8, <2>1, <3>1 DEF In, Mailbox!Range
  <2>5. Schedules(<<x>>, ready)
    BY Zenon, <2>2, <2>3, <2>4, SchedulesOne
  <2>6. ready' = ready \o <<x>>
    BY Zenon, <1>1, <1>8, <2>1, <2>2, AppendJoins
  <2> QED
    BY Zenon, <1>4, <1>5, <1>8, <2>5, <2>6, StillStep
<1> QED
  BY Zenon, <1>2, <1>6, <1>7, <1>8 DEF Mailbox!Cancel

\* The empty mailbox: nothing is scheduled and no item has entered.
LEMMA MailInit ==
  ASSUME Mailbox!Init PROVE MailInv
<1>1. /\ stage = [i \in Items |-> "new"] /\ ended = [i \in Items |-> "open"] /\ ready = <<>> /\ mailTail = NoItem
      /\ previous = [i \in Items |-> NoItem] /\ accepted = <<>> /\ entries = <<>> /\ starts = <<>>
  BY Zenon DEF Mailbox!Init
<1>2. Len(<<>>) = 0 /\ \A k \in 1..0 : FALSE
  OBVIOUS
<1>3. MailTypes
  BY <1>1 DEF MailTypes, Mailbox!Stages, Mailbox!Ends
<1>4. CallsAgree
  BY Zenon, <1>1, <1>2 DEF CallsAgree, OnceIn
<1>5. InLine
  BY Zenon, <1>1, <1>2 DEF InLine, Distinct
<1>6. Placed
  <2> SUFFICES ASSUME NEW i \in Items PROVE PlacedAt(i)
    BY Zenon DEF Placed
  <2>1. stage[i] = "new" /\ ended[i] = "open" /\ ~In(i, entries) /\ ~In(i, starts)
    BY Zenon, <1>1, <1>2 DEF In
  <2> QED
    BY <2>1 DEF PlacedAt, Over
<1>7. InOrder
  BY Zenon, <1>1, <1>2 DEF InOrder
<1> QED
  BY Zenon, <1>3, <1>4, <1>5, <1>6, <1>7 DEF MailInv

\* The mailbox rests while another part of the work goes on.
LEMMA MailRests ==
  ASSUME MailInv, UNCHANGED mailboxVars PROVE MailInv'
<1>1. ready \in Seq(Calls) /\ Sound(ready)
  BY Zenon DEF Sound, MailInv, MailTypes, CallsAgree
<1>2. /\ ready' = ready
      /\ UNCHANGED <<stage, ended, mailTail, previous, entries, starts, accepted>>
  BY Zenon DEF mailboxVars
<1>3. ready' = ready \o <<>>
  BY <1>1, <1>2
<1> QED
  BY Zenon, <1>1, <1>2, <1>3, SchedulesNone, StillStep

\* Every step of the mailbox preserves its invariant, and the steps of the other
\* components leave it alone.
LEMMA MailStep ==
  ASSUME MailInv, [WorkNext]_all PROVE MailInv'
<1>1. CASE Mailbox!Next
  BY Zenon, <1>1, AcceptStep, AnswerStep, CancelStep, LoopStep DEF Mailbox!Next
<1>2. CASE UNCHANGED mailboxVars
  BY Zenon, <1>2, MailRests
<1> QED
  BY Zenon, <1>1, <1>2 DEF WorkNext, all

\* Two operations overlap only when an item was dropped.
LEMMA OrderIsSerial ==
  ASSUME MailInv PROVE SerialUnlessDropped
<1>1. MailTypes /\ InLine /\ Placed /\ InOrder
  BY Zenon DEF MailInv
<1>2. CASE NoneDropped
  <2> SUFFICES ASSUME NEW i \in Items, NEW j \in Items, stage[i] = "running", stage[j] = "running", i # j PROVE FALSE
    BY Zenon DEF SerialUnlessDropped, Mailbox!SerialUnlessDropped, Mailbox!OneAtATime
  <2>1. stage[i] \in {"entered", "queued", "running"} /\ stage[j] \in {"entered", "queued", "running"}
        /\ ~Over(i) /\ ~Over(j)
    BY DEF Over
  <2>2. PICK k \in 1..Len(entries) : entries[k] = i
    BY Zenon, <1>1, <2>1 DEF Placed, PlacedAt, In
  <2>3. PICK l \in 1..Len(entries) : entries[l] = j
    BY Zenon, <1>1, <2>1 DEF Placed, PlacedAt, In
  <2>4. k # l
    BY Zenon, <2>2, <2>3
  <2>5. k < l \/ l < k
    <3>1. Len(entries) \in Nat
      BY <1>1 DEF MailTypes
    <3> QED
      BY <2>4, <3>1
  <2>6. stage[entries[k]] \in {"running", "ran", "done"} /\ stage[entries[l]] \in {"running", "ran", "done"}
    BY <2>2, <2>3
  <2> QED
    BY Zenon, <1>1, <1>2, <2>1, <2>2, <2>3, <2>5, <2>6 DEF InOrder
<1>3. CASE ~NoneDropped
  <2>1. PICK i \in Items : In(i, entries) /\ ~In(i, starts) /\ ended[i] = "cancelled"
    BY Zenon, <1>3 DEF NoneDropped, DroppedAt
  <2>2. DOMAIN entries = 1..Len(entries) /\ DOMAIN starts = 1..Len(starts)
    BY <1>1 DEF MailTypes
  <2>3. i \in Mailbox!Range(entries) \ Mailbox!Range(starts)
    BY Zenon, <2>1, <2>2 DEF In, Mailbox!Range
  <2> QED
    BY Zenon, <2>1, <2>3 DEF SerialUnlessDropped, Mailbox!SerialUnlessDropped
<1> QED
  BY Zenon, <1>2, <1>3

\* A worker's operations overlap only after an item was cancelled between its entry into
\* the mailbox and its first step there (base.py, submit), for any set of items.
THEOREM SerialUnlessDroppedAlways == WorkSpec => []SerialUnlessDropped
<1>1. WorkInit => MailInv
  BY Zenon, MailInit DEF WorkInit
<1>2. MailInv /\ [WorkNext]_all => MailInv'
  BY Zenon, MailStep
<1>3. MailInv => SerialUnlessDropped
  BY Zenon, OrderIsSerial
<1> QED
  BY <1>1, <1>2, <1>3, PTL DEF WorkSpec
=============================================================================
