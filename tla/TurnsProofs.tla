----------------------------- MODULE TurnsProofs ------------------------------
(***************************************************************************)
(* Proofs about the question a turn may continue and the record a turn     *)
(* leaves, for any turns, items, questions and times: a turn continues     *)
(* only an open question (PendingDialogue), and a turn's record adds up to *)
(* those of its work items (TurnRecorders).                                *)
(*                                                                         *)
(* The recorders' invariant is about a book (BookInv), because one step    *)
(* applies several of their operations in a row.                           *)
(***************************************************************************)
EXTENDS MCTurns, Sequences, FiniteSetTheorems, TLAPS

------------------------------------------------------------------------------
(* The pending question. *)

\* What the dialogue needs to know of its clock and its maps.
DialogueTypes ==
  /\ pending \in Questions \cup {NoQuestion}
  /\ expires \in [Questions -> Int] /\ now \in Int
  /\ question \in [Questions -> {"none", "raised", "committed", "dropped"}]
  /\ answers \in [DialogueTurns -> Questions \cup {NoQuestion}]

\* The pending question was put to the user and no turn continues it yet; a
\* question that a turn continues was put to the user too.
OpenIsFree ==
  /\ pending # NoQuestion =>
       /\ question[pending] = "committed"
       /\ \A t \in DialogueTurns : answers[t] # pending
  /\ \A t \in DialogueTurns : answers[t] # NoQuestion => question[answers[t]] = "committed"

\* The inductive invariant.
DialogueInv == DialogueTypes /\ OpenIsFree

\* Nothing was asked when the session starts.
LEMMA DialogueInit == Dialogue!Init => DialogueInv
<1> SUFFICES ASSUME Dialogue!Init PROVE DialogueInv
  BY Zenon
<1>1. DialogueTypes
  BY DEF Dialogue!Init, DialogueTypes
<1>2. OpenIsFree
  BY Zenon DEF Dialogue!Init, OpenIsFree
<1> QED
  BY Zenon, <1>1, <1>2 DEF DialogueInv

\* A question that is live has not expired.
LEMMA LiveQuestion ==
  ASSUME DialogueInv, Dialogue!Live # NoQuestion
  PROVE  Dialogue!Live = pending /\ pending # NoQuestion /\ pending \in Questions /\ now < expires[pending]
<1>1. Dialogue!Live = pending /\ pending # NoQuestion /\ ~(expires[pending] <= now)
  BY Zenon DEF Dialogue!Live
<1>2. pending \in Questions /\ now \in Int /\ expires \in [Questions -> Int]
  BY Zenon, <1>1 DEF DialogueInv, DialogueTypes
<1>3. expires[pending] \in Int
  BY Zenon, <1>2
<1>4. now < expires[pending]
  BY <1>1, <1>2, <1>3
<1> QED
  BY Zenon, <1>1, <1>2, <1>4

\* A step of the worker's question: raised, committed, suppressed or left.
LEMMA QuestionStep ==
  ASSUME DialogueInv, NEW q \in Questions,
         Dialogue!Clarify(q) \/ Dialogue!Commit(q) \/ Dialogue!Suppress(q) \/ Dialogue!Abandon(q)
  PROVE  DialogueInv' /\ answers' = answers
<1>1. /\ answers' = answers /\ now' = now
      /\ question[q] \in {"none", "raised"}
      /\ question' = [question EXCEPT ![q] = question'[q]]
      /\ question'[q] \in {"none", "raised", "committed", "dropped"}
      /\ \/ UNCHANGED <<pending, expires>>
         \/ pending' = q /\ question'[q] = "committed" /\ expires' = [expires EXCEPT ![q] = now + Timeout]
  BY Zenon DEF Dialogue!Clarify, Dialogue!Commit, Dialogue!Suppress, Dialogue!Abandon, Dialogue!turnVars,
         Dialogue!hostVars, DialogueInv, DialogueTypes
<1>2. Timeout \in Nat
  BY Zenon, TurnsAssumption DEF Dialogue!DialogueAssumption
<1>3. DialogueTypes'
  BY <1>1, <1>2 DEF DialogueInv, DialogueTypes
<1>4. NoQuestion \notin Questions
  BY Zenon, TurnsAssumption DEF Dialogue!DialogueAssumption
<1>5. \A t \in DialogueTurns : answers[t] # q
  BY Zenon, <1>1, <1>4 DEF DialogueInv, DialogueTypes, OpenIsFree
<1>6. \A p \in Questions : question[p] = "committed" => p # q /\ question'[p] = "committed"
  BY Zenon, <1>1 DEF DialogueInv, DialogueTypes
<1>7. OpenIsFree'
  BY Zenon, <1>1, <1>4, <1>5, <1>6 DEF DialogueInv, DialogueTypes, OpenIsFree
<1> QED
  BY Zenon, <1>1, <1>3, <1>7 DEF DialogueInv

\* The arbitration of a transcript: it takes the live question, or leaves it.
LEMMA ArbitrateStep ==
  ASSUME DialogueInv, NEW t \in DialogueTurns, NEW intent, Dialogue!Arbitrate(t, intent)
  PROVE  /\ DialogueInv'
         /\ \A u \in DialogueTurns : answers'[u] # answers[u] =>
              /\ question[answers'[u]] = "committed"
              /\ now < expires[answers'[u]]
              /\ \A v \in DialogueTurns \ {u} : answers'[v] # answers'[u]
<1>1. UNCHANGED <<question, expires, now>>
  BY Zenon DEF Dialogue!Arbitrate, Dialogue!hostVars
<1>2. CASE Dialogue!Take(t) /\ Dialogue!Live # NoQuestion
  <2>1. /\ pending' = NoQuestion /\ answers' = [answers EXCEPT ![t] = pending]
        /\ pending \in Questions /\ pending # NoQuestion /\ now < expires[pending]
    BY Zenon, <1>2, LiveQuestion DEF Dialogue!Take
  <2>2. /\ answers'[t] = pending /\ \A u \in DialogueTurns \ {t} : answers'[u] = answers[u]
        /\ answers' \in [DialogueTurns -> Questions \cup {NoQuestion}]
    BY Zenon, <2>1 DEF DialogueInv, DialogueTypes
  <2>3. question[pending] = "committed" /\ \A u \in DialogueTurns : answers[u] # pending
    BY Zenon, <2>1 DEF DialogueInv, OpenIsFree
  <2>4. DialogueTypes' /\ OpenIsFree'
    BY ZenonT(60), <1>1, <2>1, <2>2, <2>3 DEF DialogueInv, DialogueTypes, OpenIsFree
  <2> QED
    BY ZenonT(60), <2>1, <2>2, <2>3, <2>4 DEF DialogueInv
<1>3. CASE Dialogue!Leave
  <2>1. answers' = answers /\ pending' \in {NoQuestion, pending}
    BY Zenon, <1>3 DEF Dialogue!Leave, Dialogue!Live
  <2> QED
    BY Zenon, <1>1, <2>1 DEF DialogueInv, DialogueTypes, OpenIsFree
<1> QED
  BY Zenon, <1>2, <1>3 DEF Dialogue!Arbitrate

\* CapturesOnlyOpen as one step.
Captures ==
  \A t \in DialogueTurns : answers'[t] # answers[t] =>
    /\ question[answers'[t]] = "committed"
    /\ now < expires[answers'[t]]
    /\ \A u \in DialogueTurns \ {t} : answers'[u] # answers'[t]

\* Every step of the dialogue.
LEMMA DialogueStep ==
  ASSUME DialogueInv, Dialogue!Next
  PROVE  DialogueInv' /\ Captures
<1>1. ASSUME NEW q \in Questions,
             Dialogue!Clarify(q) \/ Dialogue!Commit(q) \/ Dialogue!Suppress(q) \/ Dialogue!Abandon(q)
      PROVE  DialogueInv' /\ Captures
  BY Zenon, <1>1, QuestionStep DEF Captures
<1>2. ASSUME NEW t \in DialogueTurns, NEW intent, Dialogue!Arbitrate(t, intent)
      PROVE  DialogueInv' /\ Captures
  BY Zenon, <1>2, ArbitrateStep DEF Captures
<1>3. ASSUME NEW t \in DialogueTurns,
             Dialogue!Transcript(t) \/ Dialogue!ArbitrateClosed(t) \/ Dialogue!CancelTurn(t)
      PROVE  DialogueInv' /\ Captures
  <2>1. UNCHANGED <<pending, expires, now, question, answers>>
    BY Zenon, <1>3 DEF Dialogue!Transcript, Dialogue!ArbitrateClosed, Dialogue!CancelTurn,
                Dialogue!dialogueVars, Dialogue!hostVars
  <2> QED
    BY Zenon, <2>1 DEF DialogueInv, DialogueTypes, OpenIsFree, Captures
<1>4. CASE Dialogue!Tick \/ Dialogue!Disconnect \/ Dialogue!Connect
  <2>1. UNCHANGED <<pending, expires, question, answers>> /\ now' \in {now, now + 1}
    BY Zenon, <1>4 DEF Dialogue!Tick, Dialogue!Disconnect, Dialogue!Connect, Dialogue!dialogueVars,
                Dialogue!turnVars
  <2>2. now' \in Int
    BY <2>1 DEF DialogueInv, DialogueTypes
  <2> QED
    BY Zenon, <2>1, <2>2 DEF DialogueInv, DialogueTypes, OpenIsFree, Captures
<1>5. CASE Dialogue!Shutdown
  <2>1. UNCHANGED <<expires, now, question, answers>> /\ pending' = NoQuestion
    BY Zenon, <1>5 DEF Dialogue!Shutdown, Dialogue!turnVars
  <2> QED
    BY Zenon, <2>1 DEF DialogueInv, DialogueTypes, OpenIsFree, Captures
<1> QED
  BY ZenonT(60), <1>1, <1>2, <1>3, <1>4, <1>5 DEF Dialogue!Next

\* A step of the handlers or of the recorders leaves the dialogue alone.
LEMMA DialogueKept ==
  ASSUME DialogueInv, [TurnsNext]_<<part, vars, dialogueVars, recorderVars>>
  PROVE  DialogueInv' /\ Captures
<1>1. CASE Dialogue!Next
  BY Zenon, <1>1, DialogueStep
<1>2. CASE UNCHANGED dialogueVars
  <2>1. UNCHANGED <<pending, expires, now, question, answers>>
    BY Zenon, <1>2 DEF dialogueVars
  <2> QED
    BY Zenon, <2>1 DEF DialogueInv, DialogueTypes, OpenIsFree, Captures
<1> QED
  BY Zenon, <1>1, <1>2 DEF TurnsNext

\* CapturesOnlyOpen, for any questions and turns and every clock: a turn
\* continues only a question that was put to the user and has not expired, and
\* no two turns continue the same one (arbitrate, pending() and
\* add_worker_clarification).
THEOREM CapturesOnlyOpenAlways == TurnsSpec => CapturesOnlyOpen
<1>1. TurnsInit => DialogueInv
  BY Zenon, DialogueInit DEF TurnsInit
<1>2. DialogueInv /\ [TurnsNext]_<<part, vars, dialogueVars, recorderVars>>
        => DialogueInv' /\ [Captures]_Dialogue!vars
  BY Zenon, DialogueKept
<1> QED
  BY <1>1, <1>2, PTL DEF TurnsSpec, CapturesOnlyOpen, Dialogue!CapturesOnlyOpen, Captures

------------------------------------------------------------------------------
(* The recorders. *)

\* The work items of a recorded turn, and those of them with a record that counts
\* for c.
KidsIn(t) == Recorders!KidsOf(t)
CountedFor(b, t, c) ==
  {i \in KidsIn(t) : \E o \in Recorders!Records(b.child[i]) : Recorders!CounterFor(o) = c}

\* The shape of the foreground recorders.
BookShaped(b) ==
  /\ b = [open |-> b.open, counts |-> b.counts, turn |-> b.turn, child |-> b.child]
  /\ b.open \in [RecordedTurns -> SUBSET Recorders!Items]
  /\ b.counts \in [RecordedTurns -> [Recorders!Counters -> Nat]]
  /\ b.turn = [t \in RecordedTurns |-> b.turn[t]]
  /\ b.child = [i \in Recorders!Items |-> b.child[i]]

\* A recorder emits at most once, and an open child has not.
BookLatched(b) ==
  /\ \A i \in Recorders!Items : b.child[i] = <<>> \/ \E o : b.child[i] = <<o>>
  /\ \A t \in RecordedTurns : \A i \in b.open[t] : i \in KidsIn(t) /\ b.child[i] = <<>>

\* The counters of a turn count the records of its children, ...
BookCounts(b) ==
  \A t \in RecordedTurns : \A c \in Recorders!Counters : b.counts[t][c] = Cardinality(CountedFor(b, t, c))

\* ... and a record that was emitted took them as they are still, with no child open.
BookClosed(b) ==
  \A t \in RecordedTurns : b.turn[t] # <<>> =>
    b.open[t] = {} /\ \E r : b.turn[t] = <<r>> /\ r.counts = b.counts[t]

BookInv(b) == BookShaped(b) /\ BookLatched(b) /\ BookCounts(b) /\ BookClosed(b)

\* The first of a pair.
LEMMA FirstOf == ASSUME NEW A, NEW B, NEW i \in A \X B PROVE i[1] \in A
  BY Zenon

\* Every work item belongs to its turn, and a turn has finitely many.
LEMMA KidsFacts ==
  ASSUME NEW t \in RecordedTurns
  PROVE  /\ IsFiniteSet(KidsIn(t)) /\ KidsIn(t) \subseteq Recorders!Items
         /\ \A i \in KidsIn(t) : i[1] = t
         /\ Recorders!Sole(t) \in KidsIn(t)
<1>1. RecordedWidth[t] \in Nat \ {0}
  BY Zenon, TurnsAssumption DEF Recorders!WidthAssumption
<1>2. KidsIn(t) \subseteq {t} \X (1..RecordedWidth[t])
  <2> SUFFICES ASSUME NEW i \in KidsIn(t) PROVE i \in {t} \X (1..RecordedWidth[t])
    BY Zenon
  <2>1. i[1] = t /\ \E u \in RecordedTurns : i \in {u} \X (1..RecordedWidth[u])
    BY Zenon DEF KidsIn, Recorders!KidsOf, Recorders!Items
  <2>2. PICK u \in RecordedTurns : i \in {u} \X (1..RecordedWidth[u])
    BY Zenon, <2>1
  <2>3. i[1] \in {u}
    BY Zenon, <2>2, FirstOf
  <2> QED
    BY Zenon, <2>1, <2>2, <2>3
<1>3. IsFiniteSet(1..RecordedWidth[t]) /\ IsFiniteSet({t})
  <2>1. 1 \in Int /\ RecordedWidth[t] \in Int
    BY <1>1
  <2> QED
    BY Zenon, <2>1, FS_Interval, FS_Singleton
<1>4. IsFiniteSet({t} \X (1..RecordedWidth[t]))
  BY Zenon, <1>3, FS_Product
<1>5. IsFiniteSet(KidsIn(t))
  BY Zenon, <1>2, <1>4, FS_Subset
<1>6. Recorders!Sole(t) \in {t} \X (1..RecordedWidth[t]) /\ Recorders!Sole(t)[1] = t
  BY <1>1 DEF Recorders!Sole
<1>7. Recorders!Sole(t) \in KidsIn(t)
  BY Zenon, <1>6 DEF KidsIn, Recorders!KidsOf, Recorders!Items
<1> QED
  BY Zenon, <1>5, <1>7 DEF KidsIn, Recorders!KidsOf

\* Counting in the recorders' module is counting.
LEMMA SameCount == \A S : Recorders!Cardinality(S) = Cardinality(S)
  BY Zenon DEF Recorders!Cardinality, Cardinality

\* n is b after AppTurnRecorder.new_child for the children is of t.
BookOpened(b, n, t, is) ==
  /\ BookShaped(n) /\ n.counts = b.counts /\ n.turn = b.turn /\ n.child = b.child
  /\ n.open[t] = b.open[t] \cup is
  /\ \A u \in RecordedTurns \ {t} : n.open[u] = b.open[u]

\* What AppTurnRecorder.new_child does to the book.
LEMMA NewChildrenFacts ==
  ASSUME NEW b, BookShaped(b), NEW t \in RecordedTurns, NEW is \in SUBSET Recorders!Items
  PROVE  BookOpened(b, Recorders!NewChildren(b, t, is), t, is)
<1>n. PICK n : n = Recorders!NewChildren(b, t, is)
  BY Zenon
<1>1. n = [b EXCEPT !.open = [b.open EXCEPT ![t] = b.open[t] \cup is]]
  BY Zenon, <1>n DEF Recorders!NewChildren
<1>2. n = [open |-> [b.open EXCEPT ![t] = b.open[t] \cup is], counts |-> b.counts,
           turn |-> b.turn, child |-> b.child]
  BY Zenon, <1>1 DEF BookShaped
<1>3. [b.open EXCEPT ![t] = b.open[t] \cup is] \in [RecordedTurns -> SUBSET Recorders!Items]
  BY Zenon DEF BookShaped
<1>4. n.open = [b.open EXCEPT ![t] = b.open[t] \cup is] /\ n.counts = b.counts /\ n.turn = b.turn /\ n.child = b.child
  BY ZenonT(60), <1>2
<1>5. BookShaped(n)
  BY ZenonT(60), <1>2, <1>3, <1>4 DEF BookShaped
<1>6. n.open[t] = b.open[t] \cup is /\ \A u \in RecordedTurns \ {t} : n.open[u] = b.open[u]
  BY Zenon, <1>4 DEF BookShaped
<1> QED
  BY ZenonT(60), <1>n, <1>4, <1>5, <1>6 DEF BookOpened

\* n is b after WorkItemRecorder.finalize and _record_child for the children is.
BookFinalized(b, n, is, outcome) ==
  /\ n = [open |-> n.open, counts |-> n.counts, turn |-> n.turn, child |-> n.child]
  /\ n.turn = b.turn
  /\ n.child = [i \in Recorders!Items |-> IF i \in is THEN Append(b.child[i], outcome[i]) ELSE b.child[i]]
  /\ n.open = [u \in RecordedTurns |-> b.open[u] \ is]
  /\ n.counts = [u \in RecordedTurns |-> [c \in Recorders!Counters |-> b.counts[u][c]
       + Cardinality({i \in is : i[1] = u /\ Recorders!CounterFor(outcome[i]) = c})]]

\* What WorkItemRecorder.finalize and _record_child do to the book, for children of
\* one turn.
LEMMA FinalizeFacts ==
  ASSUME NEW b, BookShaped(b), NEW outcome
  PROVE  BookFinalized(b, Recorders!FinalizeChildren(b, outcome),
                   Recorders!Unfinalized(b, DOMAIN outcome), outcome)
<1>n. PICK n : n = Recorders!FinalizeChildren(b, outcome)
  BY Zenon
<1>s. PICK is : is = Recorders!Unfinalized(b, DOMAIN outcome)
  BY Zenon
<1> DEFINE ch == [i \in Recorders!Items |-> IF i \in is THEN Append(b.child[i], outcome[i]) ELSE b.child[i]]
           op == [u \in RecordedTurns |-> b.open[u] \ is]
           co == [u \in RecordedTurns |-> [c \in Recorders!Counters |-> b.counts[u][c]
                 + Cardinality({i \in is : i[1] = u /\ Recorders!CounterFor(outcome[i]) = c})]]
<1>1. n = [[[b EXCEPT !.child = ch] EXCEPT !.open = op] EXCEPT !.counts = co]
  BY ZenonT(60), <1>n, <1>s, SameCount DEF Recorders!FinalizeChildren
<1> HIDE DEF ch, op, co
<1>2. n = [open |-> op, counts |-> co, turn |-> b.turn, child |-> ch]
  BY Zenon, <1>1 DEF BookShaped
<1>3. n.open = op /\ n.counts = co /\ n.turn = b.turn /\ n.child = ch
  BY Zenon, <1>2
<1> QED
  BY ZenonT(60), <1>n, <1>s, <1>2, <1>3 DEF ch, op, co, BookFinalized

\* The records in a log of none or one.
LEMMA RecordsOf ==
  /\ Recorders!Records(<<>>) = {}
  /\ \A o : Recorders!Records(<<o>>) = {o} /\ <<o>> # <<>>
  /\ \A o : Append(<<>>, o) = <<o>>
  BY DEF Recorders!Records

\* n keeps the book of b: it finished the children is of t and no other.
BookUpTo(b, n, t, is) ==
  /\ BookInv(n) /\ n.turn = b.turn
  /\ n.open[t] \subseteq b.open[t] \ is
  /\ \A i \in Recorders!Items \ KidsIn(t) : n.child[i] = b.child[i]

\* Finalizing children of an open turn keeps the book, and touches that turn only.
LEMMA FinalizedBook ==
  ASSUME NEW b, BookInv(b), NEW t \in RecordedTurns, b.turn[t] = <<>>,
         NEW outcome, DOMAIN outcome \subseteq KidsIn(t)
  PROVE  BookUpTo(b, Recorders!FinalizeChildren(b, outcome), t, DOMAIN outcome)
<1>1. PICK n : n = Recorders!FinalizeChildren(b, outcome)
  BY Zenon
<1>2. PICK is : is = Recorders!Unfinalized(b, DOMAIN outcome)
  BY Zenon
<1> DEFINE G(u, c) == {i \in is : i[1] = u /\ Recorders!CounterFor(outcome[i]) = c}
<1>3. /\ n = [open |-> n.open, counts |-> n.counts, turn |-> n.turn, child |-> n.child]
      /\ n.turn = b.turn
      /\ n.child = [i \in Recorders!Items |-> IF i \in is THEN Append(b.child[i], outcome[i]) ELSE b.child[i]]
      /\ n.open = [u \in RecordedTurns |-> b.open[u] \ is]
      /\ n.counts = [u \in RecordedTurns |-> [c \in Recorders!Counters |-> b.counts[u][c] + Cardinality(G(u, c))]]
  <2>1. BookFinalized(b, n, is, outcome)
    BY ZenonT(60), <1>1, <1>2, FinalizeFacts DEF BookInv
  <2> QED
    BY Zenon, <2>1 DEF BookFinalized
<1>4. /\ is \subseteq KidsIn(t) /\ is \subseteq Recorders!Items
      /\ \A i \in is : b.child[i] = <<>> /\ i[1] = t
      /\ \A i \in DOMAIN outcome : i \in is \/ b.child[i] # <<>>
  BY Zenon, <1>2, KidsFacts DEF Recorders!Unfinalized, Recorders!ChildFinalized
<1>5. /\ \A i \in is : n.child[i] = <<outcome[i]>> /\ n.child[i] # <<>>
      /\ \A i \in Recorders!Items \ is : n.child[i] = b.child[i]
  <2>1. ASSUME NEW i \in is PROVE n.child[i] = Append(<<>>, outcome[i])
    BY Zenon, <1>3, <1>4
  <2>2. \A i \in Recorders!Items \ is : n.child[i] = b.child[i]
    BY Zenon, <1>3
  <2> QED
    BY ZenonT(60), <2>1, <2>2, RecordsOf
<1>6. \A u \in RecordedTurns : \A i \in KidsIn(u) : i \in Recorders!Items /\ (i \in is => u = t)
  BY Zenon, <1>4, KidsFacts
<1>7. \A u \in RecordedTurns : n.open[u] = b.open[u] \ is
  BY Zenon, <1>3
<1>8. \A u \in RecordedTurns, c \in Recorders!Counters :
        /\ IsFiniteSet(G(u, c)) /\ Cardinality(G(u, c)) \in Nat
        /\ u # t => Cardinality(G(u, c)) = 0
  <2> SUFFICES ASSUME NEW u \in RecordedTurns, NEW c \in Recorders!Counters
               PROVE  /\ IsFiniteSet(G(u, c)) /\ Cardinality(G(u, c)) \in Nat
                      /\ u # t => Cardinality(G(u, c)) = 0
    BY Zenon
  <2>1. IsFiniteSet(KidsIn(t)) /\ G(u, c) \subseteq KidsIn(t)
    BY ZenonT(60), <1>2, <1>4, KidsFacts
  <2>2. IsFiniteSet(G(u, c)) /\ Cardinality(G(u, c)) \in Nat
    BY ZenonT(60), <2>1, FS_Subset, FS_CardinalityType
  <2>3. u # t => G(u, c) = {}
    BY Zenon, <1>2, <1>4
  <2> QED
    BY ZenonT(60), <2>2, <2>3, FS_EmptySet
<1> HIDE DEF G
<1>9. BookShaped(n)
  <2>1. n.counts \in [RecordedTurns -> [Recorders!Counters -> Nat]]
    BY <1>3, <1>8 DEF BookInv, BookShaped
  <2>2. n.open \in [RecordedTurns -> SUBSET Recorders!Items]
    BY <1>3 DEF BookInv, BookShaped
  <2>3. n.child = [i \in Recorders!Items |-> n.child[i]]
    BY Zenon, <1>3
  <2> QED
    BY ZenonT(60), <1>3, <2>1, <2>2, <2>3 DEF BookInv, BookShaped
<1>10. BookLatched(n)
  <2>1. ASSUME NEW i \in Recorders!Items PROVE n.child[i] = <<>> \/ \E o : n.child[i] = <<o>>
    <3>1. CASE i \in is
      BY ZenonT(60), <1>5, <3>1
    <3>2. CASE i \notin is
      BY ZenonT(60), <1>5, <3>2 DEF BookInv, BookLatched
    <3> QED
      BY ZenonT(60), <3>1, <3>2
  <2>2. ASSUME NEW u \in RecordedTurns, NEW i \in n.open[u] PROVE i \in KidsIn(u) /\ n.child[i] = <<>>
    <3>1. i \in b.open[u] /\ i \notin is
      BY ZenonT(60), <1>7, <2>2
    <3>2. i \in KidsIn(u) /\ b.child[i] = <<>> /\ i \in Recorders!Items
      BY ZenonT(60), <1>6, <3>1 DEF BookInv, BookLatched
    <3> QED
      BY ZenonT(60), <1>5, <3>1, <3>2
  <2> QED
    BY ZenonT(60), <2>1, <2>2 DEF BookLatched
<1>11. BookCounts(n)
  <2> SUFFICES ASSUME NEW u \in RecordedTurns, NEW c \in Recorders!Counters
               PROVE  n.counts[u][c] = Cardinality(CountedFor(n, u, c))
    BY Zenon DEF BookCounts
  <2>1. n.counts[u][c] = Cardinality(CountedFor(b, u, c)) + Cardinality(G(u, c))
    <3>1. n.counts[u][c] = b.counts[u][c] + Cardinality(G(u, c))
      BY <1>3 DEF G
    <3> QED
      BY Zenon, <3>1 DEF BookInv, BookCounts
  <2>2. IsFiniteSet(CountedFor(b, u, c))
    BY Zenon, KidsFacts, FS_Subset DEF CountedFor
  <2>3. CountedFor(n, u, c) = CountedFor(b, u, c) \cup G(u, c) /\ CountedFor(b, u, c) \cap G(u, c) = {}
    <3>1. ASSUME NEW i \in is, i \in KidsIn(u)
          PROVE  /\ i \notin CountedFor(b, u, c)
                 /\ i \in CountedFor(n, u, c) <=> i \in G(u, c)
      <4>1. Recorders!Records(b.child[i]) = {} /\ Recorders!Records(n.child[i]) = {outcome[i]} /\ i[1] = u
        BY ZenonT(60), <1>4, <1>5, <1>6, <3>1, RecordsOf
      <4> QED
        BY ZenonT(60), <1>2, <3>1, <4>1 DEF CountedFor, G
    <3>2. ASSUME NEW i \in KidsIn(u), i \notin is
          PROVE  i \notin G(u, c) /\ (i \in CountedFor(n, u, c) <=> i \in CountedFor(b, u, c))
      BY ZenonT(60), <1>2, <1>5, <1>6, <3>2 DEF CountedFor, G
    <3>3. G(u, c) \subseteq KidsIn(u) /\ G(u, c) \subseteq is
      BY ZenonT(60), <1>2, <1>4 DEF G
    <3>4. CountedFor(n, u, c) \subseteq KidsIn(u) /\ CountedFor(b, u, c) \subseteq KidsIn(u)
      BY Zenon DEF CountedFor
    <3> QED
      BY Zenon, <3>1, <3>2, <3>3, <3>4
  <2>4. Cardinality(CountedFor(n, u, c)) = Cardinality(CountedFor(b, u, c)) + Cardinality(G(u, c)) - Cardinality({})
    <3>1. Cardinality(CountedFor(b, u, c) \cup G(u, c))
            = Cardinality(CountedFor(b, u, c)) + Cardinality(G(u, c)) - Cardinality(CountedFor(b, u, c) \cap G(u, c))
      BY ZenonT(60), <1>8, <2>2, FS_Union
    <3> QED
      BY ZenonT(60), <2>3, <3>1
  <2>5. Cardinality(CountedFor(b, u, c)) \in Nat /\ Cardinality({}) = 0 /\ Cardinality(G(u, c)) \in Nat
    BY ZenonT(60), <1>8, <2>2, FS_EmptySet, FS_CardinalityType
  <2> QED
    BY <2>1, <2>4, <2>5
<1>12. BookClosed(n)
  <2> SUFFICES ASSUME NEW u \in RecordedTurns, b.turn[u] # <<>>
               PROVE  n.open[u] = {} /\ n.counts[u] = b.counts[u]
    <3> SUFFICES ASSUME NEW u \in RecordedTurns, n.turn[u] # <<>>
                 PROVE  n.open[u] = {} /\ \E r : n.turn[u] = <<r>> /\ r.counts = n.counts[u]
      BY Zenon DEF BookClosed
    <3>1. b.turn[u] # <<>> /\ n.turn[u] = b.turn[u]
      BY Zenon, <1>3
    <3>2. PICK r : b.turn[u] = <<r>> /\ r.counts = b.counts[u]
      BY Zenon, <3>1 DEF BookInv, BookClosed
    <3> QED
      BY ZenonT(60), <3>1, <3>2
  <2>1. n.open[u] = {}
    BY Zenon, <1>7 DEF BookInv, BookClosed
  <2>2. \A c \in Recorders!Counters : b.counts[u][c] \in Nat /\ Cardinality(G(u, c)) = 0
    BY Zenon, <1>8 DEF BookInv, BookShaped
  <2>3. \A c \in Recorders!Counters : b.counts[u][c] + Cardinality(G(u, c)) = b.counts[u][c]
    BY <2>2
  <2>4. n.counts[u] = [c \in Recorders!Counters |-> b.counts[u][c]]
    BY <1>3, <2>3
  <2> QED
    BY ZenonT(60), <2>1, <2>4 DEF BookInv, BookShaped
<1>13. n.open[t] \subseteq b.open[t] \ DOMAIN outcome
  BY Zenon, <1>4, <1>7 DEF BookInv, BookLatched
<1>14. \A i \in Recorders!Items \ KidsIn(t) : n.child[i] = b.child[i]
  BY Zenon, <1>4, <1>5
<1> QED
  BY ZenonT(60), <1>1, <1>3, <1>9, <1>10, <1>11, <1>12, <1>13, <1>14 DEF BookInv, BookUpTo

\* The counters still count when neither they nor the children's records change.
LEMMA SameChildren ==
  ASSUME NEW b, BookCounts(b), NEW n, n.counts = b.counts, n.child = b.child
  PROVE  BookCounts(n)
<1>1. \A t, c : CountedFor(n, t, c) = CountedFor(b, t, c)
  BY Zenon DEF CountedFor
<1> QED
  BY ZenonT(60), <1>1 DEF BookCounts

\* Children made under an open turn keep the book.
LEMMA OpenedBook ==
  ASSUME NEW b, BookInv(b), NEW t \in RecordedTurns, b.turn[t] = <<>>,
         NEW is \in SUBSET KidsIn(t), \A i \in KidsIn(t) : b.child[i] = <<>>
  PROVE  LET n == Recorders!NewChildren(b, t, is) IN BookInv(n) /\ n.turn = b.turn /\ n.child = b.child
<1>1. PICK n : n = Recorders!NewChildren(b, t, is)
  BY Zenon
<1>2. is \in SUBSET Recorders!Items
  BY ZenonT(60), KidsFacts
<1>3. /\ BookShaped(n) /\ n.counts = b.counts /\ n.turn = b.turn /\ n.child = b.child
      /\ n.open[t] = b.open[t] \cup is
      /\ \A u \in RecordedTurns \ {t} : n.open[u] = b.open[u]
  <2>1. BookOpened(b, n, t, is)
    BY ZenonT(60), <1>1, <1>2, NewChildrenFacts DEF BookInv
  <2> QED
    BY ZenonT(60), <2>1 DEF BookOpened
<1>4. BookLatched(n)
  <2>1. ASSUME NEW u \in RecordedTurns, NEW i \in n.open[u] PROVE i \in KidsIn(u) /\ n.child[i] = <<>>
    BY ZenonT(60), <1>3, <2>1 DEF BookInv, BookLatched
  <2> QED
    BY <1>3, <2>1 DEF BookInv, BookLatched
<1>5. BookCounts(n)
  BY ZenonT(60), <1>3, SameChildren DEF BookInv
<1>6. BookClosed(n)
  <2> SUFFICES ASSUME NEW u \in RecordedTurns, n.turn[u] # <<>>
               PROVE  n.open[u] = {} /\ \E r : n.turn[u] = <<r>> /\ r.counts = n.counts[u]
    BY Zenon DEF BookClosed
  <2>1. b.turn[u] # <<>> /\ u # t
    BY Zenon, <1>3
  <2> QED
    BY ZenonT(60), <1>3, <2>1 DEF BookInv, BookClosed
<1> QED
  BY ZenonT(60), <1>1, <1>3, <1>4, <1>5, <1>6 DEF BookInv

\* n keeps the book of b and closes turn t only.
ClosedFor(b, n, t) ==
  /\ BookInv(n) /\ n.turn[t] # <<>>
  /\ \A u \in RecordedTurns \ {t} : n.turn[u] = b.turn[u]
  /\ \A i \in Recorders!Items \ KidsIn(t) : n.child[i] = b.child[i]

\* AppTurnRecorder.finalize: the sweep, then the record with the counters as they
\* are then.
LEMMA ClosedBook ==
  ASSUME NEW b, BookInv(b), NEW t \in RecordedTurns, b.turn[t] = <<>>, NEW o
  PROVE  ClosedFor(b, Recorders!FinalizeTurn(b, t, o), t)
<1> DEFINE f == [i \in b.open[t] |-> IF o = "cancelled" THEN "cancelled" ELSE "failed"]
<1>1. PICK m : m = Recorders!Sweep(b, t, o)
  BY Zenon
<1>2. DOMAIN f = b.open[t] /\ DOMAIN f \subseteq KidsIn(t)
  BY Zenon DEF BookInv, BookLatched
<1>3. m = Recorders!FinalizeChildren(b, f)
  BY Zenon, <1>1 DEF Recorders!Sweep
<1> HIDE DEF f
<1>4. /\ BookInv(m) /\ m.turn = b.turn /\ m.open[t] = {}
      /\ \A i \in Recorders!Items \ KidsIn(t) : m.child[i] = b.child[i]
  <2>1. BookUpTo(b, m, t, DOMAIN f)
    BY ZenonT(60), <1>2, <1>3, FinalizedBook
  <2> QED
    BY Zenon, <1>2, <2>1 DEF BookUpTo
<1>5. PICK r : /\ r.counts = m.counts[t]
               /\ Recorders!FinalizeTurn(b, t, o) = [m EXCEPT !.turn = [m.turn EXCEPT ![t] = Append(m.turn[t], r)]]
  <2> DEFINE out == IF o = "derive" THEN Recorders!Derive(m.counts[t]) ELSE o
             rec == [outcome |-> out, counts |-> m.counts[t]]
  <2>1. Recorders!FinalizeTurn(b, t, o) = [m EXCEPT !.turn = [m.turn EXCEPT ![t] = Append(m.turn[t], rec)]]
    BY Zenon, <1>1 DEF Recorders!FinalizeTurn, Recorders!TurnFinalized
  <2>2. rec.counts = m.counts[t]
    BY Zenon
  <2> QED
    BY Zenon, <2>1, <2>2
<1>6. Append(m.turn[t], r) = <<r>> /\ <<r>> # <<>>
  BY ZenonT(60), <1>4, RecordsOf
<1>7. PICK n : n = Recorders!FinalizeTurn(b, t, o)
  BY Zenon
<1>8. n = [open |-> m.open, counts |-> m.counts, turn |-> [m.turn EXCEPT ![t] = <<r>>], child |-> m.child]
  BY ZenonT(60), <1>4, <1>5, <1>6, <1>7 DEF BookInv, BookShaped
<1>9. n.open = m.open /\ n.counts = m.counts /\ n.child = m.child /\ n.turn = [m.turn EXCEPT ![t] = <<r>>]
  BY Zenon, <1>8
<1>10. /\ n.turn[t] = <<r>> /\ (\A u \in RecordedTurns \ {t} : n.turn[u] = b.turn[u])
       /\ n.turn = [u \in RecordedTurns |-> n.turn[u]]
  BY Zenon, <1>4, <1>9 DEF BookInv, BookShaped
<1>11. BookShaped(n) /\ BookLatched(n) /\ BookCounts(n)
  <2>1. BookCounts(n)
    BY ZenonT(60), <1>4, <1>9, SameChildren DEF BookInv
  <2>2. BookLatched(n)
    <3>1. BookInv(m) /\ BookLatched(m)
      BY Zenon, <1>4 DEF BookInv
    <3> QED
      BY Zenon, <1>9, <3>1 DEF BookLatched
  <2>3. BookShaped(n)
    BY ZenonT(60), <1>4, <1>8, <1>9, <1>10 DEF BookInv, BookShaped
  <2> QED
    BY ZenonT(60), <2>1, <2>2, <2>3
<1>12. BookClosed(n)
  <2> SUFFICES ASSUME NEW u \in RecordedTurns, n.turn[u] # <<>>
               PROVE  n.open[u] = {} /\ \E q : n.turn[u] = <<q>> /\ q.counts = n.counts[u]
    BY Zenon DEF BookClosed
  <2>1. CASE u = t
    BY ZenonT(60), <1>4, <1>5, <1>9, <1>10, <2>1
  <2>2. CASE u # t
    <3>1. m.turn[u] # <<>> /\ m.turn[u] = n.turn[u]
      BY ZenonT(60), <1>4, <1>10, <2>2
    <3>2. m.open[u] = {} /\ \E q : m.turn[u] = <<q>> /\ q.counts = m.counts[u]
      BY Zenon, <1>4, <3>1 DEF BookInv, BookClosed
    <3> QED
      BY ZenonT(60), <1>9, <3>1, <3>2
  <2> QED
    BY Zenon, <2>1, <2>2
<1> QED
  BY ZenonT(60), <1>4, <1>6, <1>7, <1>9, <1>10, <1>11, <1>12 DEF BookInv, ClosedFor

\* What a handler reads of the book: a turn has its record exactly when its handler
\* is over, and none of its children has one while it is being routed.
InPlace(b, p) ==
  /\ p = [t \in RecordedTurns |-> p[t]]
  /\ \A t \in RecordedTurns : p[t] = "over" <=> b.turn[t] # <<>>
  /\ \A t \in RecordedTurns : p[t] \in {"new", "routing"} => \A i \in KidsIn(t) : b.child[i] = <<>>

\* The inductive invariant.
RecordersInv == BookInv(book) /\ InPlace(book, place)

\* b is the book within a step of turn t.
MidStep(b, t) ==
  /\ BookInv(b) /\ b.turn = book.turn
  /\ \A i \in Recorders!Items \ KidsIn(t) : b.child[i] = book.child[i]

\* Children are made while a turn is routed ...
LEMMA MidOpened ==
  ASSUME RecordersInv, NEW t \in RecordedTurns, place[t] = "routing", NEW is \in SUBSET KidsIn(t)
  PROVE  MidStep(Recorders!NewChildren(book, t, is), t)
<1>1. book.turn[t] = <<>> /\ \A i \in KidsIn(t) : book.child[i] = <<>>
  <2>1. "routing" # "over"
    BY Zenon
  <2> QED
    BY Zenon, <2>1 DEF RecordersInv, InPlace
<1> QED
  BY Zenon, <1>1, OpenedBook DEF RecordersInv, MidStep

\* ... and finalized until it is over.
LEMMA MidFinalized ==
  ASSUME NEW t \in RecordedTurns, place[t] # "over", RecordersInv,
         NEW b, MidStep(b, t), NEW f, DOMAIN f \subseteq KidsIn(t)
  PROVE  MidStep(Recorders!FinalizeChildren(b, f), t)
<1>1. b.turn[t] = <<>> /\ BookInv(b)
  BY Zenon DEF RecordersInv, InPlace, MidStep
<1>2. BookUpTo(b, Recorders!FinalizeChildren(b, f), t, DOMAIN f)
  BY Zenon, <1>1, FinalizedBook
<1> QED
  BY Zenon, <1>2 DEF MidStep, BookUpTo

\* The same for one child.
LEMMA MidFinalizedOne ==
  ASSUME NEW t \in RecordedTurns, place[t] # "over", RecordersInv, NEW b, MidStep(b, t), NEW o
  PROVE  MidStep(Recorders!FinalizeChild(b, Recorders!Sole(t), o), t)
<1> DEFINE f == [j \in {Recorders!Sole(t)} |-> o]
<1>1. DOMAIN f \subseteq KidsIn(t)
  BY Zenon, KidsFacts
<1>2. Recorders!FinalizeChild(b, Recorders!Sole(t), o) = Recorders!FinalizeChildren(b, f)
  BY Zenon DEF Recorders!FinalizeChild
<1> HIDE DEF f
<1> QED
  BY ZenonT(60), <1>1, <1>2, MidFinalized

\* A handler that goes on, with the book of a step of its turn.
LEMMA GoesOn ==
  ASSUME RecordersInv, NEW t \in RecordedTurns, place[t] # "over", NEW w, w # "over",
         w \in {"new", "routing"} => book' = book /\ place[t] \in {"new", "routing"},
         place' = [place EXCEPT ![t] = w], MidStep(book', t)
  PROVE  RecordersInv'
<1>1. \A u \in RecordedTurns : book'.turn[u] = book.turn[u]
  BY Zenon DEF MidStep
<1>2. place'[t] = w /\ \A u \in RecordedTurns \ {t} : place'[u] = place[u]
  BY Zenon DEF RecordersInv, InPlace
<1>3. \A u \in RecordedTurns \ {t} : \A i \in KidsIn(u) : book'.child[i] = book.child[i]
  <2>1. \A u \in RecordedTurns \ {t} : \A i \in KidsIn(u) : i \in Recorders!Items /\ i \notin KidsIn(t)
    BY Zenon, KidsFacts
  <2> QED
    BY Zenon, <2>1 DEF MidStep
<1>4. place' = [u \in RecordedTurns |-> place'[u]]
  BY Zenon DEF RecordersInv, InPlace
<1>5. \A u \in RecordedTurns : place'[u] = "over" <=> book'.turn[u] # <<>>
  BY Zenon, <1>1, <1>2 DEF RecordersInv, InPlace
<1>6. \A u \in RecordedTurns : place'[u] \in {"new", "routing"} => \A i \in KidsIn(u) : book'.child[i] = <<>>
  BY Zenon, <1>2, <1>3 DEF RecordersInv, InPlace
<1>7. InPlace(book, place)'
  BY ZenonT(60), <1>4, <1>5, <1>6 DEF InPlace
<1> QED
  BY Zenon, <1>7 DEF RecordersInv, MidStep

\* A handler that returns or raises finalizes its turn.
LEMMA EndsStep ==
  ASSUME RecordersInv, NEW t \in RecordedTurns, place[t] # "over", NEW b, MidStep(b, t), NEW o,
         Recorders!Ends(t, Recorders!FinalizeTurn(b, t, o))
  PROVE  RecordersInv'
<1>1. place' = [place EXCEPT ![t] = "over"] /\ book' = Recorders!FinalizeTurn(b, t, o)
  BY Zenon DEF Recorders!Ends, Recorders!Goto
<1>2. b.turn[t] = <<>> /\ BookInv(b) /\ b.turn = book.turn
  BY Zenon DEF RecordersInv, InPlace, MidStep
<1>3. /\ BookInv(book') /\ book'.turn[t] # <<>>
      /\ \A u \in RecordedTurns \ {t} : book'.turn[u] = b.turn[u]
      /\ \A i \in Recorders!Items \ KidsIn(t) : book'.child[i] = b.child[i]
  <2>1. ClosedFor(b, book', t)
    BY ZenonT(60), <1>1, <1>2, ClosedBook
  <2> QED
    BY Zenon, <2>1 DEF ClosedFor
<1>4. place'[t] = "over" /\ \A u \in RecordedTurns \ {t} : place'[u] = place[u]
  BY Zenon, <1>1 DEF RecordersInv, InPlace
<1>5. \A u \in RecordedTurns \ {t} : \A i \in KidsIn(u) : book'.child[i] = book.child[i]
  <2>1. \A u \in RecordedTurns \ {t} : \A i \in KidsIn(u) : i \in Recorders!Items /\ i \notin KidsIn(t)
    BY Zenon, KidsFacts
  <2> QED
    BY Zenon, <1>3, <2>1 DEF MidStep
<1>6. place' = [u \in RecordedTurns |-> place'[u]]
  BY Zenon, <1>1 DEF RecordersInv, InPlace
<1>7. \A u \in RecordedTurns : place'[u] = "over" <=> book'.turn[u] # <<>>
  BY ZenonT(60), <1>2, <1>3, <1>4 DEF RecordersInv, InPlace
<1>8. ~("over" \in {"new", "routing"})
  BY Zenon
<1>9. \A u \in RecordedTurns : place'[u] \in {"new", "routing"} => \A i \in KidsIn(u) : book'.child[i] = <<>>
  BY Zenon, <1>4, <1>5, <1>8 DEF RecordersInv, InPlace
<1>10. InPlace(book, place)'
  BY ZenonT(60), <1>6, <1>7, <1>9 DEF InPlace
<1> QED
  BY Zenon, <1>3, <1>10 DEF RecordersInv

\* The book is its own book within a step.
LEMMA MidNow ==
  ASSUME RecordersInv, NEW t PROVE MidStep(book, t)
  BY Zenon DEF RecordersInv, MidStep

\* The places of a handler are different.
LEMMA Whereabouts ==
  /\ \A w \in {"new", "routing", "answering", "searching", "submitted", "speaking"} : w # "over"
  /\ \A w \in {"answering", "searching", "submitted", "speaking"} : w \notin {"new", "routing"}
  BY Zenon

\* The turn goes on and the book is left alone.
LEMMA QuietStep ==
  ASSUME RecordersInv, NEW t \in RecordedTurns,
         \/ Recorders!Accept(t) \/ Recorders!RetentionRejected(t)
         \/ \E o : Recorders!Answer(t, o) \/ Recorders!Searched(t, o)
  PROVE  RecordersInv'
<1>1. PICK w : /\ place' = [place EXCEPT ![t] = w] /\ book' = book /\ place[t] # "over"
               /\ \/ w = "routing" /\ place[t] = "new"
                  \/ w \in {"answering", "speaking"}
  BY Zenon, Whereabouts DEF Recorders!Accept, Recorders!RetentionRejected, Recorders!Answer, Recorders!Searched,
         Recorders!Goto
<1>2. MidStep(book', t)
  BY Zenon, <1>1, MidNow
<1>3. w # "over" /\ (w \in {"new", "routing"} => book' = book /\ place[t] \in {"new", "routing"})
  BY Zenon, <1>1, Whereabouts
<1> QED
  BY ZenonT(60), <1>1, <1>2, <1>3, GoesOn

\* The turn ends with the book it has.
LEMMA PlainEnd ==
  ASSUME RecordersInv, NEW t \in RecordedTurns,
         \/ Recorders!AnswerNothing(t) \/ Recorders!Answered(t) \/ Recorders!Raises(t)
         \/ Recorders!TurnCancelled(t)
  PROVE  RecordersInv'
<1>1. place[t] # "over"
  BY Zenon, Whereabouts DEF Recorders!AnswerNothing, Recorders!Answered, Recorders!Raises, Recorders!TurnCancelled
<1>2. PICK o : Recorders!Ends(t, Recorders!FinalizeTurn(book, t, o))
  BY Zenon DEF Recorders!AnswerNothing, Recorders!Answered, Recorders!Raises, Recorders!TurnCancelled
<1> QED
  BY ZenonT(60), <1>1, <1>2, MidNow, EndsStep

\* A delegation: with no worker the turn ends, else its search starts or is refused.
LEMMA DelegationStep ==
  ASSUME RecordersInv, NEW t \in RecordedTurns,
         Recorders!Missing(t) \/ \E started : Recorders!Delegate(t, started)
  PROVE  RecordersInv'
<1>1. PICK b : b = Recorders!NewChildren(book, t, {Recorders!Sole(t)})
  BY Zenon
<1>2. place[t] = "routing" /\ place[t] # "over"
  BY Zenon, Whereabouts DEF Recorders!Missing, Recorders!Delegate
<1>3. MidStep(b, t)
  <2>1. {Recorders!Sole(t)} \in SUBSET KidsIn(t)
    BY Zenon, KidsFacts
  <2> QED
    BY ZenonT(60), <1>1, <1>2, <2>1, MidOpened
<1>4. CASE Recorders!Missing(t)
  <2>1. Recorders!Ends(t, Recorders!FinalizeTurn(Recorders!FinalizeChild(b, Recorders!Sole(t), "missing"), t, "failed"))
    BY Zenon, <1>1, <1>4 DEF Recorders!Missing
  <2> QED
    BY ZenonT(60), <1>2, <1>3, <2>1, MidFinalizedOne, EndsStep
<1>5. CASE \E started : Recorders!Delegate(t, started)
  <2>1. PICK w : /\ w \in {"searching", "speaking"} /\ book' = b
                 /\ place' = [place EXCEPT ![t] = w]
    BY Zenon, <1>1, <1>5 DEF Recorders!Delegate, Recorders!Goto
  <2>2. w # "over" /\ w \notin {"new", "routing"}
    BY Zenon, <2>1, Whereabouts
  <2> QED
    BY ZenonT(60), <1>2, <1>3, <2>1, <2>2, GoesOn
<1> QED
  BY Zenon, <1>4, <1>5

\* The foreground wait ends with the task retained, or the results were spoken.
LEMMA EpilogueStep ==
  ASSUME RecordersInv, NEW t \in RecordedTurns,
         Recorders!Spoken(t) \/ \E c : Recorders!Retained(t, c)
  PROVE  RecordersInv'
<1>1. place[t] # "over"
  BY Zenon, Whereabouts DEF Recorders!Spoken, Recorders!Retained
<1>2. CASE \E b, o : MidStep(b, t) /\ Recorders!Ends(t, Recorders!FinalizeTurn(b, t, o))
  BY ZenonT(60), <1>1, <1>2, EndsStep
<1>3. \A o : MidStep(Recorders!FinalizeChild(book, Recorders!Sole(t), o), t)
  BY ZenonT(60), <1>1, MidNow, MidFinalizedOne
<1>4. CASE Recorders!Spoken(t)
  <2>1. PICK b : /\ b = (IF label[Recorders!Sole(t)] = "none" THEN book
                         ELSE Recorders!FinalizeChild(book, Recorders!Sole(t), label[Recorders!Sole(t)]))
                 /\ Recorders!Ends(t, Recorders!FinalizeTurn(b, t, "derive"))
    BY Zenon, <1>4 DEF Recorders!Spoken
  <2>2. MidStep(b, t)
    BY ZenonT(60), <1>3, <2>1, MidNow
  <2> QED
    BY ZenonT(60), <1>2, <2>1, <2>2
<1>5. ASSUME NEW c, Recorders!Retained(t, c) PROVE RecordersInv'
  <2>1. CASE c
    BY ZenonT(60), <1>2, <1>3, <1>5, <2>1 DEF Recorders!Retained
  <2>2. CASE ~c
    <3>1. place' = [place EXCEPT ![t] = "speaking"] /\ book' = book
      BY Zenon, <1>5, <2>2 DEF Recorders!Retained, Recorders!Goto
    <3> QED
      BY ZenonT(60), <1>1, <3>1, MidNow, Whereabouts, GoesOn
  <2> QED
    BY ZenonT(60), <2>1, <2>2
<1> QED
  BY Zenon, <1>4, <1>5

\* A fan-out: its children are made and some settled, then the rest are recorded.
LEMMA FanOutStep ==
  ASSUME RecordersInv, NEW t \in RecordedTurns,
         \/ \E settled, refused : Recorders!Submit(t, settled, refused)
         \/ \E silent : Recorders!Submitted(t, silent)
  PROVE  RecordersInv'
<1>1. place[t] # "over"
  BY Zenon, Whereabouts DEF Recorders!Submit, Recorders!Submitted
<1>2. ASSUME NEW settled, NEW refused, Recorders!Submit(t, settled, refused) PROVE RecordersInv'
  <2>1. PICK is \in SUBSET KidsIn(t) :
          DOMAIN settled \subseteq is
          /\ book' = Recorders!FinalizeChildren(Recorders!NewChildren(book, t, is), settled)
    BY Zenon, <1>2 DEF Recorders!Submit, KidsIn
  <2>2. place[t] = "routing" /\ place' = [place EXCEPT ![t] = "submitted"]
    BY Zenon, <1>2 DEF Recorders!Submit, Recorders!Goto
  <2>3. MidStep(Recorders!NewChildren(book, t, is), t) /\ DOMAIN settled \subseteq KidsIn(t)
    BY ZenonT(60), <2>1, <2>2, MidOpened
  <2>4. MidStep(book', t)
    BY ZenonT(60), <1>1, <2>1, <2>3, MidFinalized
  <2> QED
    BY ZenonT(60), <1>1, <2>2, <2>4, Whereabouts, GoesOn
<1>3. ASSUME NEW silent, Recorders!Submitted(t, silent) PROVE RecordersInv'
  <2>1. PICK fate : /\ DOMAIN fate \subseteq KidsIn(t)
                    /\ LET b == Recorders!FinalizeChildren(book, fate)
                       IN IF silent THEN Recorders!Ends(t, Recorders!FinalizeTurn(b, t, "derive"))
                          ELSE place' = [place EXCEPT ![t] = "speaking"] /\ book' = b
    BY Zenon, <1>3 DEF Recorders!Submitted, Recorders!Goto, KidsIn
  <2>2. MidStep(Recorders!FinalizeChildren(book, fate), t)
    BY ZenonT(60), <1>1, <2>1, MidNow, MidFinalized
  <2>3. CASE silent
    BY ZenonT(60), <1>1, <2>1, <2>2, <2>3, EndsStep
  <2>4. CASE ~silent
    BY ZenonT(60), <1>1, <2>1, <2>2, <2>4, Whereabouts, GoesOn
  <2> QED
    BY Zenon, <2>3, <2>4
<1> QED
  BY Zenon, <1>2, <1>3

\* Every step of the recorders.
LEMMA RecordersStep ==
  ASSUME RecordersInv, Recorders!Next PROVE RecordersInv'
<1>1. ASSUME NEW t \in RecordedTurns, Recorders!TurnStep(t) \/ Recorders!TurnCancelled(t) PROVE RecordersInv'
  BY ZenonT(60), <1>1, QuietStep, PlainEnd, DelegationStep, EpilogueStep, FanOutStep DEF Recorders!TurnStep
<1>2. CASE UNCHANGED <<book, place>>
  BY Zenon, <1>2 DEF RecordersInv
<1>3. ASSUME NEW i, Recorders!ItemStep(i) PROVE RecordersInv'
  BY ZenonT(60), <1>2, <1>3 DEF Recorders!ItemStep, Recorders!CancelItem, Recorders!TaskEnds,
       Recorders!LateCallback, Recorders!handler
<1>4. CASE Recorders!HostCloses \/ Recorders!HostDrains \/ Recorders!HostDown
  BY Zenon, <1>2, <1>4 DEF Recorders!HostCloses, Recorders!HostDrains, Recorders!HostDown, Recorders!handler
<1> QED
  BY ZenonT(60), <1>1, <1>3, <1>4 DEF Recorders!Next

\* Nothing is recorded when the host starts.
LEMMA RecordersInit == Recorders!Init => RecordersInv
<1> SUFFICES ASSUME Recorders!Init PROVE RecordersInv
  BY Zenon
<1>1. /\ book = [open |-> [t \in RecordedTurns |-> {}],
                 counts |-> [t \in RecordedTurns |-> [c \in Recorders!Counters |-> 0]],
                 turn |-> [t \in RecordedTurns |-> <<>>],
                 child |-> [i \in Recorders!Items |-> <<>>]]
      /\ place = [t \in RecordedTurns |-> "new"]
  BY Zenon DEF Recorders!Init
<1>2. /\ book.open = [t \in RecordedTurns |-> {}] /\ book.turn = [t \in RecordedTurns |-> <<>>]
      /\ book.counts = [t \in RecordedTurns |-> [c \in Recorders!Counters |-> 0]]
      /\ book.child = [i \in Recorders!Items |-> <<>>]
  BY Zenon, <1>1
<1>3. BookShaped(book)
  <2>1. book.counts \in [RecordedTurns -> [Recorders!Counters -> Nat]]
    BY <1>2
  <2> QED
    BY ZenonT(60), <1>1, <1>2, <2>1 DEF BookShaped
<1>4. BookLatched(book) /\ BookClosed(book)
  BY Zenon, <1>2 DEF BookLatched, BookClosed
<1>5. BookCounts(book)
  <2>1. ASSUME NEW t \in RecordedTurns, NEW c \in Recorders!Counters
        PROVE  book.counts[t][c] = Cardinality(CountedFor(book, t, c))
    <3>1. CountedFor(book, t, c) = {}
      BY Zenon, <1>2, KidsFacts, RecordsOf DEF CountedFor
    <3>2. book.counts[t][c] = 0
      BY <1>2
    <3> QED
      BY Zenon, <3>1, <3>2, FS_EmptySet
  <2> QED
    BY Zenon, <2>1 DEF BookCounts
<1>6. InPlace(book, place)
  <2>1. "new" # "over"
    BY Zenon
  <2> QED
    BY Zenon, <1>1, <1>2, <2>1, KidsFacts DEF InPlace
<1> QED
  BY ZenonT(60), <1>3, <1>4, <1>5, <1>6 DEF RecordersInv, BookInv

\* The invariant says what TurnAddsUp says.
LEMMA RecordersAddUp == RecordersInv => TurnAddsUp
<1> SUFFICES ASSUME RecordersInv PROVE Recorders!TurnAddsUp
  BY Zenon DEF TurnAddsUp
<1>0. Len(<<>>) = 0 /\ \A r : Len(<<r>>) = 1
  BY Zenon
<1>1. ASSUME NEW t \in RecordedTurns
      PROVE  /\ Len(book.turn[t]) = (IF Recorders!Over(t) THEN 1 ELSE 0)
             /\ Recorders!Over(t) => book.open[t] = {}
  <2>1. CASE place[t] = "over"
    <3>1. book.open[t] = {} /\ \E r : book.turn[t] = <<r>>
      BY Zenon, <2>1 DEF RecordersInv, InPlace, BookInv, BookClosed
    <3> QED
      BY ZenonT(60), <1>0, <2>1, <3>1 DEF Recorders!Over
  <2>2. CASE place[t] # "over"
    <3>1. book.turn[t] = <<>>
      BY Zenon, <2>2 DEF RecordersInv, InPlace
    <3>2. Len(book.turn[t]) = 0
      BY Zenon, <1>0, <3>1
    <3> QED
      BY Zenon, <2>2, <3>2 DEF Recorders!Over
  <2> QED
    BY Zenon, <2>1, <2>2
<1>2. ASSUME NEW i \in Recorders!Items PROVE Len(book.child[i]) <= 1
  <2>1. PICK n : n = Len(book.child[i])
    BY Zenon
  <2>2. n = 0 \/ n = 1
    BY Zenon, <1>0, <2>1 DEF RecordersInv, BookInv, BookLatched
  <2>3. n <= 1
    BY <2>2
  <2> QED
    BY Zenon, <2>1, <2>3
<1>3. ASSUME NEW t \in RecordedTurns, NEW r \in Recorders!Records(book.turn[t]), NEW c \in Recorders!Counters
      PROVE  r.counts[c] = Recorders!Cardinality({i \in Recorders!KidsOf(t) :
               \E o \in Recorders!Records(book.child[i]) : Recorders!CounterFor(o) = c})
  <2>1. book.turn[t] # <<>>
    BY Zenon, <1>3, RecordsOf
  <2>2. PICK q : book.turn[t] = <<q>> /\ q.counts = book.counts[t]
    BY Zenon, <2>1 DEF RecordersInv, BookInv, BookClosed
  <2>3. r = q
    BY ZenonT(60), <1>3, <2>2, RecordsOf
  <2>4. book.counts[t][c] = Cardinality(CountedFor(book, t, c))
    BY Zenon DEF RecordersInv, BookInv, BookCounts
  <2> QED
    BY ZenonT(60), <2>2, <2>3, <2>4, SameCount DEF CountedFor, KidsIn
<1> QED
  BY Zenon, <1>1, <1>2, <1>3 DEF Recorders!TurnAddsUp

\* TurnAddsUp, for any turns of any width: a turn that has left its handler has
\* exactly one record, each of its work items at most one, and the counters of the
\* first are the numbers of the second (AppTurnRecorder.finalize, _record_child).
THEOREM TurnAddsUpAlways == TurnsSpec => []TurnAddsUp
<1>1. TurnsInit => RecordersInv
  BY Zenon, RecordersInit DEF TurnsInit
<1>2. RecordersInv /\ [TurnsNext]_<<part, vars, dialogueVars, recorderVars>> => RecordersInv'
  <2> SUFFICES ASSUME RecordersInv, [TurnsNext]_<<part, vars, dialogueVars, recorderVars>> PROVE RecordersInv'
    BY Zenon
  <2>1. CASE Recorders!Next
    BY Zenon, <2>1, RecordersStep
  <2>2. CASE UNCHANGED recorderVars
    BY Zenon, <2>2 DEF RecordersInv, recorderVars
  <2> QED
    BY Zenon, <2>1, <2>2 DEF TurnsNext
<1> QED
  BY <1>1, <1>2, RecordersAddUp, PTL DEF TurnsSpec
==============================================================================
