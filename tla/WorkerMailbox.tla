---------------------------- MODULE WorkerMailbox ----------------------------
(***************************************************************************)
(* The order in which one context worker runs its work items.  Two queues  *)
(* are in line: the coordinator's _tails (work_item_coordinator.py, one()) *)
(* and the worker's own mailbox (workers/base.py, submit).  A work item of *)
(* a compound or a continued turn passes both; the search of an ordinary   *)
(* turn goes straight to the mailbox.                                      *)
(*                                                                         *)
(* asyncio runs the callbacks it was given in the order it was given them. *)
(* ready is that queue: the first step of every new task and every wake-up *)
(* is an entry, and Step executes the head.  What comes from outside (a    *)
(* turn, a spoken cancel, the provider's answer) may come between any two. *)
(***************************************************************************)
EXTENDS Naturals, Sequences, Functions

CONSTANTS Items,      \* the work items of one worker
          Direct,     \* those of ordinary turns: search() without the coordinator
          NoItem

RoutesAssumption == Direct \subseteq Items /\ NoItem \notin Items

VARIABLES
    stage,      \* where an item is: new, created, tail, provider, entered,
                \* queued, running, ran (the mailbox task is over) or done
    ended,      \* how its mailbox task or the item ended
    ready,      \* the event loop's queue of <<callback, item>>
    tail,       \* the coordinator's _tails[worker_id]
    waitsFor,   \* one(): the previous provider task it shields
    mailTail,   \* ContextWorker._tail
    previous,   \* submit(): the mailbox task before an item's own
    cancelled,  \* items whose task has a cancellation yet to be thrown
    asked,      \* history: items somebody cancelled
    accepted,   \* history: items in the order they were accepted
    entries,    \* history: items in the order they entered the mailbox
    starts      \* history: items in the order their operation started

state == <<stage, ended, ready, tail, waitsFor, mailTail, previous, cancelled>>
vars == <<state, asked, accepted, entries, starts>>

Stages == {"new", "created", "tail", "provider", "entered", "queued", "running",
           "ran", "done"}
Ends == {"open", "completed", "failed", "cancelled"}

Init ==
    /\ stage = [i \in Items |-> "new"]
    /\ ended = [i \in Items |-> "open"]
    /\ ready = <<>>
    /\ tail = NoItem
    /\ waitsFor = [i \in Items |-> NoItem]
    /\ mailTail = NoItem
    /\ previous = [i \in Items |-> NoItem]
    /\ cancelled = {}
    /\ asked = {}
    /\ accepted = <<>>
    /\ entries = <<>>
    /\ starts = <<>>

-----------------------------------------------------------------------------
(* Helpers *)

Put(s, i) == stage' = [stage EXCEPT ![i] = s]
Queue(calls) == ready' = Tail(ready) \o calls
Wakeups(kind, S) == [k \in 1..Len(S) |-> <<kind, S[k]>>]

\* The members of a sequence that are in T, in its order.
Among(S, T) ==
    LET among[n \in 0..Len(S)] ==
          IF n = 0 THEN <<>>
          ELSE IF S[n] \in T THEN Append(among[n - 1], S[n]) ELSE among[n - 1]
    IN among[Len(S)]

\* Whoever waits for the mailbox task of i: the one behind it, if there is one.
Behind(i) == Among(entries, {j \in Items : previous[j] = i /\ stage[j] = "queued"})

\* Whoever shields the provider task of i in one(), in the order they came.
Shielding(i) == Among(accepted, {j \in Items : waitsFor[j] = i /\ stage[j] = "tail"})

\* The mailbox task of i is over: its caller wakes first, then the one behind it.
MailboxEnds(i, how) ==
    /\ stage' = [stage EXCEPT ![i] = "ran"]
    /\ ended' = [ended EXCEPT ![i] = how]

AfterMailbox(i) == <<<<"provider", i>>>> \o Wakeups("mail", Behind(i))

\* The provider task of a coordinator item is over (whatever its outcome): one()
\* resumes, and the shields of those waiting in _tails are told.
ProviderOver(i) == <<<<"finally", i>>>> \o Wakeups("shield", Shielding(i))

-----------------------------------------------------------------------------
(* From outside the loop *)

\* start_task creates the item's task: one() or search().
Accept(i) ==
    /\ stage[i] = "new"
    /\ Put("created", i)
    /\ ready' = Append(ready, <<"first", i>>)
    /\ accepted' = Append(accepted, i)
    /\ UNCHANGED <<ended, tail, waitsFor, mailTail, previous, cancelled, asked, entries, starts>>

\* execute(): the provider answered, failed or ran into provider_timeout_seconds.
ProviderAnswers(i) ==
    /\ stage[i] = "running"
    /\ \E how \in {"completed", "failed"} : MailboxEnds(i, how)
    /\ ready' = ready \o AfterMailbox(i)
    /\ UNCHANGED <<tail, waitsFor, mailTail, previous, cancelled, asked, accepted, entries, starts>>

\* run() awaits the previous task itself, not a shield of it.
Awaits(i) == stage[i] = "queued" /\ stage[previous[i]] \in {"entered", "queued", "running"}

\* The item whose operation a cancellation of i reaches, following the chain of
\* awaited tasks, which is no longer than the mailbox.
Reached(i) ==
    LET reach[n \in 0..Len(entries)] ==
          [j \in Items |-> IF n > 0 /\ Awaits(j) THEN reach[n - 1][previous[j]] ELSE j]
    IN reach[Len(entries)][i]

\* task.cancel() on an accepted item (coordinator.cancel, cancel_selected).  A task
\* that has not run, or is about to be resumed, gets the exception at its next
\* step; a running operation ends at once.
Cancel(i) ==
    /\ stage[i] \notin {"new", "done"}
    /\ i \notin asked
    /\ asked' = asked \cup {i}
    /\ LET j == Reached(i)
       IN  \/ /\ stage[j] = "running"
              /\ MailboxEnds(j, "cancelled")
              /\ ready' = ready \o AfterMailbox(j)
              /\ UNCHANGED cancelled
           \/ /\ stage[j] = "tail"
              /\ cancelled' = cancelled \cup {j}
              /\ ready' = IF <<"tail", j>> \in Range(ready)
                          THEN ready ELSE Append(ready, <<"tail", j>>)
              /\ UNCHANGED <<stage, ended>>
           \/ /\ stage[j] \notin {"running", "tail"}
              /\ cancelled' = cancelled \cup {j}
              /\ UNCHANGED <<stage, ended, ready>>
    /\ UNCHANGED <<tail, waitsFor, mailTail, previous, accepted, entries, starts>>

-----------------------------------------------------------------------------
(* The callbacks of the loop *)

\* Slip: the mailbox remembers a submission only once it has started to run.
EnterWithoutTail(i) ==
    /\ previous' = [previous EXCEPT ![i] = mailTail]
    /\ mailTail' = IF mailTail = NoItem THEN i ELSE mailTail
    /\ entries' = Append(entries, i)
    /\ Put("entered", i)
    /\ Queue(<<<<"run", i>>>>)

\* submit(): the new mailbox task remembers the old tail and becomes the tail.
EnterMailbox(i) ==
    /\ previous' = [previous EXCEPT ![i] = mailTail]
    /\ mailTail' = i
    /\ entries' = Append(entries, i)
    /\ Put("entered", i)
    /\ Queue(<<<<"run", i>>>>)

\* one(): the provider task is created and becomes the tail of its worker.
StartProvider(i) ==
    /\ Put("provider", i)
    /\ tail' = i
    /\ Queue(<<<<"search", i>>>>)

\* A task cancelled before its first step.
EndUnrun(i) ==
    /\ Put("done", i)
    /\ ended' = [ended EXCEPT ![i] = "cancelled"]
    /\ cancelled' = cancelled \ {i}

\* Nothing to shield in one(): there is no tail, or its provider task is over.
TailFree == tail # NoItem => <<"finally", tail>> \in Range(ready)

\* The first step of the item's task.
First(i) ==
    \/ /\ i \in cancelled
       /\ EndUnrun(i)
       /\ Queue(<<>>)
       /\ UNCHANGED <<tail, waitsFor, mailTail, previous, entries, starts>>
    \/ /\ i \notin cancelled /\ i \in Direct
       /\ \/ EnterMailbox(i) /\ UNCHANGED ended
          \/ /\ Put("done", i)                 \* WorkerDeclined or WorkerClarify
             /\ ended' = [ended EXCEPT ![i] = "failed"]
             /\ Queue(<<>>)
             /\ UNCHANGED <<mailTail, previous, entries>>
       /\ UNCHANGED <<tail, waitsFor, cancelled, starts>>
    \/ /\ i \notin cancelled /\ i \notin Direct
       /\ \/ /\ TailFree
             /\ StartProvider(i)
             /\ UNCHANGED waitsFor
          \/ /\ ~TailFree
             /\ Put("tail", i)
             /\ waitsFor' = [waitsFor EXCEPT ![i] = tail]
             /\ Queue(<<>>)
             /\ UNCHANGED tail
       /\ UNCHANGED <<ended, mailTail, previous, cancelled, entries, starts>>

\* The shield of the previous provider task passes its outcome on.
Shield(i) ==
    /\ Queue(IF <<"tail", i>> \in Range(ready) \/ stage[i] # "tail"
             THEN <<>> ELSE <<<<"tail", i>>>>)
    /\ UNCHANGED <<stage, ended, tail, waitsFor, mailTail, previous, cancelled, entries, starts>>

\* one() resumes from its shield: cancelled itself, or its turn has come.
TailWakes(i) ==
    \/ /\ i \in cancelled
       /\ EndUnrun(i)
       /\ Queue(<<>>)
       /\ UNCHANGED <<tail, waitsFor, mailTail, previous, entries, starts>>
    \/ /\ i \notin cancelled
       /\ StartProvider(i)
       /\ UNCHANGED <<ended, waitsFor, mailTail, previous, cancelled, entries, starts>>

\* The provider task's first step: search() up to the mailbox.
Search(i) ==
    \/ /\ i \notin cancelled
       /\ EnterMailbox(i)
       /\ UNCHANGED <<ended, cancelled>>
    \/ /\ ended' = [ended EXCEPT ![i] = IF i \in cancelled THEN "cancelled" ELSE "failed"]
       /\ cancelled' = cancelled \ {i}
       /\ Put("ran", i)
       /\ Queue(ProviderOver(i))
       /\ UNCHANGED <<mailTail, previous, entries>>

Begin(i) ==
    /\ Put("running", i)
    /\ starts' = Append(starts, i)
    /\ Queue(<<>>)

\* Nothing to await: there is no previous task, or it is over.
MailboxFree(i) == previous[i] # NoItem => stage[previous[i]] \in {"ran", "done"}

\* run(), first step: cancelled, no one before it, or it waits.
Run(i) ==
    \/ /\ i \in cancelled
       /\ MailboxEnds(i, "cancelled")
       /\ cancelled' = cancelled \ {i}
       /\ Queue(AfterMailbox(i))
       /\ UNCHANGED starts
    \/ /\ i \notin cancelled
       /\ \/ MailboxFree(i) /\ Begin(i)
          \/ /\ ~MailboxFree(i)
             /\ Put("queued", i)
             /\ Queue(<<>>)
             /\ UNCHANGED starts
       /\ UNCHANGED <<ended, cancelled>>

\* Slip: no catch-all, so what the task before raised ends this one as well.
MailWakesRaising(i) ==
    IF ended[previous[i]] = "completed" /\ i \notin cancelled
    THEN Begin(i) /\ UNCHANGED <<ended, cancelled>>
    ELSE /\ MailboxEnds(i, IF i \in cancelled THEN "cancelled" ELSE ended[previous[i]])
         /\ cancelled' = cancelled \ {i}
         /\ Queue(AfterMailbox(i))
         /\ UNCHANGED starts

\* run() resumes; an exception of the task before, and a cancellation that was
\* thrown here, are both swallowed by the catch-all.
MailWakes(i) ==
    /\ Begin(i)
    /\ cancelled' = cancelled \ {i}
    /\ UNCHANGED ended

\* search() returns to its caller: the direct item is over, a coordinator item's
\* provider task is.
SearchReturns(i) ==
    /\ ended' = [ended EXCEPT ![i] = IF i \in cancelled THEN "cancelled" ELSE ended[i]]
    /\ cancelled' = cancelled \ {i}
    /\ \/ i \in Direct /\ Put("done", i) /\ Queue(<<>>)
       \/ i \notin Direct /\ UNCHANGED stage /\ Queue(ProviderOver(i))

\* one()'s finally: it pops the tail only if the tail is its own.
Finally(i) ==
    /\ Put("done", i)
    /\ ended' = [ended EXCEPT ![i] = IF i \in cancelled THEN "cancelled" ELSE ended[i]]
    /\ cancelled' = cancelled \ {i}
    /\ tail' = IF tail = i THEN NoItem ELSE tail
    /\ Queue(<<>>)

\* The loop runs the callback at the head of its queue.
Step ==
    /\ ready # <<>>
    /\ LET call == Head(ready)[1]
           i == Head(ready)[2]
       IN  \/ call = "first" /\ First(i)
           \/ call = "shield" /\ Shield(i)
           \/ /\ call = "tail"
              /\ TailWakes(i)
           \/ /\ call = "search"
              /\ Search(i)
              /\ UNCHANGED <<tail, waitsFor, starts>>
           \/ /\ call = "run"
              /\ Run(i)
              /\ UNCHANGED <<tail, waitsFor, mailTail, previous, entries>>
           \/ /\ call = "mail"
              /\ MailWakes(i)
              /\ UNCHANGED <<tail, waitsFor, mailTail, previous, entries>>
           \/ /\ call = "provider"
              /\ SearchReturns(i)
              /\ UNCHANGED <<tail, waitsFor, mailTail, previous, entries, starts>>
           \/ /\ call = "finally"
              /\ Finally(i)
              /\ UNCHANGED <<waitsFor, mailTail, previous, entries, starts>>
    /\ UNCHANGED <<asked, accepted>>

Next ==
    \/ \E i \in Items : Accept(i) \/ ProviderAnswers(i) \/ Cancel(i)
    \/ Step

\* The loop keeps running, and a provider call ends at its timeout at the latest.
Fairness == WF_vars(Step) /\ \A i \in Items : WF_vars(ProviderAnswers(i))

Spec == Init /\ [][Next]_vars /\ Fairness

-----------------------------------------------------------------------------
(* Properties *)

\* Every field holds a value of its kind.
TypeOK ==
    /\ stage \in [Items -> Stages]
    /\ ended \in [Items -> Ends]
    /\ ready \in Seq({"first", "shield", "tail", "search", "run", "mail", "provider",
                      "finally"} \X Items)
    /\ {tail, mailTail} \subseteq Items \cup {NoItem}
    /\ {waitsFor, previous} \subseteq [Items -> Items \cup {NoItem}]
    /\ cancelled \subseteq Items

\* "A failed operation must not poison the durable mailbox for every later
\* submission" (base.py, submit): an item that is in the mailbox runs its own
\* operation, whether the one before it completed, failed or was cancelled and
\* whoever is cancelled behind it, unless it is itself cancelled before its first
\* step; and every accepted item comes to an end.
NotPoisoned ==
    \A i \in Items :
        /\ stage[i] = "entered" ~>
              i \in Range(starts) \/ (stage[i] = "entered" /\ i \in cancelled)
        /\ stage[i] = "created" ~> stage[i] = "done"

\* A worker runs one operation at a time.
OneAtATime == \A i, j \in Items : stage[i] = "running" /\ stage[j] = "running" => i = j

\* Two operations of one worker overlap only after an item was cancelled between
\* its entry into the mailbox and its first step there: no failure, no cancel of a
\* waiting or running item and no mix of the two queues breaks the serialisation.
SerialUnlessDropped ==
    OneAtATime \/ \E i \in Range(entries) \ Range(starts) : ended[i] = "cancelled"

-----------------------------------------------------------------------------
(* What a comment, a document or a test says, and the code does not do. *)

\* coordinator.cancel ends "accepted computation for one work item": an item that
\* nobody cancelled does not end as cancelled.
CancelSparesOthers == \A i \in Items : ended[i] = "cancelled" => i \in asked

\* A worker starts its work in the order in which the turns were accepted.
AcceptanceOrder == starts = SelectSeq(accepted, LAMBDA i : i \in Range(starts))
=============================================================================
