---------------------------- MODULE ConnectionHost ----------------------------
(***************************************************************************)
(* One browser connection after another: the handshake token               *)
(* (server/handshake_gate.py), the promotion of an epoch                   *)
(* (server/connection_arbiter.py), SessionHost.connect, the attachment of  *)
(* a pipeline worker (server/app.py), the retirement of a connection       *)
(* (server/connection_pipeline.py), and the shutdown of the host.          *)
(*                                                                         *)
(* An attempt is one handshake of a page, from GET /api/session on.        *)
(* ConnectionPipeline.shutdown may run several times for one connection,   *)
(* at once, on behalf of different callers.                                *)
(***************************************************************************)
EXTENDS Naturals, Sequences, FiniteSets

CONSTANTS Attempts, NoAttempt,
          MaxTokens,   \* _MAX_HANDSHAKE_TOKENS
          MaxWorkers,  \* bound on workers registered after the start
          MaxFaults    \* bound on failed workers and output teardowns

HostAssumption == NoAttempt \notin Attempts /\ MaxTokens \in Nat \ {0} /\ MaxWorkers \in Nat /\ MaxFaults \in Nat

\* Who runs ConnectionPipeline.shutdown: the promotion of a successor, the
\* attachment itself, a failed worker, the output teardown, the host.
Callers == {"retire", "setup", "worker", "output", "host"}

VARIABLES
  tokens,     \* handshake tokens, oldest first, by attempt
  redeemed,   \* attempts whose token was redeemed
  proposed,   \* per attempt: its proposed epoch
  epoch,      \* arbiter.epoch; 0 while nothing was promoted
  connection, \* host.connection
  liveEpoch,  \* state.active_epoch; 0 for None
  host,       \* "up", "closing", "draining" or "down"
  pc,         \* where the attempt is
  active,     \* per attempt: pipeline.active
  attr,       \* attempts with pipeline.worker set
  task,       \* attempts with pipeline.worker_task set
  worker,     \* per attempt: "none", "running" or "stopped"
  observing,  \* attempts whose observer is subscribed
  closed,     \* attempts whose lifecycle was told connection_closed
  peer,       \* per attempt: "none", "open" or "closed"
  down,       \* per attempt and caller: the stage of its shutdown
  registered, \* the durable workers: "all", "pending" or "missing"
  created,    \* workers created since the start
  faults      \* failed workers and output teardowns so far

gateVars == <<tokens, redeemed, proposed>>
hostVars == <<epoch, connection, liveEpoch, host>>
pipeVars == <<active, attr, task, worker, observing, closed, peer, down>>
regVars == <<registered, created>>
vars == <<gateVars, hostVars, pc, pipeVars, regVars, faults>>

Over == {"none", "done", "killed"}

Accepts(a) ==
  /\ host = "up" /\ epoch = proposed[a]
  /\ connection # NoAttempt /\ active[connection]

-----------------------------------------------------------------------------
(***************************************************************************)
(* The handshake.                                                          *)
(***************************************************************************)

\* issue_token drops the token nearest its expiry: the oldest.
Trimmed(all) == IF Len(all) > MaxTokens THEN Tail(all) ELSE all

\* GET /api/session: session_handshake and issue_token.
Session(a) ==
  /\ pc[a] = "none" /\ host = "up"
  /\ proposed' = [proposed EXCEPT ![a] = epoch + 1]
  /\ tokens' = Trimmed(Append(tokens, a))
  /\ pc' = [pc EXCEPT ![a] = "issued"]
  /\ UNCHANGED <<redeemed, hostVars, pipeVars, regVars, faults>>

\* _prune_handshake_tokens: tokens live equally long, so the oldest expires.
Expire ==
  /\ tokens # <<>>
  /\ tokens' = Tail(tokens)
  /\ UNCHANGED <<redeemed, proposed, hostVars, pc, pipeVars, regVars, faults>>

\* validate_handshake_token finds the attempt's token in the store.
HasToken(a) == \E n \in DOMAIN tokens : tokens[n] = a

\* POST /api/rtc: the token is redeemed and the peer connection is opened.
Offer(a) ==
  /\ pc[a] = "issued" /\ host = "up"
  /\ IF HasToken(a)
     THEN /\ redeemed' = redeemed \cup {a}
          /\ pc' = [pc EXCEPT ![a] = "offered"]
          /\ peer' = [peer EXCEPT ![a] = "open"]
     ELSE /\ pc' = [pc EXCEPT ![a] = "refused"]
          /\ UNCHANGED <<redeemed, peer>>
  /\ UNCHANGED <<tokens, proposed, hostVars, active, attr, task, worker,
                 observing, closed, down, regVars, faults>>

-----------------------------------------------------------------------------
(***************************************************************************)
(* SessionHost.connect.                                                    *)
(***************************************************************************)

\* connect while not closing, and ConnectionArbiter.promote.
Fresh(a) == host = "up" /\ (epoch = 0 \/ proposed[a] > epoch)

\* _retire_old_connection deactivates before anything is awaited.
Retired(old, a) ==
  [b \in Attempts |-> IF b = a THEN TRUE ELSE IF b = old THEN FALSE ELSE active[b]]

Promote(a) ==
  /\ pc[a] = "offered" /\ Fresh(a)
  /\ epoch' = proposed[a] /\ liveEpoch' = proposed[a] /\ connection' = a
  /\ active' = Retired(connection, a)
  /\ down' = IF connection = NoAttempt THEN down
             ELSE [down EXCEPT ![connection]["retire"] = "start"]
  /\ registered' = IF registered = "missing" THEN "pending" ELSE registered
  /\ pc' = [pc EXCEPT ![a] = IF registered = "all" THEN "dialing" ELSE "registering"]
  /\ UNCHANGED <<gateVars, host, attr, task, worker, observing, closed, peer, created, faults>>

\* connect raises before it promotes: the callback's exception is logged.
PromoteRaises(a) ==
  /\ pc[a] = "offered" /\ ~Fresh(a)
  /\ pc' = [pc EXCEPT ![a] = "failed"]
  /\ UNCHANGED <<gateVars, hostVars, pipeVars, regVars, faults>>

\* A turn creates a worker, whose registration with the runner it awaits.
CreateWorker ==
  /\ host = "up" /\ created < MaxWorkers /\ registered = "all"
  /\ created' = created + 1
  /\ registered' \in {"pending", "missing"}
  /\ UNCHANGED <<gateVars, hostVars, pc, pipeVars, faults>>

\* The coalesced registration task of register_worker ends; those who await
\* it go on, or raise.
RegistrationEnds(ok) ==
  /\ registered = "pending"
  /\ registered' = IF ok THEN "all" ELSE "missing"
  /\ pc' = [a \in Attempts |-> IF pc[a] # "registering" THEN pc[a]
                               ELSE IF ok THEN "dialing" ELSE "failed"]
  /\ UNCHANGED <<gateVars, hostVars, pipeVars, created, faults>>

-----------------------------------------------------------------------------
(***************************************************************************)
(* _attach_connection, after tts.connect().                                *)
(***************************************************************************)
\* Slip: the epoch is not checked again.
StillAcceptsAlways(a) == TRUE

StillAccepts(a) == Accepts(a)

\* The pipeline is built, subscribed and run, without another await.
Attach(a) ==
  /\ pc[a] = "dialing" /\ StillAccepts(a)
  /\ attr' = attr \cup {a} /\ task' = task \cup {a} /\ observing' = observing \cup {a}
  /\ worker' = [worker EXCEPT ![a] = "running"]
  /\ pc' = [pc EXCEPT ![a] = "attached"]
  /\ UNCHANGED <<gateVars, hostVars, active, closed, peer, down, regVars, faults>>

\* Replaced during setup.
Replaced(a) ==
  /\ pc[a] = "dialing" /\ ~StillAccepts(a)
  /\ pc' = [pc EXCEPT ![a] = "leaving"]
  /\ down' = [down EXCEPT ![a]["setup"] = "start"]
  /\ UNCHANGED <<gateVars, hostVars, active, attr, task, worker, observing,
                 closed, peer, regVars, faults>>

\* Slip: a failed setup clears the session's epoch whoever is connected.
LiveAfterAbortCleared(a) == 0

LiveAfterAbort(a) == IF connection = a THEN 0 ELSE liveEpoch

\* The speech service cannot be dialled, or the pipeline cannot be built:
\* abort_connection acts only on the current connection.
SetupRaises(a) ==
  /\ pc[a] = "dialing"
  /\ IF connection = a
     THEN active' = [active EXCEPT ![a] = FALSE] /\ connection' = NoAttempt
     ELSE UNCHANGED <<active, connection>>
  /\ liveEpoch' = LiveAfterAbort(a)
  /\ down' = [down EXCEPT ![a]["setup"] = "start"]
  /\ pc' = [pc EXCEPT ![a] = "aborting"]
  /\ UNCHANGED <<gateVars, epoch, host, attr, task, worker, observing, closed,
                 peer, regVars, faults>>

\* The inline shutdown is over: _close_setup_connection.
SetupOver(a) ==
  /\ pc[a] \in {"leaving", "aborting"} /\ down[a]["setup"] = "done"
  /\ peer' = [peer EXCEPT ![a] = "closed"]
  /\ pc' = [pc EXCEPT ![a] = IF pc[a] = "leaving" THEN "left" ELSE "failed"]
  /\ UNCHANGED <<gateVars, hostVars, active, attr, task, worker, observing,
                 closed, down, regVars, faults>>

-----------------------------------------------------------------------------
(***************************************************************************)
(* ConnectionPipeline.shutdown.                                            *)
(***************************************************************************)

\* Its segment after the worker is gone, up to the services' cleanup.
Unsubscribed(a, c) ==
  /\ observing' = observing \ {a}
  /\ down' = [down EXCEPT ![a][c] = "clean"]

AfterCancel(a, c) ==
  IF a \in task THEN down' = [down EXCEPT ![a][c] = "join"] /\ UNCHANGED observing
  ELSE Unsubscribed(a, c)

ShutdownBegins(a, c) ==
  /\ down[a][c] = "start"
  /\ active' = [active EXCEPT ![a] = FALSE]
  /\ IF a \in attr
     THEN down' = [down EXCEPT ![a][c] = "cancel"] /\ UNCHANGED observing
     ELSE AfterCancel(a, c)
  /\ UNCHANGED <<gateVars, hostVars, pc, attr, task, worker, closed, peer, regVars, faults>>

\* worker.cancel returns, or raises and is logged.
CancelReturns(a, c) ==
  /\ down[a][c] = "cancel"
  /\ attr' = attr \ {a}
  /\ AfterCancel(a, c)
  /\ UNCHANGED <<gateVars, hostVars, pc, active, task, worker, closed, peer, regVars, faults>>

JoinReturns(a, c) ==
  /\ down[a][c] = "join" /\ worker[a] # "running"
  /\ task' = task \ {a}
  /\ Unsubscribed(a, c)
  /\ UNCHANGED <<gateVars, hostVars, pc, active, attr, worker, closed, peer, regVars, faults>>

\* Slip: the lifecycle is never told.
ClosedNever(a) == closed

Closed(a) == closed \cup {a}

\* The services are cleaned up, or their cleanup raises and is logged.
CleanReturns(a, c) ==
  /\ down[a][c] = "clean"
  /\ closed' = Closed(a)
  /\ down' = [down EXCEPT ![a][c] = "done"]
  /\ UNCHANGED <<gateVars, hostVars, pc, active, attr, task, worker, observing,
                 peer, regVars, faults>>

\* A worker that a shutdown cancels stops, and with it its transport.
WorkerCancelled(a) ==
  /\ worker[a] = "running" /\ \E c \in Callers : down[a][c] \in {"cancel", "join"}
  /\ worker' = [worker EXCEPT ![a] = "stopped"]
  /\ peer' = [peer EXCEPT ![a] = "closed"]
  /\ UNCHANGED <<gateVars, hostVars, pc, active, attr, task, observing, closed,
                 down, regVars, faults>>

\* A worker ends: worker_finished schedules a shutdown if it failed, and does
\* nothing if its run just returned.
WorkerEnds(a) ==
  /\ worker[a] = "running" /\ down[a]["worker"] = "none"
  /\ worker' = [worker EXCEPT ![a] = "stopped"]
  /\ UNCHANGED down \/ down' = [down EXCEPT ![a]["worker"] = "start"]
  /\ faults < MaxFaults /\ faults' = faults + 1
  /\ UNCHANGED <<gateVars, hostVars, pc, active, attr, task, observing, closed,
                 peer, regVars>>

\* _connect_dispatch_lifecycle_teardown fences the lane, then closes the
\* output, then schedules a shutdown whether that failed or not.
Teardown(a) ==
  /\ pc[a] = "attached" /\ active[a] /\ down[a]["output"] = "none"
  /\ active' = [active EXCEPT ![a] = FALSE]
  /\ down' = [down EXCEPT ![a]["output"] = "teardown"]
  /\ faults < MaxFaults /\ faults' = faults + 1
  /\ UNCHANGED <<gateVars, hostVars, pc, attr, task, worker, observing, closed,
                 peer, regVars>>

TeardownEnds(a) ==
  /\ down[a]["output"] = "teardown"
  /\ down' = [down EXCEPT ![a]["output"] = "start"]
  /\ \/ peer' = [peer EXCEPT ![a] = "closed"]
     \/ UNCHANGED peer
  /\ UNCHANGED <<gateVars, hostVars, pc, active, attr, task, worker, observing,
                 closed, regVars, faults>>

-----------------------------------------------------------------------------
(***************************************************************************)
(* SessionHost.shutdown, after webrtc_handler.close().                     *)
(***************************************************************************)
HostCloses ==
  /\ host = "up"
  /\ host' = "closing"
  /\ peer' = [a \in Attempts |-> IF peer[a] = "open" THEN "closed" ELSE peer[a]]
  /\ UNCHANGED <<gateVars, epoch, connection, liveEpoch, pc, active, attr, task,
                 worker, observing, closed, down, regVars, faults>>

\* cancel_registrations has returned; the connection is deactivated and its
\* shutdown scheduled.
HostDrains ==
  /\ host = "closing"
  /\ host' = "draining"
  /\ registered' = IF registered = "pending" THEN "missing" ELSE registered
  /\ pc' = [a \in Attempts |-> IF pc[a] = "registering" THEN "failed" ELSE pc[a]]
  /\ connection' = NoAttempt
  /\ IF connection = NoAttempt THEN UNCHANGED <<active, down>>
     ELSE /\ active' = [active EXCEPT ![connection] = FALSE]
          /\ down' = [down EXCEPT ![connection]["host"] = "start"]
  /\ UNCHANGED <<gateVars, epoch, liveEpoch, attr, task, worker, observing,
                 closed, peer, created, faults>>

\* Every tracked shutdown is over, or the grace has expired: a shutdown that
\* is left is cancelled, which only the await of the worker's task survives.
HostDown ==
  /\ host = "draining"
  /\ host' = "down" /\ liveEpoch' = 0
  /\ down' = [a \in Attempts |-> [c \in Callers |->
                IF c # "setup" /\ down[a][c] \in {"start", "cancel", "clean"}
                THEN "killed" ELSE down[a][c]]]
  /\ UNCHANGED <<gateVars, epoch, connection, pc, active, attr, task, worker,
                 observing, closed, peer, regVars, faults>>

Init ==
  /\ tokens = <<>> /\ redeemed = {} /\ proposed = [a \in Attempts |-> 0]
  /\ epoch = 0 /\ connection = NoAttempt /\ liveEpoch = 0 /\ host = "up"
  /\ pc = [a \in Attempts |-> "none"] /\ active = [a \in Attempts |-> FALSE]
  /\ attr = {} /\ task = {} /\ worker = [a \in Attempts |-> "none"]
  /\ observing = {} /\ closed = {} /\ peer = [a \in Attempts |-> "none"]
  /\ down = [a \in Attempts |-> [c \in Callers |-> "none"]]
  /\ registered = "all" /\ created = 0 /\ faults = 0

ShutdownStep(a, c) ==
  \/ ShutdownBegins(a, c) \/ CancelReturns(a, c)
  \/ JoinReturns(a, c) \/ CleanReturns(a, c)

Next ==
  \/ \E a \in Attempts :
       \/ Session(a) \/ Offer(a) \/ Promote(a) \/ PromoteRaises(a)
       \/ Attach(a) \/ Replaced(a) \/ SetupRaises(a) \/ SetupOver(a)
       \/ WorkerCancelled(a) \/ WorkerEnds(a) \/ Teardown(a) \/ TeardownEnds(a)
       \/ \E c \in Callers : ShutdownStep(a, c)
  \/ Expire \/ CreateWorker \/ \E ok \in BOOLEAN : RegistrationEnds(ok)
  \/ HostCloses \/ HostDrains \/ HostDown

(***************************************************************************)
(* The loop runs every ready task: a scheduled shutdown begins; worker     *)
(* cancellation, the speech services' dialling and cleanup, and the output *)
(* teardown return or time out.  Pages and the host's closing owe nothing. *)
(***************************************************************************)
Fairness ==
  /\ \A a \in Attempts :
       /\ WF_vars(WorkerCancelled(a)) /\ WF_vars(TeardownEnds(a))
       /\ WF_vars(Attach(a) \/ Replaced(a) \/ SetupRaises(a))
       /\ \A c \in Callers : WF_vars(ShutdownStep(a, c))
  /\ WF_vars(\E ok \in BOOLEAN : RegistrationEnds(ok))

Spec == Init /\ [][Next]_vars /\ Fairness

-----------------------------------------------------------------------------
(***************************************************************************)
(* Properties.                                                             *)
(***************************************************************************)
TokensOK == tokens \in Seq(Attempts) /\ Len(tokens) <= MaxTokens

\* Every variable has its type; the token store keeps its bound, and only a
\* pipeline that was attached has a worker to cancel.
TypeOK ==
  /\ TokensOK
  /\ redeemed \subseteq Attempts
  /\ proposed \in [Attempts -> Nat] /\ epoch \in Nat /\ liveEpoch \in Nat
  /\ connection \in Attempts \cup {NoAttempt}
  /\ host \in {"up", "closing", "draining", "down"}
  /\ pc \in [Attempts -> {"none", "issued", "refused", "offered", "registering", "dialing",
                          "attached", "leaving", "left", "aborting", "failed"}]
  /\ active \in [Attempts -> BOOLEAN]
  /\ worker \in [Attempts -> {"none", "running", "stopped"}]
  /\ attr \cup task \cup observing \subseteq {a \in Attempts : worker[a] # "none"}
  /\ closed \subseteq Attempts
  /\ peer \in [Attempts -> {"none", "open", "closed"}]
  /\ down \in [Attempts -> [Callers -> {"start", "teardown", "cancel", "join", "clean"} \cup Over]]
  /\ registered \in {"all", "pending", "missing"} /\ created \in 0..MaxWorkers /\ faults \in 0..MaxFaults

\* The promoted attempts: those connect went past the arbiter with.
Promoted == {a \in Attempts : pc[a] \in {"registering", "dialing", "attached", "leaving",
                                         "left", "aborting"}}

\* The session has one current connection: two pages that were offered the
\* same epoch are not both promoted (ConnectionArbiter.promote); a connection
\* that a newer one replaced is inactive from that very step on, whatever its
\* own tasks are still doing; and the epoch session state accepts events for
\* is the current connection's, even when an older attempt is aborted late.
OneCurrent ==
  /\ \A a, b \in Promoted : proposed[a] = proposed[b] => a = b
  /\ \A a \in Attempts : active[a] => connection = a
  /\ connection # NoAttempt => liveEpoch = proposed[connection] /\ epoch = liveEpoch

Closing(a) == \E c \in Callers : down[a][c] \notin Over

\* A worker runs only for the current, active connection or while a shutdown
\* that will stop it is under way (the accepts checks of _attach_connection),
\* and a connection whose lifecycle is closed has neither a running worker nor
\* a subscribed observer.
NoOrphanWorker ==
  /\ host # "down" =>
       \A a \in Attempts : worker[a] = "running" => (connection = a /\ active[a]) \/ Closing(a)
  /\ \A a \in closed : worker[a] # "running" /\ a \notin observing

\* A promoted connection that became inactive is eventually closed, or the
\* host's shutdown cut it short.
RetiredIsClosed ==
  \A a \in Attempts : (a \in Promoted /\ ~active[a]) ~> (a \in closed \/ host = "down")

-----------------------------------------------------------------------------
(* What a comment, a document or a test says, and the code does not do. *)

\* What test_connection_setup_failure_cleans_and_fences_promoted_runtime
\* says of a failed setup: the connection is fenced.
FailedIsFenced == \A a \in Attempts : pc[a] = "failed" => ~active[a]

\* What _close_setup_connection says: a setup that aborts closes the raw peer
\* connection, which nobody else does.
FailedIsClosed == \A a \in Attempts : pc[a] = "failed" => peer[a] = "closed"
=============================================================================
