----------------------------- MODULE MCConnection -----------------------------
(***************************************************************************)
(* The life of a connection on small instances: the server's admission,    *)
(* promotion and retirement of pipelines (ConnectionHost), the page that   *)
(* connects, reconnects and is torn down (BrowserConnection), and the      *)
(* snapshot barrier by which the page joins the event log of the session   *)
(* (SnapshotBarrier).  The modules share no variable; a behaviour is one   *)
(* of `part' and the others rest in their initial state.                   *)
(***************************************************************************)
EXTENDS SnapshotBarrier

CONSTANTS Attempts, NoAttempt, MaxTokens, MaxWorkers, MaxFaults,   \* ConnectionHost
          MaxGeneration, MaxCalls                                  \* BrowserConnection

VARIABLES
  part,
  \* ConnectionHost
  tokens, redeemed, proposed, arbiterEpoch, connection, liveEpoch, host, pc, active, attr,
  task, worker, observing, closed, peer, down, registered, created, faults,
  \* BrowserConnection
  generation, current, listening, client, promise, mine, awaits, shown, mic, status,
  capturing, torn, playing, calls, stranded

Host == INSTANCE ConnectionHost WITH epoch <- arbiterEpoch
Page == INSTANCE BrowserConnection WITH active <- listening

ASSUME ConnectionAssumption == Host!HostAssumption /\ Page!BrowserAssumption

hostVars == <<tokens, redeemed, proposed, arbiterEpoch, connection, liveEpoch, host, pc,
              active, attr, task, worker, observing, closed, peer, down, registered,
              created, faults>>
pageVars == <<generation, current, listening, client, promise, mine, awaits, shown, mic,
              status, capturing, torn, playing, calls, stranded>>
allVars == <<part, vars, hostVars, pageVars>>

ConnectionInit ==
  /\ part \in {"host", "barrier", "page"}
  /\ Init /\ Host!Init /\ Page!Init

ConnectionNext ==
  \/ part = "host" /\ Host!Next /\ UNCHANGED <<part, vars, pageVars>>
  \/ part = "barrier" /\ Next /\ UNCHANGED <<part, hostVars, pageVars>>
  \/ part = "page" /\ Page!Next /\ UNCHANGED <<part, vars, hostVars>>

\* The host's fairness; only its liveness is checked.
HostFairness ==
  /\ \A a \in Attempts :
       /\ WF_hostVars(part = "host" /\ Host!WorkerCancelled(a))
       /\ WF_hostVars(part = "host" /\ Host!TeardownEnds(a))
       /\ WF_hostVars(part = "host" /\ (Host!Attach(a) \/ Host!Replaced(a) \/ Host!SetupRaises(a)))
       /\ \A c \in Host!Callers : WF_hostVars(part = "host" /\ Host!ShutdownStep(a, c))
  /\ WF_hostVars(part = "host" /\ \E ok \in BOOLEAN : Host!RegistrationEnds(ok))

ConnectionSpec == ConnectionInit /\ [][ConnectionNext]_allVars /\ HostFairness

\* ConnectionHost: one connection is current, and the accepted epoch is its own.
OneCurrent == Host!OneCurrent
\* ConnectionHost: no worker runs that nobody will stop.
NoOrphanWorker == Host!NoOrphanWorker
\* ConnectionHost: a connection that is no longer current is closed in the end.
RetiredIsClosed == Host!RetiredIsClosed
\* BrowserConnection: what the page shows and plays is the current client's, unless
\* a failed connect() could not disconnect it.
ShownIsCurrent == Page!ShownIsCurrent
=============================================================================
