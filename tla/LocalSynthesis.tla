--------------------------- MODULE LocalSynthesis ---------------------------
(***************************************************************************)
(* LocalTTS (server/services/tts.py) over LocalTTSClient                   *)
(* (server/services/ws_clients.py): one wire client at a time, the         *)
(* run_tts generator of each utterance, and their interruption.            *)
(*                                                                         *)
(* Pipecat runs one run_tts at a time.  An interruption cancels the task   *)
(* that iterates the generator.  If the generator is awaiting something    *)
(* the cancellation is raised in it and its finally block runs in that     *)
(* task; if it is suspended at a yield it is abandoned, and asyncio closes *)
(* it from a task of its own, at any later time.  Either way Pipecat calls *)
(* on_audio_context_interrupted before it starts the successor.            *)
(*                                                                         *)
(* Utterance 0 is the connect() that app.py awaits before the pipeline     *)
(* runs.  Audio, sample rates and texts are left out; a provider error, an *)
(* exceeded limit, the end of the stream and a timeout are one failure.    *)
(***************************************************************************)
EXTENDS Naturals, Sequences, FiniteSets

CONSTANTS MaxUtterances     \* bound: how many utterances are spoken

ASSUME SynthesisAssumption == MaxUtterances \in Nat

Utterances == 0..MaxUtterances
Clients == 1..(MaxUtterances + 1)
Null == 0

VARIABLES
    pc,         \* [Utterances -> ...]: where run_tts (or connect) is
    abandoned,  \* generators whose consumer is gone, suspended at a yield
    hooked,     \* utterances on_audio_context_interrupted has been called for
    current,    \* the utterance Pipecat started last
    client,     \* LocalTTS._client
    made,       \* how many clients the factory has built
    contexts,      \* LocalTTS._context_clients
    mine,       \* [Utterances -> ...]: run_tts's local client
    completed,  \* utterances whose audio.done or cancelled was read
    ws,         \* clients whose _ws is set
    socket,     \* [Clients -> ...]: the websocket
    owed,       \* [Clients -> Seq]: utterances committed and not yet answered in full
    heard,      \* history: [Utterances -> SUBSET]: whose audio an utterance read
    events,     \* history: [Utterances -> Seq]: on_event calls
    cut,        \* history: utterances cancelled while they aborted their client
    down        \* cleanup has run

synthesisVars == <<pc, abandoned, hooked, current, client, made, contexts, mine,
                   completed, ws, socket, owed, heard, events, cut, down>>
pipecat == <<abandoned, hooked, current, down>>
service == <<client, made, contexts>>
local == <<mine, completed>>
wire == <<ws, socket>>
history == <<heard, events, cut>>

\* Suspended at a yield, with Pipecat holding the frame.
AtYield == {"started", "delta", "stopped"}
\* Awaiting something inside the generator.
AtAwait == {"dialing", "greeting", "sending", "starting", "reading", "ending"}
Failing == {"refusing", "aborting"}

Running(u) == pc[u] \in AtYield \cup AtAwait \cup Failing /\ u \notin abandoned
Goto(u, where) == pc' = [pc EXCEPT ![u] = where]

----------------------------------------------------------------------------
(* The wire client and _abort_client.                                      *)

\* LocalTTSClient.close up to its await: the socket is closed by the caller
\* that took _ws; a second caller finds None.
WireClose(c) ==
    /\ ws' = ws \ {c}
    /\ socket' = IF c \in ws THEN [socket EXCEPT ![c] = "closing"] ELSE socket

\* _abort_client, up to its await.
AbortClient(c) ==
    /\ client' = IF client = c THEN Null ELSE client
    /\ contexts' = [u \in Utterances |-> IF contexts[u] = c THEN Null ELSE contexts[u]]
    /\ WireClose(c)

\* _close_socket returns: its wait is bounded.
SocketCloses(c) ==
    /\ socket[c] = "closing"
    /\ socket' = [socket EXCEPT ![c] = "closed"]
    /\ UNCHANGED <<pc, ws, owed, pipecat, service, local, history>>

----------------------------------------------------------------------------
(* run_tts and connect.                                                    *)

\* The successor may start: its predecessor is over, or abandoned and fenced.
MayStart(u) == pc[u] = "over" \/ (u \in abandoned /\ u \in hooked)

\* Pipecat calls run_tts, which connects, or finds the client there.
Start(u) ==
    /\ u = current + 1 /\ MayStart(current) /\ ~down
    /\ current' = u
    /\ IF client # Null
       THEN /\ mine' = [mine EXCEPT ![u] = client]
            /\ contexts' = [contexts EXCEPT ![u] = client]
            /\ Goto(u, "sending")
            /\ UNCHANGED <<client, made>>
       ELSE /\ made' = made + 1
            /\ client' = made'
            /\ mine' = [mine EXCEPT ![u] = made']
            /\ Goto(u, "dialing")
            /\ UNCHANGED contexts
    /\ UNCHANGED <<abandoned, hooked, completed, owed, down, wire, history>>

\* LocalTTSClient.connect gets its socket.
Dialed(u) ==
    /\ pc[u] = "dialing"
    /\ ws' = ws \cup {mine[u]}
    /\ socket' = [socket EXCEPT ![mine[u]] = "open"]
    /\ Goto(u, "greeting")
    /\ UNCHANGED <<owed, pipecat, service, local, history>>

\* The handshake is done; run_tts binds its context to the client.
Greeted(u) ==
    /\ pc[u] = "greeting"
    /\ IF u = 0
       THEN Goto(u, "over") /\ UNCHANGED contexts
       ELSE Goto(u, "sending") /\ contexts' = [contexts EXCEPT ![u] = mine[u]]
    /\ UNCHANGED <<client, made, owed, pipecat, wire, local, history>>

\* connect fails or is cancelled: LocalTTSClient.connect closes its socket and
\* then LocalTTS.connect aborts the client, also when a cancellation cuts that
\* close short.  No event is sent for the utterance.
ConnectFails(u) ==
    /\ pc[u] \in {"dialing", "greeting"}
    /\ WireClose(mine[u])
    /\ Goto(u, "refusing")
    /\ UNCHANGED <<owed, pipecat, service, local, history>>

Refused(u) ==
    /\ pc[u] = "refusing"
    /\ AbortClient(mine[u])
    /\ Goto(u, "over")
    /\ UNCHANGED <<made, owed, pipecat, local, history>>

\* append and commit are sent; on_event("synthesis_started") is called.
Committed(u) ==
    /\ pc[u] = "sending"
    /\ owed' = [owed EXCEPT ![mine[u]] = Append(@, u)]
    /\ events' = [events EXCEPT ![u] = Append(@, "started")]
    /\ Goto(u, "starting")
    /\ UNCHANGED <<heard, cut, pipecat, service, wire, local>>

\* on_event returns and the generator yields TTSStartedFrame.
YieldStarted(u) ==
    /\ pc[u] = "starting"
    /\ Goto(u, "started")
    /\ UNCHANGED <<owed, pipecat, service, wire, local, history>>

\* Pipecat asks for the next frame.
Resumed(u) ==
    /\ pc[u] \in AtYield /\ u \notin abandoned
    /\ Goto(u, IF pc[u] = "stopped" THEN "over" ELSE "reading")
    /\ contexts' = IF pc[u] = "stopped" /\ contexts[u] = mine[u]
                THEN [contexts EXCEPT ![u] = Null] ELSE contexts
    /\ UNCHANGED <<client, made, owed, pipecat, wire, local, history>>

\* The next event on the socket is one of the oldest answer the server owes.
Reads(u) ==
    /\ pc[u] = "reading" /\ mine[u] \in ws
    /\ heard' = [heard EXCEPT ![u] = @ \cup {Head(owed[mine[u]])}]

\* An audio delta.
ReadDelta(u) ==
    /\ Reads(u)
    /\ Goto(u, "delta")
    /\ UNCHANGED <<owed, events, cut, pipecat, service, wire, local>>

\* audio.done or cancelled: on_event("synthesis_ended") is called.
ReadDone(u) ==
    /\ Reads(u)
    /\ owed' = [owed EXCEPT ![mine[u]] = Tail(@)]
    /\ completed' = completed \cup {u}
    /\ events' = [events EXCEPT ![u] = Append(@, "ended")]
    /\ Goto(u, "ending")
    /\ UNCHANGED <<mine, cut, pipecat, service, wire>>

YieldStopped(u) ==
    /\ pc[u] = "ending"
    /\ Goto(u, "stopped")
    /\ UNCHANGED <<owed, pipecat, service, wire, local, history>>

\* Slip: the client of a stream that was left is kept for the next utterance.
FinallyKeepsClient(u) ==
    /\ contexts' = IF contexts[u] = mine[u] THEN [contexts EXCEPT ![u] = Null] ELSE contexts
    /\ Goto(u, IF u \in completed THEN "over" ELSE "aborting")
    /\ UNCHANGED <<client, ws, socket>>

\* Slip: the finally block does not look at "completed".
FinallyAlways(u) == AbortClient(mine[u]) /\ Goto(u, "aborting")

\* The finally block, up to the await of _abort_client.
Finally(u) ==
    IF u \in completed
    THEN /\ contexts' = IF contexts[u] = mine[u] THEN [contexts EXCEPT ![u] = Null] ELSE contexts
         /\ Goto(u, "over")
         /\ UNCHANGED <<client, ws, socket>>
    ELSE AbortClient(mine[u]) /\ Goto(u, "aborting")

\* An exception after the client is bound: the provider's, or a cancellation
\* that finds the generator at an await.
Raises(u) ==
    /\ pc[u] \in {"sending", "starting", "reading", "ending"}
    /\ Finally(u)
    /\ UNCHANGED <<made, owed, pipecat, local, history>>

\* The abort's close returns, and _notify_delivery_unknown calls on_event.
Aborted(u) ==
    /\ pc[u] = "aborting" /\ socket[mine[u]] # "closing"
    /\ events' = [events EXCEPT ![u] = Append(@, "unknown")]
    /\ Goto(u, "over")
    /\ UNCHANGED <<owed, heard, cut, pipecat, service, wire, local>>

\* A cancellation finds the generator in that close: the finally block is left
\* before _notify_delivery_unknown, and nothing is reported.  An abandoned
\* generator is closed by a task of asyncio's own, which no one cancels.
AbortCut(u) ==
    /\ pc[u] = "aborting" /\ socket[mine[u]] = "closing" /\ u \notin abandoned
    /\ cut' = cut \cup {u}
    /\ Goto(u, "over")
    /\ UNCHANGED <<owed, heard, events, pipecat, service, wire, local>>

----------------------------------------------------------------------------
(* Interruption and cleanup.                                               *)

\* An interruption finds the generator at a yield: nobody will resume it.
Abandon(u) ==
    /\ u = current /\ u # 0 /\ pc[u] \in AtYield /\ u \notin abandoned
    /\ abandoned' = abandoned \cup {u}
    /\ UNCHANGED <<pc, hooked, current, owed, down, service, wire, local, history>>

\* asyncio closes an abandoned generator: GeneratorExit is raised at its yield.
CloseAbandoned(u) ==
    /\ u \in abandoned /\ pc[u] \in AtYield
    /\ Finally(u)
    /\ UNCHANGED <<made, owed, pipecat, local, history>>

\* What the hook does to the context's client.
Fence(u) ==
    IF contexts[u] = Null THEN UNCHANGED <<client, contexts, ws, socket>>
                          ELSE AbortClient(contexts[u])

\* on_audio_context_interrupted, for the utterance that was interrupted.
Interrupted(u) ==
    /\ u = current /\ u # 0 /\ u \notin hooked
    /\ u \in abandoned \/ pc[u] = "over"
    /\ hooked' = hooked \cup {u}
    /\ Fence(u)
    /\ UNCHANGED <<pc, abandoned, current, made, owed, down, local, history>>

\* LocalTTS.cleanup, when the pipeline's tasks have ended.
Cleanup ==
    /\ ~down /\ ~Running(current)
    /\ down' = TRUE
    /\ IF client = Null THEN UNCHANGED <<client, contexts, ws, socket>>
                        ELSE AbortClient(client)
    /\ UNCHANGED <<pc, abandoned, hooked, current, made, owed, local, history>>

SynthesisInit ==
    /\ pc = [u \in Utterances |-> IF u = 0 THEN "dialing" ELSE "idle"]
    /\ abandoned = {} /\ hooked = {} /\ current = 0 /\ completed = {}
    /\ client = 1 /\ made = 1
    /\ contexts = [u \in Utterances |-> Null]
    /\ mine = [u \in Utterances |-> IF u = 0 THEN 1 ELSE Null]
    /\ ws = {} /\ socket = [c \in Clients |-> "none"]
    /\ owed = [c \in Clients |-> <<>>]
    /\ heard = [u \in Utterances |-> {}] /\ events = [u \in Utterances |-> <<>>]
    /\ cut = {}
    /\ down = FALSE

\* What happens without an interruption, a new utterance or the end.
Step(u) ==
    \/ Dialed(u) \/ Greeted(u) \/ ConnectFails(u) \/ Refused(u) \/ Committed(u)
    \/ YieldStarted(u) \/ Resumed(u) \/ ReadDelta(u) \/ ReadDone(u) \/ YieldStopped(u)
    \/ Raises(u) \/ Aborted(u) \/ CloseAbandoned(u)

SynthesisNext ==
    \/ \E u \in Utterances : Step(u) \/ Start(u) \/ AbortCut(u) \/ Abandon(u) \/ Interrupted(u)
    \/ \E c \in Clients : SocketCloses(c)
    \/ Cleanup

\* Every await of run_tts is bounded by a timeout, the client's close too, and
\* asyncio runs the finalizer of an abandoned generator.  The stream is bounded
\* as well: _events gives up after its operation timeout, and then run_tts
\* raises, if the last event was not read by then.
SynthesisFairness ==
    /\ \A u \in Utterances : /\ WF_synthesisVars(Step(u))
                             /\ SF_synthesisVars(ReadDone(u) \/ Raises(u))
    /\ \A c \in Clients : WF_synthesisVars(SocketCloses(c))

SynthesisSpec == SynthesisInit /\ [][SynthesisNext]_synthesisVars /\ SynthesisFairness

----------------------------------------------------------------------------
(* Properties.                                                             *)

\* The generators, the clients and their sockets are in the states they can
\* be in, one client exists per connection attempt, and a client's socket is
\* open exactly while the client holds it.
SynthesisTypeOK ==
    /\ pc \in [Utterances -> {"idle", "over"} \cup AtYield \cup AtAwait \cup Failing]
    /\ abandoned \subseteq Utterances /\ hooked \subseteq Utterances
    /\ completed \subseteq Utterances /\ cut \subseteq Utterances /\ current \in Utterances
    /\ made \in Clients /\ client \in 0..made
    /\ contexts \in [Utterances -> 0..made] /\ mine \in [Utterances -> 0..made]
    /\ socket \in [Clients -> {"none", "open", "closing", "closed"}]
    /\ ws = {c \in Clients : socket[c] = "open"}

\* An utterance reads the audio of no other: a stream that was left before its
\* end is never read by the successor, whatever order the interruption hook
\* and the abandoned generator's finalizer run in ("Fence an interrupted
\* provider stream before Pipecat starts its successor.").  Nor does another
\* utterance's abort take the client away from a running one: between its
\* commit and its last frame an utterance holds an open client.
OwnAudioOnly ==
    \A u \in Utterances :
        /\ heard[u] \subseteq {u}
        /\ Running(u) /\ pc[u] \in {"sending", "starting", "started", "reading", "delta"} =>
              mine[u] \in ws /\ client = mine[u] /\ contexts[u] = mine[u]

\* A synthesis is reported over at most once, and one reported as started is
\* reported over when its generator is: as ended if its last event was read, as
\* of unknown delivery otherwise (the speech slot is released by the first and
\* only such event).  The one way out of run_tts without a report is a
\* cancellation that finds it closing the client of a stream whose end it had
\* not read: no end that was read is lost that way, and none is made up.
OneTerminal ==
    \A u \in Utterances :
        /\ \A m, n \in DOMAIN events[u] :
              events[u][m] # "started" /\ events[u][n] # "started" => m = n
        /\ pc[u] = "over" /\ events[u] # <<>> /\ u \notin cut =>
              \E n \in DOMAIN events[u] :
                 events[u][n] = IF u \in completed THEN "ended" ELSE "unknown"
        /\ u \in cut => u \notin completed /\ \A n \in DOMAIN events[u] : events[u][n] = "started"

=============================================================================
