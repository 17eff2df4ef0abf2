-------------------------- MODULE BrowserConnection --------------------------
(***************************************************************************)
(* The page's connection lifecycle (createApp in web/src/app.js): connect  *)
(* with its single in-flight promise, the generation guards of the client  *)
(* callbacks, disconnect and the teardown of clients.                      *)
(*                                                                         *)
(* A client is named by the generation it was created for.  The RTVI       *)
(* client itself is external: initDevices, connect and disconnect resolve  *)
(* or reject, and it reports when it is connected, when it drops and when  *)
(* the assistant's track starts and stops.                                 *)
(***************************************************************************)
EXTENDS Naturals, FiniteSets

CONSTANTS MaxGeneration, \* bound on generations
          MaxCalls       \* bound on disconnect() calls not made by the button

BrowserAssumption == MaxGeneration \in Nat \ {0} /\ MaxCalls \in Nat

Generations == 1..MaxGeneration

VARIABLES
  generation,  \* the last generation given out
  current,     \* activeGeneration
  active,      \* connectionActive
  client,      \* the generation of `client`, 0 for undefined
  promise,     \* where the in-flight connect() waits, or "idle"
  mine,        \* the generation of that connect()
  awaits,      \* the client whose disconnect() it awaits, 0 for none
  shown,       \* state.connection = "connected"
  mic,         \* state.micEnabled
  status,      \* per client: "none", "init", "connecting", "open" or "closed"
  capturing,   \* clients that hold the microphone
  torn,        \* tornDownClients
  playing,     \* the client whose track the audio element plays, 0 for none
  calls,       \* disconnect() calls so far that were not the button's
  stranded     \* history: the live clients that a failed connect() let go of in
               \* the current generation, until the page next cleans up

guards == <<generation, current, active>>
flight == <<promise, mine, awaits>>
page == <<shown, mic, playing, stranded>>
clients == <<status, capturing, torn>>
vars == <<guards, client, flight, page, clients, calls>>

-----------------------------------------------------------------------------
\* Slip: the generation is not advanced.
RetireGenerationNot == UNCHANGED <<generation, current>>

RetireGeneration == generation' = generation + 1 /\ current' = generation + 1

\* Whether cleanupConnection does anything for a callback's generation.
CleansUp(g) == active /\ g = current

\* enableMic(false).
ReleasedMic(T) == capturing \ T

\* The clients teardownClient acts on: each one once.
Untorn(c) == {c} \ (torn \cup {0})

\* teardownClient calls disconnect(); how it ends is ClientDrops, ClosesUnreported
\* or DisconnectRejects.
Teardown(T) == torn' = torn \cup T /\ UNCHANGED status

\* audio.srcObject = null.
Silenced == playing' = 0

\* cleanupConnection for a callback or call of generation g.
Cleanup(g, T) ==
  /\ IF CleansUp(g)
     THEN /\ RetireGeneration
          /\ active' = FALSE
          /\ shown' = FALSE /\ mic' = FALSE /\ Silenced
          /\ stranded' = {}
     ELSE UNCHANGED <<generation, current, active, page>>
  /\ capturing' = ReleasedMic(T \cup (IF CleansUp(g) THEN {client} ELSE {}))

-----------------------------------------------------------------------------
(***************************************************************************)
(* connect().                                                              *)
(***************************************************************************)
\* Await teardownClient(c), which returns at once for a client torn before.
Await(point, c) == promise' = point /\ awaits' = IF Untorn(c) = {} THEN 0 ELSE c

\* Its disconnect() has resolved: at once for a client that never connected.
Awaited == awaits # 0 => status[awaits] \in {"init", "closed"}

\* Its disconnect() rejects, which teardownClient only logs: the client stays as it
\* is.  Where nobody awaits the disconnect() a rejection changes nothing.
DisconnectRejects ==
  /\ ~Awaited
  /\ awaits' = 0
  /\ UNCHANGED <<guards, client, promise, mine, page, clients, calls>>

\* Take a generation and go and discover the session.
Begin ==
  /\ generation' = generation + 1 /\ current' = generation + 1 /\ mine' = generation + 1
  /\ active' = TRUE
  /\ promise' = "discovering" /\ awaits' = 0

\* connect(), by the button or by createApp's caller.  While one is in flight
\* it returns that promise.
Connect ==
  /\ promise = "idle" /\ generation + 3 <= MaxGeneration
  /\ IF active
     THEN /\ Cleanup(current, Untorn(client)) /\ Teardown(Untorn(client))
          /\ Await("disconnecting", client) /\ UNCHANGED mine
     ELSE Begin /\ UNCHANGED <<page, clients>>
  /\ UNCHANGED <<client, calls>>

\* The old client is gone.
Disconnected ==
  /\ promise = "disconnecting" /\ Awaited
  /\ Begin
  /\ UNCHANGED <<client, page, clients, calls>>

\* The session is known: the client is created and its devices initialised.
Discovered ==
  /\ promise = "discovering"
  /\ client' = mine
  /\ status' = [status EXCEPT ![mine] = "init"]
  /\ promise' = "init"
  /\ UNCHANGED <<guards, mine, awaits, page, capturing, torn, calls>>

DiscoveryFails ==
  /\ promise = "discovering"
  /\ active' = FALSE
  /\ shown' = FALSE /\ mic' = FALSE
  /\ promise' = "idle"
  /\ UNCHANGED <<generation, current, client, mine, awaits, playing, stranded, clients, calls>>

\* initDevices resolves: the microphone is captured, and the client connects.
InitReturns ==
  /\ promise = "init"
  /\ capturing' = capturing \cup {mine}
  /\ status' = [status EXCEPT ![mine] = "connecting"]
  /\ promise' = "connecting"
  /\ UNCHANGED <<guards, client, mine, awaits, page, torn, calls>>

Overtaken == mine # current

\* client.connect() resolves.
ConnectResolves ==
  /\ promise = "connecting" /\ status[mine] \in {"open", "closed"}
  /\ IF Overtaken
     THEN /\ Teardown(Untorn(mine)) /\ Await("leaving", mine)
          /\ capturing' = ReleasedMic(Untorn(mine))
          /\ UNCHANGED page
     ELSE /\ shown' = TRUE /\ mic' = (client \in capturing)
          /\ promise' = "idle"
          /\ UNCHANGED <<clients, awaits, playing, stranded>>
  /\ UNCHANGED <<guards, client, mine, calls>>

\* The teardown of a connect() that was overtaken has returned.
ConnectLeft ==
  /\ promise = "leaving" /\ Awaited
  /\ client' = IF client = mine THEN 0 ELSE client
  /\ promise' = "idle" /\ awaits' = 0
  /\ UNCHANGED <<guards, mine, page, clients, calls>>

\* A client between its connect() and its end.
Live(g) == status[g] \in {"connecting", "open"}

\* initDevices or connect() rejects.
ConnectRejects ==
  /\ promise \in {"init", "connecting"}
  /\ Teardown(Untorn(mine))
  /\ capturing' = ReleasedMic(Untorn(mine))
  /\ Await("failing", mine)
  /\ UNCHANGED <<guards, client, mine, page, calls>>

\* Its teardown has returned.  The generation is not retired and the audio element
\* not cleared: onDisconnected has done both if the client reported it.
ConnectFailed ==
  /\ promise = "failing" /\ Awaited
  /\ client' = IF client = mine THEN 0 ELSE client
  /\ active' = FALSE
  /\ shown' = FALSE /\ mic' = FALSE
  /\ stranded' = stranded \cup {g \in {mine} : g = current /\ Live(g)}
  /\ promise' = "idle" /\ awaits' = 0
  /\ UNCHANGED <<generation, current, mine, playing, clients, calls>>

-----------------------------------------------------------------------------
(***************************************************************************)
(* disconnect(), and what the client reports.                              *)
(***************************************************************************)
Disconnect ==
  /\ CleansUp(current) => generation < MaxGeneration
  /\ Cleanup(current, Untorn(client)) /\ Teardown(Untorn(client))
  /\ UNCHANGED <<client, flight>>

\* The button offers it only while the page shows a connection.
ClickDisconnect == shown /\ Disconnect /\ UNCHANGED calls

\* createApp also returns disconnect to its caller.
CallDisconnect == calls < MaxCalls /\ calls' = calls + 1 /\ Disconnect

\* onConnected.
ClientConnected(g) ==
  /\ status[g] = "connecting"
  /\ status' = [status EXCEPT ![g] = "open"]
  /\ shown' = (shown \/ g = current)
  /\ UNCHANGED <<guards, client, flight, mic, playing, stranded, capturing, torn, calls>>

\* A client is disconnected, by its teardown or by itself: onDisconnected.
ClientDrops(g) ==
  /\ Live(g) /\ (CleansUp(g) => generation < MaxGeneration)
  /\ status' = [status EXCEPT ![g] = "closed"]
  /\ Cleanup(g, {g})
  /\ UNCHANGED torn
  /\ UNCHANGED <<client, flight, calls>>

\* A client torn down before it was connected may also end without a report.
ClosesUnreported(g) ==
  /\ status[g] = "connecting" /\ g \in torn
  /\ status' = [status EXCEPT ![g] = "closed"]
  /\ UNCHANGED <<guards, client, flight, page, capturing, torn, calls>>

\* onTrackStarted; the track may come before onConnected.
TrackStarts(g) ==
  /\ Live(g) /\ g = current
  /\ playing' = g
  /\ UNCHANGED <<guards, client, flight, shown, mic, stranded, clients, calls>>

\* onTrackStopped.
TrackStops(g) ==
  /\ Live(g) /\ g = current /\ playing # 0
  /\ Silenced
  /\ UNCHANGED <<guards, client, flight, shown, mic, stranded, clients, calls>>

\* toggleMic, whose button is enabled while the page shows a connection.
ToggleMic ==
  /\ shown /\ client # 0
  /\ capturing' = IF client \in capturing THEN capturing \ {client} ELSE capturing \cup {client}
  /\ mic' = (client \notin capturing)
  /\ UNCHANGED <<guards, client, flight, shown, playing, stranded, status, torn, calls>>

Init ==
  /\ generation = 0 /\ current = 0 /\ active = FALSE /\ client = 0
  /\ promise = "idle" /\ mine = 0 /\ awaits = 0
  /\ shown = FALSE /\ mic = FALSE /\ playing = 0
  /\ status = [g \in Generations |-> "none"] /\ capturing = {} /\ torn = {}
  /\ calls = 0 /\ stranded = {}

ConnectStep ==
  \/ Disconnected \/ Discovered \/ DiscoveryFails \/ InitReturns
  \/ ConnectResolves \/ ConnectLeft \/ ConnectRejects \/ ConnectFailed

Next ==
  \/ Connect \/ ConnectStep \/ ClickDisconnect \/ CallDisconnect \/ ToggleMic
  \/ DisconnectRejects
  \/ \E g \in Generations :
       \/ ClientConnected(g) \/ ClientDrops(g) \/ ClosesUnreported(g)
       \/ TrackStarts(g) \/ TrackStops(g)

(***************************************************************************)
(* Requests, device prompts, client.connect() and client.disconnect() are  *)
(* answered one way or the other, and client.connect() reports before it   *)
(* resolves.                                                               *)
(***************************************************************************)
Fairness ==
  /\ WF_vars(ConnectStep)
  /\ WF_vars(DisconnectRejects \/ \E g \in {awaits} \ {0} : ClientDrops(g))
  /\ \A g \in Generations : WF_vars(ClientConnected(g))

Spec == Init /\ [][Next]_vars /\ Fairness

-----------------------------------------------------------------------------
(***************************************************************************)
(* Properties.                                                             *)
(***************************************************************************)
\* Every variable has its type, and the guards agree: the active generation
\* is the last one given out.
TypeOK ==
  /\ generation \in 0..MaxGeneration /\ current = generation
  /\ client \in 0..MaxGeneration /\ mine \in 0..MaxGeneration
  /\ active \in BOOLEAN /\ shown \in BOOLEAN /\ mic \in BOOLEAN
  /\ promise \in {"idle", "disconnecting", "discovering", "init", "connecting", "leaving", "failing"}
  /\ awaits \in 0..MaxGeneration
  /\ status \in [Generations -> {"none", "init", "connecting", "open", "closed"}]
  /\ capturing \subseteq Generations /\ torn \subseteq Generations
  /\ stranded \subseteq Generations
  /\ playing \in 0..MaxGeneration /\ calls \in 0..MaxCalls

\* The page shows a connection only while the client it listens to is connected,
\* and plays a live client's audio only if it is that client's: no late onConnected
\* or track, no connect() that was overtaken, and no disconnect() that rejects and
\* leaves the old client live, brings one back.  The exception is a connect() that
\* failed and whose own disconnect() rejected too: its catch block leaves the
\* generation current, so the page goes on listening to the client it let go of.
ShownIsCurrent ==
  /\ shown => \/ active /\ client = current /\ status[client] = "open"
              \/ \E g \in stranded : status[g] # "connecting"
  /\ playing # 0 /\ Live(playing) => \/ active /\ client = current /\ playing = client
                                    \/ playing \in stranded

-----------------------------------------------------------------------------
(* What a comment, a document or a test says, and the code does not do. *)

\* What the comment in connect() says: disconnect() landing in mid-connect is
\* safe even when it already tore this same client down.
TornIsReleased == promise = "idle" => torn \cap capturing = {}
=============================================================================
