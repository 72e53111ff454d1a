----------------------------- MODULE RadioLink -----------------------------
(***************************************************************************)
(* Connecting and disconnecting a radio: RadioService owns the Protocol 1  *)
(* client and the connection status, DspPipelineService the Protocol 2     *)
(* client, the DSP engine and the receive sink.  Every request runs on a   *)
(* thread of its own and nothing serialises requests, so a second one may  *)
(* run between any two steps of the first.  A connect may throw at every   *)
(* step that calls the network, the DSP library or a subscriber.           *)
(***************************************************************************)
EXTENDS Naturals, FiniteSets

CONSTANTS
  Requests,       \* HTTP requests in flight
  MaxClients,     \* bound: protocol clients created in a behaviour
  MaxEngines      \* bound: engines created in a behaviour

ASSUME BoundsAssumption == MaxClients \in Nat /\ MaxEngines \in Nat \ {0}

Clients == 1..MaxClients
Engines == 1..MaxEngines
None == 0

VARIABLES
  pc,            \* where a request is
  mine,          \* the client it works on
  old,           \* the engine it has swapped out and not yet torn down
  client,        \* state of each protocol client
  port1025,      \* the client whose socket holds UDP port 1025, or None
  activeClient,  \* RadioService._activeClient
  p2Active,      \* RadioService._p2Active
  status,        \* StateDto.Status
  p2Client,      \* DspPipelineService._p2Client
  engine,        \* DspPipelineService._engine
  kind,          \* of each engine: "unused", "wdsp", "synthetic", "closed"
  stranded,      \* engines opened by a connect that threw before installing them
  sink,          \* the client the pipeline is attached to: P1 and P2 slot
  sinkAttached,  \* _rxSinkAttached: the display timer is suspended
  leftover,      \* history: a Protocol 1 connect failed after it had attached,
                 \* and none has attached since
  tangled        \* history: a request has started while another one ran, or a
                 \* Protocol 1 request while Protocol 2 was connected, or a
                 \* Protocol 2 connect has thrown after starting its client

request == <<pc, mine, old>>
radio == <<activeClient, p2Active, status>>
pipeline == <<p2Client, engine, kind, stranded, sink, sinkAttached>>
history == <<leftover, tangled>>
vars == <<request, client, port1025, radio, pipeline, history>>

P1Steps == {"p1Open", "p1Connected", "p1Swap", "p1Attach", "p1Replay",
            "p1Catch", "p1Detach", "p1Unswap", "p1TearDown", "p1Disconnected"}
P2Steps == {"p2Bind", "p2Start", "p2Swap", "p2Fallback", "p2Publish",
            "p2Mark", "p2Detach", "p2Stop", "p2Unswap", "p2Unmark"}

Busy(r) == pc[r] # "idle"
Resting == \A r \in Requests : ~Busy(r)
Start(r, clean) == ~Busy(r) /\ tangled' = (tangled \/ ~Resting \/ ~clean)
Goto(r, step) == pc' = [pc EXCEPT ![r] = step]
Fresh == {c \in Clients : client[c] = "unused"
                           /\ \A d \in 1..(c - 1) : client[d] # "unused"}
Unused == {e \in Engines : kind[e] = "unused"
                           /\ \A d \in 1..(e - 1) : kind[d] # "unused"}
SetClient(c, s) == client' = [client EXCEPT ![c] = s]

-----------------------------------------------------------------------------
(* The engine swap: the pointer moves under _engineLock, what it pointed   *)
(* to is torn down afterwards by the request that moved it.                *)

Swap(r, k) ==
  \E e \in Unused :
    /\ kind' = [kind EXCEPT ![e] = k]
    /\ engine' = e
    /\ old' = [old EXCEPT ![r] = engine]

\* Opening or configuring the WDSP engine throws: nobody disposes it.
Strand ==
  \E e \in Unused :
    /\ kind' = [kind EXCEPT ![e] = "wdsp"]
    /\ stranded' = stranded \cup {e}

\* Mutant: the swapped-out engine is looked up again when it is closed.
TearDownCurrent(r) ==
  /\ kind' = [kind EXCEPT ![engine] = "closed"]
  /\ old' = [old EXCEPT ![r] = None]

TearDownOld(r) ==
  /\ kind' = [kind EXCEPT ![old[r]] = "closed"]
  /\ old' = [old EXCEPT ![r] = None]

Attach(slot, c) == sink' = [sink EXCEPT ![slot] = c] /\ sinkAttached' = TRUE
Detach(slot) == sink' = [sink EXCEPT ![slot] = None] /\ sinkAttached' = FALSE

-----------------------------------------------------------------------------
(* Protocol 1: RadioService.ConnectAsync and DisconnectAsync.              *)

\* Refused while a Protocol 1 client is there; Protocol 2 is not looked at.
P1Claim(r) ==
  /\ Start(r, p2Client = None) /\ UNCHANGED leftover
  /\ activeClient = None
  /\ \E c \in Fresh :
       /\ mine' = [mine EXCEPT ![r] = c]
       /\ SetClient(c, "new") /\ activeClient' = c
  /\ status' = "Connecting"
  /\ Goto(r, "p1Open")
  /\ UNCHANGED <<old, port1025, p2Active, pipeline>>

\* Bind and start; a client that was disposed meanwhile throws instead.
P1Open(r) ==
  /\ pc[r] = "p1Open" /\ client[mine[r]] = "new"
  /\ SetClient(mine[r], "running")
  /\ Goto(r, "p1Connected")
  /\ UNCHANGED <<mine, old, port1025, radio, pipeline, history>>

P1Connected(r) ==
  /\ pc[r] = "p1Connected"
  /\ status' = "Connected"
  /\ Goto(r, "p1Swap")
  /\ UNCHANGED <<mine, old, client, port1025, activeClient, p2Active,
                 pipeline, history>>

\* The Connected event: OnRadioConnected of the pipeline.
P1Swap(r) ==
  /\ pc[r] = "p1Swap"
  /\ Swap(r, "wdsp")
  /\ Goto(r, "p1Attach")
  /\ UNCHANGED <<mine, client, port1025, radio, p2Client, stranded, sink,
                 sinkAttached, history>>

P1Attach(r) ==
  /\ pc[r] = "p1Attach"
  /\ TearDownOld(r)
  /\ Attach("p1", mine[r]) /\ leftover' = FALSE
  /\ Goto(r, "p1Replay")
  /\ UNCHANGED <<mine, client, port1025, radio, p2Client, engine, stranded,
                 tangled>>

\* The other subscribers, then the PA settings into the new client.
P1Replay(r) ==
  /\ pc[r] = "p1Replay"
  /\ Goto(r, "idle")
  /\ UNCHANGED <<mine, old, client, port1025, radio, pipeline, history>>

\* The network, the DSP library or a subscriber throws inside the try block.
P1Throws(r) ==
  /\ pc[r] \in {"p1Open", "p1Connected", "p1Swap", "p1Replay"}
  /\ \/ pc[r] = "p1Swap" /\ Strand
     \/ UNCHANGED <<kind, stranded>>
  /\ leftover' = (leftover \/ pc[r] = "p1Replay")
  /\ Goto(r, "p1Catch")
  /\ UNCHANGED <<mine, old, client, port1025, radio, p2Client, engine, sink,
                 sinkAttached, tangled>>

\* A failed connect clears the slot, whoever holds it by now; the pipeline is
\* not told.
P1Catch(r) ==
  /\ pc[r] = "p1Catch"
  /\ activeClient' = None
  /\ SetClient(mine[r], "closed")
  /\ status' = "Error"
  /\ Goto(r, "idle")
  /\ UNCHANGED <<mine, old, port1025, p2Active, pipeline, history>>

P1Release(r) ==
  /\ Start(r, p2Client = None) /\ UNCHANGED leftover
  /\ mine' = [mine EXCEPT ![r] = activeClient]
  /\ activeClient' = None
  /\ Goto(r, IF activeClient = None THEN "p1Disconnected" ELSE "p1Detach")
  /\ UNCHANGED <<old, client, port1025, p2Active, status, pipeline>>

\* The Disconnected event: OnRadioDisconnected of the pipeline.
P1Detach(r) ==
  /\ pc[r] = "p1Detach"
  /\ Detach("p1")
  /\ Goto(r, "p1Unswap")
  /\ UNCHANGED <<mine, old, client, port1025, radio, p2Client, engine, kind,
                 stranded, history>>

P1Unswap(r) ==
  /\ pc[r] = "p1Unswap"
  /\ Swap(r, "synthetic")
  /\ Goto(r, "p1TearDown")
  /\ UNCHANGED <<mine, client, port1025, radio, p2Client, stranded, sink,
                 sinkAttached, history>>

\* Mutant: the client is dropped without being stopped.
P1TearDownRunning(r) ==
  /\ pc[r] = "p1TearDown"
  /\ TearDownOld(r)
  /\ Goto(r, "p1Disconnected")
  /\ UNCHANGED <<mine, client, port1025, radio, p2Client, engine,
                 stranded, sink, sinkAttached, history>>

P1TearDown(r) ==
  /\ pc[r] = "p1TearDown"
  /\ TearDownOld(r)
  /\ SetClient(mine[r], "closed")
  /\ Goto(r, "p1Disconnected")
  /\ UNCHANGED <<mine, port1025, radio, p2Client, engine,
                 stranded, sink, sinkAttached, history>>

P1Disconnected(r) ==
  /\ pc[r] = "p1Disconnected"
  /\ status' = "Disconnected"
  /\ Goto(r, "idle")
  /\ UNCHANGED <<mine, old, client, port1025, activeClient, p2Active,
                 pipeline, history>>

-----------------------------------------------------------------------------
(* Protocol 2: DspPipelineService.ConnectP2Async and DisconnectP2Async.    *)

P2Check(r) ==
  /\ Start(r, TRUE) /\ UNCHANGED leftover
  /\ p2Client = None /\ activeClient = None
  /\ \E c \in Fresh :
       /\ mine' = [mine EXCEPT ![r] = c]
       /\ SetClient(c, "new")
  /\ Goto(r, "p2Bind")
  /\ UNCHANGED <<old, port1025, radio, pipeline>>

\* Two sockets cannot be bound to port 1025: the later connect throws.
P2Bind(r) ==
  /\ pc[r] = "p2Bind"
  /\ \/ port1025 = None /\ port1025' = mine[r] /\ Goto(r, "p2Start")
     \/ port1025 # None /\ Goto(r, "idle") /\ UNCHANGED port1025
  /\ UNCHANGED <<mine, old, client, radio, pipeline, history>>

P2Start(r) ==
  /\ pc[r] = "p2Start"
  /\ SetClient(mine[r], "running")
  /\ Goto(r, "p2Swap")
  /\ UNCHANGED <<mine, old, port1025, radio, pipeline, history>>

\* A send that throws leaves ConnectP2Async; its client is not disposed.
P2StartFails(r) ==
  /\ pc[r] = "p2Start"
  /\ Goto(r, "idle")
  /\ UNCHANGED <<mine, old, client, port1025, radio, pipeline, history>>

P2Swap(r) ==
  /\ pc[r] = "p2Swap"
  /\ Swap(r, "wdsp")
  /\ Goto(r, "p2Publish")
  /\ UNCHANGED <<mine, client, port1025, radio, p2Client, stranded, sink,
                 sinkAttached, history>>

\* WDSP cannot be opened: the synthetic engine takes its place.
P2OpenFails(r) ==
  /\ pc[r] = "p2Swap"
  /\ Strand \/ UNCHANGED <<kind, stranded>>
  /\ Goto(r, "p2Fallback")
  /\ UNCHANGED <<mine, old, client, port1025, radio, p2Client, engine, sink,
                 sinkAttached, history>>

P2Fallback(r) ==
  /\ pc[r] = "p2Fallback"
  /\ Swap(r, "synthetic")
  /\ Goto(r, "p2Publish")
  /\ UNCHANGED <<mine, client, port1025, radio, p2Client, stranded, sink,
                 sinkAttached, history>>

\* No try block around the rest: the client is left running, without an
\* engine of its own or published but neither attached nor marked.
P2Throws(r) ==
  /\ \/ pc[r] = "p2Fallback" /\ UNCHANGED <<old, kind, p2Client>>
     \/ pc[r] = "p2Publish" /\ TearDownOld(r) /\ p2Client' = mine[r]
  /\ Goto(r, "idle") /\ tangled' = TRUE
  /\ UNCHANGED <<mine, client, port1025, radio, engine, stranded, sink,
                 sinkAttached, leftover>>

P2Publish(r) ==
  /\ pc[r] = "p2Publish"
  /\ TearDownOld(r)
  /\ p2Client' = mine[r]
  /\ Attach("p2", mine[r])
  /\ Goto(r, "p2Mark")
  /\ UNCHANGED <<mine, client, port1025, radio, engine, stranded, history>>

P2Mark(r) ==
  /\ pc[r] = "p2Mark"
  /\ p2Active' = TRUE /\ status' = "Connected"
  /\ Goto(r, "idle")
  /\ UNCHANGED <<mine, old, client, port1025, activeClient, pipeline, history>>

P2Release(r) ==
  /\ Start(r, TRUE) /\ p2Client # None /\ UNCHANGED leftover
  /\ mine' = [mine EXCEPT ![r] = p2Client]
  /\ p2Client' = None
  /\ Goto(r, "p2Detach")
  /\ UNCHANGED <<old, client, port1025, radio, engine, kind, stranded,
                 sink, sinkAttached>>

\* Mutant: the receive sink is left to the client's teardown.
P2DetachNothing(r) ==
  /\ pc[r] = "p2Detach"
  /\ Goto(r, "p2Stop")
  /\ UNCHANGED <<mine, old, client, port1025, radio, pipeline, history>>

P2Detach(r) ==
  /\ pc[r] = "p2Detach"
  /\ Detach("p2")
  /\ Goto(r, "p2Stop")
  /\ UNCHANGED <<mine, old, client, port1025, radio, p2Client, engine, kind,
                 stranded, history>>

P2Stop(r) ==
  /\ pc[r] = "p2Stop"
  /\ SetClient(mine[r], "closed")
  /\ port1025' = IF port1025 = mine[r] THEN None ELSE port1025
  /\ Goto(r, "p2Unswap")
  /\ UNCHANGED <<mine, old, radio, pipeline, history>>

P2Unswap(r) ==
  /\ pc[r] = "p2Unswap"
  /\ Swap(r, "synthetic")
  /\ Goto(r, "p2Unmark")
  /\ UNCHANGED <<mine, client, port1025, radio, p2Client, stranded, sink,
                 sinkAttached, history>>

P2Unmark(r) ==
  /\ pc[r] = "p2Unmark"
  /\ TearDownOld(r)
  /\ p2Active' = FALSE /\ status' = "Disconnected"
  /\ Goto(r, "idle")
  /\ UNCHANGED <<mine, client, port1025, activeClient, p2Client, engine,
                 stranded, sink, sinkAttached, history>>

-----------------------------------------------------------------------------
\* The receive loop gives up after repeated timeouts; nobody is told.
RadioVanishes ==
  /\ \E c \in Clients : client[c] = "running" /\ SetClient(c, "silent")
  /\ UNCHANGED <<request, port1025, radio, pipeline, history>>

Init ==
  /\ pc = [r \in Requests |-> "idle"]
  /\ mine = [r \in Requests |-> None] /\ old = [r \in Requests |-> None]
  /\ client = [c \in Clients |-> "unused"]
  /\ port1025 = None
  /\ activeClient = None /\ p2Active = FALSE /\ status = "Disconnected"
  /\ p2Client = None
  /\ engine = 1
  /\ kind = [e \in Engines |-> IF e = 1 THEN "synthetic" ELSE "unused"]
  /\ stranded = {}
  /\ sink = [p1 |-> None, p2 |-> None] /\ sinkAttached = FALSE
  /\ leftover = FALSE /\ tangled = FALSE

P1Next(r) ==
  \/ P1Claim(r) \/ P1Open(r) \/ P1Connected(r) \/ P1Swap(r) \/ P1Attach(r)
  \/ P1Replay(r) \/ P1Throws(r) \/ P1Catch(r)
  \/ P1Release(r) \/ P1Detach(r) \/ P1Unswap(r) \/ P1TearDown(r)
  \/ P1Disconnected(r)

P2Next(r) ==
  \/ P2Check(r) \/ P2Bind(r) \/ P2Start(r) \/ P2StartFails(r) \/ P2Swap(r)
  \/ P2OpenFails(r) \/ P2Fallback(r) \/ P2Publish(r) \/ P2Throws(r) \/ P2Mark(r)
  \/ P2Release(r) \/ P2Detach(r) \/ P2Stop(r) \/ P2Unswap(r) \/ P2Unmark(r)

Next == RadioVanishes \/ \E r \in Requests : P1Next(r) \/ P2Next(r)

Spec == Init /\ [][Next]_vars

-----------------------------------------------------------------------------
Kinds == {"wdsp", "synthetic"}

TypeOK ==
  /\ pc \in [Requests -> {"idle"} \cup P1Steps \cup P2Steps]
  /\ mine \in [Requests -> Clients \cup {None}]
  /\ old \in [Requests -> Engines \cup {None}]
  /\ client \in [Clients -> {"unused", "new", "running", "silent", "closed"}]
  /\ port1025 \in Clients \cup {None}
  /\ activeClient \in Clients \cup {None} /\ p2Active \in BOOLEAN
  /\ status \in {"Disconnected", "Connecting", "Connected", "Error"}
  /\ p2Client \in Clients \cup {None}
  /\ engine \in Engines
  /\ kind \in [Engines -> {"unused", "closed"} \cup Kinds]
  /\ sink \in [p1: Clients \cup {None}, p2: Clients \cup {None}]
  /\ stranded \in SUBSET Engines
  /\ sinkAttached \in BOOLEAN /\ leftover \in BOOLEAN /\ tangled \in BOOLEAN

\* Whatever requests overlap and wherever they throw, the engine the hot path
\* reads is open, and every other open engine is in the hands of exactly one
\* request that will close it, or was opened by a connect that threw before it
\* could install it: no other engine leaks, none is closed twice or under the
\* receiver.
EngineLifecycle ==
  /\ kind[engine] \in Kinds /\ engine \notin stranded
  /\ \A r \in Requests : old[r] # None =>
       kind[old[r]] \in Kinds /\ old[r] # engine /\ old[r] \notin stranded
  /\ \A r, s \in Requests : old[r] = old[s] /\ old[r] # None => r = s
  /\ \A e \in Engines : kind[e] \in Kinds /\ e # engine
                          => e \in stranded \/ \E r \in Requests : old[r] = e

IsConnected == activeClient # None \/ p2Active

\* After requests that came one at a time, a Protocol 1 request never while
\* Protocol 2 was connected, and no Protocol 2 connect that threw after
\* starting its client: status, client, sink and the suspended display timer
\* agree after every connect, refusal, failure and disconnect, of either
\* protocol, in any order.  A Protocol 1 connect that failed after it had
\* attached leaves its sink and engine until the next one has attached.
LinkCoherent ==
  Resting /\ ~tangled =>
    /\ IsConnected = (status = "Connected")
    /\ p2Active = (p2Client # None)
    /\ ~(activeClient # None /\ p2Active)
    /\ activeClient # None =>
         sink.p1 = activeClient /\ sinkAttached /\ kind[engine] = "wdsp"
    /\ p2Active => sink.p2 = p2Client /\ sinkAttached
    /\ ~leftover => /\ sink = [p1 |-> activeClient, p2 |-> p2Client]
                    /\ sinkAttached = IsConnected
                    /\ ~IsConnected => kind[engine] = "synthetic"

\* After the same requests only the current client receives, also after a
\* connect that failed when it had attached.
NoOrphanReceiver ==
  Resting /\ ~tangled => \A c \in Clients : client[c] = "running"
                                  => c \in {activeClient, p2Client}
=============================================================================
