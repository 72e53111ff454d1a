# Verification of the PantheonSDR server

PantheonSDR is an SDR transceiver: a .NET server (`src/src/Zeus.Server.Hosting`
and the libraries beside it) that talks OpenHPSDR Protocol 1 or 2 to a radio,
runs the WDSP engine through P/Invoke, and serves a web client over HTTP, a
WebSocket and TCI.  This directory holds TLA+ specifications of its server-side
logic and of the threads inside the native DSP library, the TLC configurations
that check them on small instances, and proofs that TLAPS checks for all instances.

`PROJECT.json` is the index: components, runs, mutants, the map from definitions
to source lines, the hazards, the findings and the theorems.

## 1. Inventory

| Part | State | Operations | Interacts with |
|---|---|---|---|
| **TxService** | MOX/TUN flags, owner, start times, edge detector under `_sync`; two-tone latch | TrySetMox, TrySetTun, TrySetTwoTone, TryTripForAlert, called from HTTP, TCI, receive thread, CW worker, meter loop | drives RadioService, DspPipelineService and StreamingHub *after* leaving its lock; raises TxActiveChanged |
| **ExternalPttService** | `_owned`, hang timer | rising/falling edge of the radio's PTT line, hang timer, TxActiveChanged, connect/disconnect | TxService (source Hardware) |
| **CwEngine** | job queue, pending count, current abort token | SendAsync, Abort, worker loop, TxActiveChanged | TxService (source Cwx), TxIqRing |
| **TxMetersService** | SWR timer, telemetry averages | 10 Hz loop: 120 s timeout trip, SWR trip | TxService trips |
| **TxTuneDriver, TxAudioIngest** | TX pump, mic ring | poll TUN/two-tone; mic blocks to TXA | TxService, engine, TxIqRing |
| **WdspDspEngine** | MOX, monitor, `_txaRunning`, zoom, PureSignal mode, one lock for each | SetMox, SetTxMonitorEnabled, ProcessTxBlock, SetZoom, TryGetDisplayPixels, SetPs*, ResetPs, RestorePsCorrection | WDSP through P/Invoke; called by the pipeline, the pumps, the receivers' workers |
| **WDSP channel** (channel.c, iobuffs.c, main.c) | two rings, three semaphores, ramps, on/exchange/flush bits, two critical sections | fexchange0/2 on the caller's thread, the DSP thread, the flush thread, SetChannelState | one per receiver and one for TX |
| **WDSP PureSignal** (calcc.c, iqc.c) | state machine of ten states, requests, fit under way, correcting stage with its ramps | pscc per feedback block; threads for fit, turn-off and restore; SetPSControl, SetPSMox, SetPSIntsAndSpi | TXA chain, engine |
| **WDSP analyzer** (analyzer.c) | sample ring, three pixel buffers per output, stop flags | Spectrum0, dispatcher, FFT workers, GetPixels, SetAnalyzer | engine under AnalyzerLock, its own threads without |
| **RadioService** | StateDto, active client, P2 flag, auto-attenuator, dirty flag | connect, disconnect, tune, mode, attenuator, auto-ATT/AGC loops, PA recompute, flush | Protocol clients, stores, StateChanged subscribers |
| **DspPipelineService** | current engine, channel, RX sink, P2 client, change-detect caches | engine swap, P2 connect/disconnect, state push, tick | engine, clients, hub |
| **StreamingHub** | clients with bounded queues, cached wisdom status, drop counters | attach, broadcast, send loop, receive and reassembly | every producer of frames |
| **Protocol 1 / 2 clients** | sequence numbers, command rotation, MOX bit, telemetry | start/stop, RX loop, TX loop | UDP |
| **Rings** (TxIqRing, RxCodecAudioRing, SpscRing, FloatSpscRing) | head, tail, count | write (drop-oldest or partial), read, clear | audio and TX threads |
| **RadioSession, allocator, coordinator, RX2 pipelines** | attached devices and roles, WDSP channels | attach, detach, MOX lockout, frequency follow | device drivers, WDSP |
| **Plugins** (manager, audio chain, chain order) | active plugins, eight slots, canonical order | activate, deactivate, insert, reorder, process | endpoints, audio bridge |
| **TCI server** | sessions, rate limiter, spots | ASCII commands, binary streams | TxService, RadioService |
| **PureSignal auto-attenuate, frequency calibration, rotator, QRZ, stores, band plan** | per service | see section 6 | RadioService |
| **Web and mobile clients, installers, vendored DSP** | not server logic | | |

Hard behaviours: keying requests of independent threads whose consequences are
applied off the lock; events raised off the lock and so out of order; a radio
that disappears while keyed; awaits between a check and the assignment it
guards; bounded queues that drop; rings written and cleared by threads that the
single-producer single-consumer contract does not know of; DSP threads that a
flush, a reconfiguration or a forced shutdown reaches in the middle of a block;
waits with a timeout after which the code goes on as if they had been answered.

For each part, what makes it correct:

* **TxService** - MOX and TUN exclude each other; MOX has an owner exactly while
  it is on and only the owner, the operator or a protection takes it down; every
  keyed flag has a start time for the watchdog; what is driven off the lock ends
  up agreeing with the flags.
* **ExternalPttService** - the claim is the carrier; a held key keeps its carrier;
  a released key ends it; nobody else's MOX is dropped.
* **CwEngine** - every accepted text is played or dropped; no symbol outside MOX;
  MOX given back after the last one; an abort stops what was accepted before it.
* **TxMetersService** - a bounded carrier, a bounded bad match, and no trip for
  what an earlier transmission did.
* **RadioService / DspPipelineService links** - client, status, engine, sink and
  display timer agree; engines are closed exactly once and never in use; no
  receiver is left behind.
* **WDSP channel** - semaphores and rings tell the same story, a transmission starts
  with empty rings, a caller always gets its block back, the latency never drifts.
* **PureSignal** - state machine and correcting stage agree on whether the signal is
  predistorted, nobody's ramp is replaced, a fit uses one key-down, and off is off.
* **Analyzer** - a frame is read whole, never older than the one before, never of
  another zoom.
* **StreamingHub** - order per client, bounded memory, a late joiner ends with
  the newest state; **RadioSession** - at most one primary, channels neither
  leaked nor shared; **plugins** - slots and canonical order agree, nothing is
  leaked by a racing shutdown; **rings** - FIFO up to what was dropped on purpose.

## 2. Modules

| Module | Models | Composes |
|---|---|---|
| `TxKeying` | `TxService.cs`, and what it drives in `RadioService`, `DspPipelineService` and the hub | |
| `TxKeyingProofs` | theorems about it | `TxKeying` |
| `ExternalPtt` | `ExternalPttService.cs`, the PTT edge of the receive thread | `TxKeying` |
| `ExternalPttProofs` | theorems about it | `ExternalPtt`, `TxKeyingProofs` |
| `CwEngine` | `CwEngine.cs` | `TxKeying` |
| `CwEngineProofs` | theorems about it | `CwEngine`, `TxKeyingProofs` |
| `TxProtection` | the two trips of `TxMetersService.cs` in time | |
| `TxProtectionProofs` | theorems about it | `TxProtection` |
| `RadioLink` | connect and disconnect in `RadioService.cs` and `DspPipelineService.cs` | |
| `RadioLinkProofs` | theorems about it | `RadioLink` |
| `WdspChannel` | one channel of WDSP: callers, DSP thread, flush thread, SetChannelState | |
| `LatencyPipe` | the abstract specification of a channel: a pipe of fixed latency | |
| `TxaDrive` | SetMox, SetTxMonitorEnabled and the pumps over the TX channel | `WdspChannel`; implements `LatencyPipe` |
| `TxaDriveProofs` | theorems about it | `TxaDrive` |
| `Calcc` | PureSignal's state machine, its threads, the correcting stage | |
| `PureSignal` | the engine's calls, keying and the change of resolution | `Calcc` |
| `PureSignalProofs` | theorems about it | `PureSignal` |
| `Analyzer` | one spectrum analyzer of WDSP | |
| `StreamingHub` | joining, priming, bounded queues, wisdom and display broadcasts | |
| `DisplayPath` | samples to pixels to clients: the receiver's feed, Tick, SetZoom | `Analyzer`, `StreamingHub` |
| `DisplayPathProofs` | theorems about it | `DisplayPath` |
| `MC*` | instances for TLC: symmetry sets, the bounded specifications of `ptt`, `link` and `display` | the module they are named after |

### TxKeying

A call of `TrySetMox`, `TrySetTun`, `TrySetTwoTone` or `TryTripForAlert` is three
kinds of steps of one thread `c`:

1. `Enter` or `Refuse`: the interlocks the code evaluates before the lock ("not
   connected", band guard).  `call[c]` holds the request.  The band guard is a
   choice: it depends on VFO, mode and region, which change independently.
2. one action per path through the lock: `MoxNoOp`, `MoxForeign`, `MoxKey`,
   `MoxUnkey`, `TunNoOp`, `TunKey`, `TunUnkey`, `TwoToneArm`, `TwoToneDisarm`,
   `Trip`.  Flags, owner, start times and edge detector change in one step.
3. `Effect`, once for every call the code makes after it has left the lock.
   `todo[c]` is the list of them, in the order of the source (`MoxEffects`,
   `TunEffects`, `TwoToneOnEffects`, `TwoToneOffEffects`, `TripEffects`), and
   every one is a step: other threads run between any two.

`hw` is what the effects drive, one line per receiver of a call: the engine's
MOX and tune generator, `RadioService._mox`, the MOX bit of the live client
(`wireMox`), the drive source, the two-tone latch and generator.  `heard` and
`shown` are the last notification and the last frame.

`link` is how far a connect or a disconnect has come.  Client and engine appear one
after the other, each unkeyed, and `TxService` is told of neither.  Protocol 1
publishes its client before it has connected (`P1Open`, RadioService.cs:457), swaps
the engine at the Connected event (`P1Swap`), and then tells the other subscribers
(`P1Tell`, `P1Up`); a throw anywhere in between is `P1Fail`.  On the way down it
forgets the client (`P1Drop`), swaps the engine (`P1Detach`), tells the others
(`P1Untell`) and stops the client (`P1Close`).  Protocol 2 swaps the engine first
(`P2Swap`) and has a client of its own (`P2Attach`) before it counts as connected
(`P2Up`); `P2Drop .. P2Down` undo it.  `Wired` says whether a key-down reaches a client,
`Connected` what the interlock sees; they are not the same, and calls run between
any two of these steps.  One connect or disconnect runs at a time here; requests
that overlap are `RadioLink`'s.

Time is reduced to "null / recent / overdue" for the start times: which of
them are set is what the properties need; the arithmetic is in `TxProtection`.

### ExternalPtt

The receive thread handles one edge at a time (`Rising`, `Gate`, `Claim`,
`KeyMox`, `Keyed`; `Falling`), the timer callback runs on a pool thread
(`HangFires`, `HangLooks`, `HangTakes`, `HangReleases`, `HangDone`), and the
claim is dropped on whichever thread raises `TxActiveChanged(false)` (`Hears`,
conjoined with the raising effect of `TxKeying`).  The receive thread reports edges
as long as its client runs; the service hears them from `OnConnected` to
`OnDisconnected` only, so that an edge may be `Unheard`, and after a connect that
failed it keeps a dead client with the level that one reported last (`client`).  At
most one hang callback runs at a time in the model; with a 250 ms window and a callback of
microseconds two of them would need a stalled pool thread.  That a radio may
echo the host's own MOX on its PTT line is a property of the hardware and is not
modelled: the line moves freely.

### CwEngine

`Count` and `Write` are the two halves of `SendAsync`; `WriteCancelled` is a
request whose token is cancelled between them.  `AbortBegins .. AbortCancels`
drains job by job and then cancels the token.  The worker goes through
`Dequeue`, `Uncount`, `Arm` (the token is published), `Key`, `Keyed`, then
alternates `Looks` (the token) and `WriteChunk`, and leaves through `Finish` or
`GiveUp` and `Release`.  Symbols, samples, the LO alignment before keying and
the status broadcasts are left out.

### TxProtection

One unit of time is 100 ms.  `Tick` and `Oversleep` let time pass; one iteration
of the loop is `Wake`, `TimeoutTrips`, `LookIdle`/`LookKeyed`, `Judge`,
`SwrTrips`, between any two of which an operator may key, preempt or unkey.
The SWR is one of three classes: below 2.5, between 2.5 and 6, above 6.  Meter
smoothing and the 2 W floor are upstream of it.  `carrier` and `bad` are
stop watches of the model that the loop does not see.

### RadioLink

Every step that a request takes without a lock is an action; `pc[r]` is where a request
is, `mine[r]` the client it works on, `old[r]` the engine it has swapped out.
`ConnectAsync` and `DisconnectAsync` of `RadioService` (P1) raise events that
`DspPipelineService` handles on the same thread (`P1Swap .. P1Attach`, `P1Detach ..
P1TearDown`); P2 is the pipeline's own.  Failures: a Protocol 1 connect throws wherever
it calls the network, the DSP library or a subscriber (`P1Throws`), up to the replay of
the PA settings with engine and sink installed, and its catch clears slot and client
only (`P1Catch`); an engine opened by a connect that throws is disposed by nobody
(`Strand`); Protocol 2 falls back to the synthetic engine (`P2OpenFails`, `P2Fallback`)
and has no catch behind the start of its client (`P2Throws`); a radio falls silent
(`RadioVanishes`).  The settings replayed into a new client or channel are left out.

### WdspChannel and TxaDrive

Amounts are counted in blocks of the caller; a ring is its fill.  A caller goes
through `Admit` (the exchange bit, read before the lock), `Put` (csEXCH), `Take`
(the wait for Sem_OutReady), `Give` or `Slew` (out of csEXCH).  The DSP thread goes
through `DspWake`, `DspEnter` (csDSP), `DspOut`, `DspIn`: `dexchange` posts
Sem_OutReady between the two.  The flush thread takes both locks (`FlushWake`,
`FlushEnter`, `Flush`, `FlushDone`).  The critical sections are the positions of
their holders.  `SetChannelState` is a step per interlocked operation, with the
100 ms wait as a choice between `OffFlushed` and `OffTimeout`.  In `TxaDrive` `SetMox`
and `SetTxMonitorEnabled` are two controllers, `kpc` is where each is.  Closing
and rebuilding the channel is left out.

### LatencyPipe

What a caller may rely on: `Accept` one block, `Deliver` one block, with `Latency`
blocks inside between calls.  `TxaDrive` maps it with `flight <- InFlight`, the two
fills without the block that `dexchange` has answered for and not yet fetched.

### Calcc and PureSignal

A feedback block is one step (`pscc`, one disjunct per path through the switch of
calcc.c), for it holds cs_update; the threads for fit, turn-off and restore do
not, and each is four to six steps.  Ramps end through samples only (`xiqc`).
How many intervals are filled, how long the delays last and whether a fit is good
are choices.  The engine's calls hold `_psLock` throughout, which matters: no
feedback is processed inside `SetPsEnabled(false)` or `SetPSIntsAndSpi`.

### Analyzer, StreamingHub and DisplayPath

One LO, one span, one of two pixel outputs.  The dispatcher is `Dispatch`, `Join`,
`Advance`, `Retire`; a worker is `Transform`, `Write`, `Written`,
`Publish`, `Mark`; the reader
is `Pick`, `BeginRead`, `EndRead`; `SetAnalyzer` is `SetEnd`, `SetStop`, `SetAnew`.
A frame is its number and the configuration it was made for.  The hub's queue
holds display frames and wisdom frames; serialisation, the other kinds of frame
(queued the same way) and the uplink are left out.  AnalyzerLock is `lock`.
The phase of the FFT planning is broadcast from two threads without a common lock:
the one that plans (`SetPhase`) and the one that polls the status (`PollStatus`,
`StatusChanged`).  Each caches the phase it carries in the hub (`SetWisdomPhase`) and
queues it for every client (`Announce`), and the two may cross.

### History variables

`lastOp`, `upset` and `torn` (TxKeying), `raced`, `shared` and `missed` (ExternalPtt),
`doomed`, `survived`, `lost` and `spill` (CwEngine), `carrier`, `bad` and `rearmed`
(TxProtection), `leftover`, `tangled` and `stranded` (RadioLink), `disturbed` and
`timedOut` (WdspChannel), `unkeyed` and `raced` (Calcc), `spoilt` and `got` (display),
`missed` and `crossed` (StreamingHub) only record what has happened.  No action
reads them to decide anything.  Where a property holds except after a particular
kind of event, the event stays in the model, the history variable marks it, and
section 5 says what happens then.

## 3. Runs

| Run | Instance | Shows | Distinct states |
|---|---|---|---|
| `keying_race` | 2 threads, all four operations, 3 sources, a P2 connect step by step | flags, owner, start times and edge detector consistent under every interleaving; no foreign takeover | 2.0 M |
| `keying_serial` | 1 thread, all operations, 3 sources, both protocols, every step of connects, failed connects and disconnects | until `upset`, after every call everything driven agrees with the flags; engine before wire unless the link moved under the call; no carrier in use that the watchdog cannot see | 37 k |
| `ptt` | receive thread, hang callback and an operator; P1 connects, failed connects and disconnects step by step as long as the operator keeps out | claim = carrier, a held key keeps its carrier unless refused or missed, a released key ends it; the hang callback leaves others' MOX alone | 0.4 M |
| `cw_play` | worker and operator, 2 texts of 2 chunks, 1 abort, 1 cancelled request | depth counter exact, uncancelled jobs only under the MOX flag, at most one chunk after a cancel, MOX not left with CW, queue drains | 0.5 M |
| `protect` | timeout of 2 s, loop up to 100 ms late | bounded carrier, bounded bad match, trips only for the transmission that is on | 0.1 M |
| `link` | 3 requests, 6 engines, 3 clients (2 once requests have overlapped), both protocols, throws at every step that can | engine lifecycle under any overlap; until `tangled`, agreement after every request and no receiver left behind | 0.5 M |
| `txa` | 1 pump, keying and monitor one after the other, ratio 1, ramp of 2 blocks | semaphores tell the truth about rings, a transmission starts clean, the pump is never wedged; implements `LatencyPipe` | 0.2 M |
| `puresig` | modes off and auto, all calls, up to a race window | state machine and correcting stage agree at rest, ramps are not replaced, one key-down per fit, off ends the correction while the signal flows | 1.0 M |
| `display` | 1 worker, 3 frames, 1 change of zoom, 1 client with a queue of 4; the phases Building and Ready from two threads, once the frames are made | books of the analyzer, frames whole and in order; a client that stays learns of the newest phase unless the announcers cross | 0.4 M |
| `keying_v_trip`, `ptt_v_claim`, `cw_v_abort` | smallest that shows it | disagreements with the source's comments, section 5 | |

Why the bounds are enough:

* *Two threads.*  The flags change in single critical sections, so any history
  of the flags is a sequence of them, which one thread can produce as well; the
  second thread adds every interleaving of effects.  `TxKeyingProofs` removes
  the bound for the flags, `ExternalPttProofs` and `CwEngineProofs` for the services
  that call.
* *Three sources*: the operator and two others, so that a source may own, and
  another may try to release.
* *Two texts*: one playing while one waits.  *Two chunks*: one that may be
  written after a cancel and one that may not.  One abort may fall anywhere.
* *A timeout of 20 units* is longer than grace, sustain and the idle sleep
  together, so that all of them can happen inside a transmission.
* *Three requests, three clients, six engines*: a connect and a disconnect
  that race a third one, with one failed or orphaned client.  Once requests have overlapped
  the third client stays unused (`FewClients`): what is claimed there is about engines, of
  which `RadioLinkProofs` proves it without a bound.  A behaviour ends
  when clients or engines are used up, which is why deadlock is not checked
  there and in `cw_v_abort`, whose only text ends.
* *One pump in `txa`* (`Callers`): csEXCH admits one caller at a time.  With two
  pumps the same properties hold over 0.9 M states, but take TLC five minutes;
  `TxaDriveProofs` removes the bound for every safety property.  *Ratio 1, two ramp blocks*:
  a ramp that can be interrupted between its blocks.  `FlushMax = 1` is the maximum
  of Sem_Flush on Windows; on Linux there is none (linux_port.c), which the proofs
  cover: they hold for every maximum.  `Overlap = FALSE` is a bound on the calls, not a
  lock of the code: `TypeCorrect` and `Implements` do without it, section 5 says what an
  overlap does to the rest.
* *`SemMax = 1`, one zero block* in `puresig`: the semaphores of Windows; the zero
  blocks only advance the state machine, which other blocks do as well.  The mode
  "single" adds no state of the threads; with it the safety properties hold over
  1.6 M states.  `BeforeTheWindow` stops exploring behind the windows of section 5:
  nothing is claimed there.
* *The operator in `ptt`* (`SharedStaysUp`): claim and carrier are compared only while the
  key is alone, and the hang callback is the same whatever the link has done before, so
  the operator comes in a first connection that stays up.  `ExternalPttProofs` does
  without this bound.
* *The planning in `display`* (`PlanningLast`): analyzer and hub share nothing but Tick,
  so the phases are announced when the analyzer stands still; Tick goes on to broadcast
  display frames, which compete with the phases for the queue.  *Three frames* go once
  round the three pixel buffers, so that the writer meets the reader; *an FFT of two
  blocks with an advance of one* overlaps spans and fills the write-ahead; *a queue of
  four* is the code's.
  `Joined = FALSE` with one worker: the dispatcher does not wait for the work, as on
  Windows, and the behaviours of linux_port.c, where it does, are among them.

Each property of a passing run has a mutant of a mapped definition (comments
"Mutant:" in the modules) that makes TLC find it violated.

Fairness.  `PttFairness` and `FairCwSpec` assume that a thread with work to do runs and
that the operating system fires an armed timer: weak fairness of the receive thread's
handler, the callback, the worker, an abort that has begun, a send that has counted, and
the effects of each thread.  Nobody is obliged to press or release a key, to send or
abort, and the link need not come back; a teardown that has begun goes on, for its waits
are bounded (`TearDown`, Protocol1Client.cs:508-513). `TxaDrive` has weak fairness of
the threads of WDSP and of a call that has begun, not of the pumps' decision to feed.
`PureSignal` has weak fairness of its threads and of its engine calls, and of nothing
else: TXA is pumped by microphone PCM or by the test generators, and a transmission of
CW or by hardware PTT may have neither. Without samples no ramp ends, so `OffEnds` has
the flow of samples and feedback while keyed as its hypothesis (`SignalFlows`).  It is
about a mode switched off in mid-transmission, which the pipeline defers
(DspPipelineService.cs:646) and PsAutoAttenuateService does not (lines 514, 645).
`DisplayPath` has weak fairness of dispatcher, workers, a change of zoom that has begun,
Tick, and each client's priming and sending: a client that stays reads its socket.  The
planning of the FFTs, once begun, returns, for it is a finite computation, and an
announcement that has begun goes through.  No receiver has to deliver samples.

## 4. Proofs

TLAPS checks the theorems below for every value of the constants that the named
assumptions of the modules allow: any set of callers, sources, requests, workers or
clients, any subset of operations, any bound.  Every safety and action property of
a passing run is stated by one of them; where a theorem has a hypothesis, it is the
instance of the run, and what happens without it is said here or in section 5.

### Keying (`TxKeyingProofs`)

For every set of callers:

* `TypeCorrect`: `Spec => []TypeOK`.  The work is in the effects: `todo[c]` is a
  sequence of typed effects on every path (`MoxEffectsType` .. `TripEffectsType`)
  and `Head` of it a typed effect (`EffectType`).
* `KeyingSafe`: `Spec => []KeyInv`, where `KeyInv` is mutual exclusion, owner iff
  MOX, start time iff flag, and edge detector equal to the combined state.  With
  `TypeOK` it is inductive: flags change only in `Lock`, one case per path
  (`LockKeyInv`); every other action leaves them alone.  The parts need each
  other: an unkey of TUN keeps the edge detector right only because TUN was on,
  which mutual exclusion turns into "MOX is off".
* `OwnerKept`: `Spec => NoForeignTakeover`, the action property about ownership,
  from the same invariant: only the paths through the lock write the owner
  (`LockTakeover`), and `MoxForeign` is the one a stranger's request takes.

For one caller (`Callers = {d}`), which may ask for anything in any order while the
steps of connects, failed connects and disconnects fall between those of its calls.
`SettledAgreement` is claimed until a two-tone test was used or a step of the link
fell on a keyed transmitter or on a call under way (`upset`), `EngineBeforeWire`
for calls under which the link has not moved (`torn`), `NoUnwatchedCarrier` always:

* `SettledWhenAlone` (`SettledAgreement`), `WatchedWhenAlone` (`NoUnwatchedCarrier`)
  and `EngineFirstWhenAlone` (`EngineBeforeWire`).  The invariant cannot say that the
  lines agree with the flags, for between the lock and the last effect they do not.
  It says what the list in hand *owes*: applied to the lines as they are now, it
  leaves each at its goal (`Owes`; `WireInv` for the wire alone, which needs no
  agreement of the rest and so holds through two-tone tests and every step of the
  link: a client starts unkeyed, and what is keyed is keyed by a flag).  `Told`
  is the meaning of a list for one line - its last word about it, or silence and the
  line as it is - and composes (`Join`).  So the proof has two halves: every path
  through the lock leaves a list that owes nothing more (`MoxTold` .. `TripTold`,
  `LockTells`), and applying the head of a list leaves its tail owing what it owed.
  `EngineFirstWhenAlone` uses `Primed` in the same way: in every list a key-down of the
  wire comes after one of the engine.  With two callers the lists interleave and the
  last word of one may be undone by the other: all three fail (`keying_v_trip`).

### Hardware PTT (`ExternalPttProofs`)

* `PttThroughTxService`: `PttSpec => Spec`: on the variables of `TxKeying` the module
  takes only its steps, so that all of the above holds under it.
* `PttTypeCorrect`: `PttSpec => []PttTypeOK`.
* `HangKeepsForeignMox`: `PttSpec => HangReleasesOnlyOwnMox`, for any other callers and
  in every race window.  `ThreadInv` says which requests the two threads of the service
  may have under way; the release carries the source Hardware, and `OwnerKept` does
  the rest.
* `ClaimIsCarrier` (`ClaimMatchesCarrier`) and `HeldKeyTransmits` (`HeldKeyKeepsMox`).
  Both properties are about the MOX bit on the wire, and speak of histories in which
  nobody else has used the transmitter (`~shared`) and no press has met a hang
  callback (`~raced`); others and races take their steps in the model, and the
  invariant is guarded accordingly.  `HeldKeyKeepsMox` excepts a key-down that was
  refused and a press that was missed (`missed`: nobody was subscribed to the client,
  or MOX was still on over the unkeyed wire of a new one), `ClaimMatchesCarrier` what a
  connect that failed after it had been announced leaves to a dead client (`Orphaned`).
  `SoleInv` is `AloneInv` (nobody else is in a call, the lists in hand only key or only
  unkey), `LinkInv` and `UnlinkedInv` (what the stages of the link say of subscription,
  line, receive thread and claim: without a client a claim belongs to a key-down that
  has been refused), `OrderInv` (the two threads work on the claim in turn) and
  `ClaimInv` (claim, flag and carrier at each place of the two threads).  The last one
  is needed at every place: the claim is taken before the key-down is asked for and
  dropped before the release is, so that claim and carrier differ in between.

### CW (`CwEngineProofs`)

* `KeysThroughTxService`: `CwSpec => Spec`, and `CwTypeCorrect`: `CwSpec => []CwTypeOK`.
* `EveryJobCounted` (`PendingCounts`): the depth counter is what waits plus what is on
  its way in or out, for any number of jobs, aborts and cancelled requests.  `QueueInv`
  adds the types of the queue.
* `StopsAtOnce` (`OneChunkAfterCancel`): `SpillInv` says that a chunk begun by a job that
  looked in time is the only one that can follow a cancel, `TokenInv` where a token is out.
* `NothingLeftKeyed` (`NoCwCarrierLeft`), whatever other callers and the link do.
  `CallerInv`: only the worker calls as Cwx, and only where it waits for its call.
  `HeldInv`: MOX is Cwx's from the key-down that succeeded to the release that returned.
* `PlaysOnAir`: with all calls returned, a job that plays and is not cancelled plays
  while `TxService` has MOX or TUN on, for every set of other callers and operations:
  whatever clears the flags reaches the job.  Flags, not the wire; section 5.  `OnAirInv`:
  a playing job is cancelled, or the last edge heard was a rising one, or a falling
  edge is still in somebody's list and will cancel it.  `PlaysKeyedByMox`
  (`PlaysUnderMox`) is the same where TUN is not in use; with TUN it is false
  (section 5).

### Protection (`TxProtectionProofs`)

For every timeout longer than the idle sleep and every bound on how late the loop
wakes (`TimingAssumption`):

* `TypeCorrect`: `Spec => []TypeOK`.
* `TransmissionsEnd`: `Spec => []CarrierBounded`.  The bound alone is not
  inductive, for nothing in it says that the loop will look in time.  `WatchInv`
  adds where the loop is: past its look at the timeout, what is keyed is younger
  than the timeout, and while the loop sleeps, age and rest of the sleep exceed
  the timeout by no more than the loop has overslept so far.  A key that goes
  down during the sleep starts at age 0 with at most `IdleTick` to go: this is
  where the assumption that the timeout is longer than the idle sleep is used.
* `BadMatchEnds`: `Spec => []SwrTripInTime`.  `SwrInv` relates the stop watch of the model
  to the loop's own: before its sustain window runs, a bad match has been there for
  at most the idle sleep or grace and one late look (`Onset`); once it runs, it is
  younger than the bad match by at most that.
* `TripsForItsOwn`: `Punctual` `=>` `TripWithinOneTransmission`.  `OwnTripInv`: the
  sustain window that runs has begun after the grace window of what is keyed, or what is
  keyed is so young that the next look finds it in its grace window and forgets the
  sustain window.  `Punctual` (at most 100 ms late) is needed for the second: section 5.

### Links (`RadioLinkProofs`)

* `TypeCorrect`, and `EnginesAccountedFor` (`EngineLifecycle`), whatever requests
  overlap and wherever they throw: the engine in use is open, every other one is closed,
  in the hands of exactly one request, or one of the `stranded`, opened by a connect
  that threw before it installed it (`EngineInv`; `Held` are the places where a request
  has one).
* `LinkAgrees` (`LinkCoherent`) and `NobodyElseReceives` (`NoOrphanReceiver`), until
  `tangled`: two requests have overlapped, a Protocol 1 request has come while Protocol 2
  was connected (nothing refuses it), or a Protocol 2 connect has thrown after starting
  its client.  What a Protocol 1 connect that failed after it had attached leaves, its
  sink and its engine, is excepted until the next one attaches (`leftover`).  `LinkInv`
  is `Coherent` at rest, and during a request one clause for each place it can be at
  (`P1Phase`, `P2Phase`), which says which of client, status, sink, timer and engine
  have been brought up or down so far.

### TX channel (`TxaDriveProofs`)

For every set of pumps, every ratio of block sizes, every ramp and every maximum
of Sem_Flush:

* `Implements`: `Spec => ImplementsPipe`, the refinement of `LatencyPipe`, for overlapping
  calls and in every race window.  Every
  step of pumps, DSP thread, flush thread and switches accepts a block, delivers
  one or leaves the pipe alone.  The invariant is `PipeInv`: at most one caller is
  inside csEXCH, the flush is not past csDSP while the DSP thread is, and what is
  in flight is the latency, plus one while a caller is inside.  The first two are
  needed for the third: a flush over a half exchanged block, or two callers inside,
  would lose or gain a block for good.  The mutant `FlushUnlocked` does.
* `TypeCorrect`: `Spec => []TxaTypeOK`, overlapping calls included.
* With calls that do not overlap (`~Overlap`; the calls share no lock, section 5 says
  what an overlap does): `CleanStart` (`ComesUpClean`), `BooksAgree` (`RingBooks`) and
  `RingsStayInBounds` (`RingsHold`, which lets the input ring hold a block too many
  between the two halves of `dexchange`), all until a race window is hit.  They share one
  invariant, `DriveInv`.  `CallInv` says where a call is and what the channel's state
  then has to do with what is wanted of it.  `QuietInv` says, until a race window is
  hit, that a flush which is due means a channel that is off and takes nothing, and
  that what a flush leaves behind (`Clean`) stays until the channel is turned on.
  `BooksInv` is the arithmetic: blocks queued or being fetched (`Pending`) and blocks
  promised to a caller (`Owed`) against the fill of each ring.  The books need the
  quiet, for a flush moves rings and semaphores in steps of another thread, and the
  quiet needs the calls.

### PureSignal (`PureSignalProofs`)

For every maximum of the semaphores, number of zero blocks and set of modes:

* `TypeCorrect`: `Spec => []PsTypeOK`; no third bad fit gets on the books.
* `OneKeyDown`: `Spec => FitFromOneKeyDown`, in every race window.  `CollectInv`: while
  samples are collected, solidmox stays up after an un-key only until
  `SetPSMox(0)` has cleared it, and mox is down meanwhile.
* `Agreement` (`CorrectionAgrees`) and `RampsCarriedOut` (`OneRamp`), until a race
  window of section 5 is hit (`raced`: a restore against a turn-off, a forced shutdown).
  `StageInv` has one part per question: one fit at a time (`FitInv`), one turn-off at a
  time (`EndInv`), one owner of the ramp (`OwnerInv`), the stage is where its owner is
  (`StartInv`, `FinishInv`), what `running` says of the stage (`TruthInv`), and a forced
  shutdown finds nothing under way (`ForceInv`).  None is inductive by itself: that a
  fit which starts its ramp is the only owner follows from the turn-off having been
  noted, which follows from there being one at a time.

### Display (`DisplayPathProofs`)

For every number of frames, changes of zoom and clients and every size of transform:

* `WholeFrames`: `Spec => WholeAndForward`, provided that work items run one at a time
  (`OneAtATime`: joined, as in linux_port.c, or a pool of one).  Its invariant
  `FrameInv` says that either nothing has been published in this configuration (`Blank`)
  or the writer's buffer is neither the last published one nor the reader's (`Apart`);
  that a worker who writes or has written does so in the writer's buffer, which needs
  `Alone`; and that neither the reader's nor the last buffer is older than what was
  read. `Publish` keeps `Apart` because of three buffers one is always left
  (`Rotation`); `SetAnew` restores `Blank` because the workers are out and AnalyzerLock
  keeps the reader out.  With two work items at a time `Alone` fails, and the property
  with it (section 5).
* `BooksAgree`: `Spec => []AnalyzerBooks`, for any number of work items at a time.
  `SampleInv`: what the dispatcher has taken is there until it advances, and it is out
  before everything starts over; `RingInv`: until the first frame of a configuration
  nothing is ready or about to be; `QueueInv`: the hub's queues keep their bound.

### Only model-checked

The liveness properties `KeyReleaseEndsTx`, `QueueDrains`, `CallReturns`, `OffEnds` and
`WisdomArrives`: liveness under fairness and `ENABLED` are out of the prover's reach.
The three violation runs are counterexamples.  Induction over data is out of reach as
well, and nothing here needs it: no module has a recursive operator, and what the
lists of effects do is proved from their concatenation (`Join`).

## 5. Divergences found while modelling

Three are shown by runs.

* **A trip does not always win** (`keying_v_trip`; TxService.cs:412 "Trip always
  wins regardless of owner").  Thread A keys MOX, leaves the lock, and stops
  before `SetMox(true)`.  Thread B trips: flags cleared, engine and radio set to
  false.  A goes on: the radio transmits with no owner and no start time, and
  the watchdog, which reads the start times, never sees it.
* **The PTT claim can be lost** (`ptt_v_claim`; ExternalPttService.cs:59 "True iff
  the most recent MOX-on we caused has not been released yet").  The hang
  callback has looked at the line (low); the key goes down, claims and is about
  to key; the callback takes that claim and releases a MOX that is not on yet;
  the key-down follows.  MOX is on, `_owned` is false, and when the key is let
  go the callback does nothing: the transmitter stays on until the timeout.
* **Abort can miss a text** (`cw_v_abort`; CwEngine.cs:128).  The worker has
  dequeued the job and not yet published its token: the abort finds neither.

The others are outside the histories the passing runs make claims about (the
modules take the steps, the history variables mark them) or outside the models:

* TxService.cs:101 "two rapid edges from different threads can never reorder a
  stale notification past a fresh one": the value is captured under the lock but
  raised outside it, so they can; `SettledAgreement` fails with two threads.
* TxService.cs:253 "TwoTone owns the MOX state while armed": operator, TUN and
  trip take MOX and leave the latch and the generator on.  Disarming the test
  after TUN has taken over unkeys engine and radio under TUN.
* TxService.cs:182 "no TX unless connected" holds for key-downs only: flags
  survive a lost link, and after a reconnect a key-down is a successful no-op
  over an unkeyed client; a hardware press then keys nothing (`missed`).
* The Protocol 1 client is published before the engine is replaced (RadioService.cs:457
  and 538, DspPipelineService.cs:443): a key-down in between keys the client and the old
  engine, and the wire stays keyed over a fresh engine that is not and goes on
  receiving. An un-key while a disconnect is on its way no longer reaches the client
  (RadioService.cs:567), which goes on keyed until it is stopped.  Both are `upset`, and
  `torn` for the call they fall on.
* A hardware PTT edge before Connected is heard by nobody (Protocol1Client.cs:195,
  ExternalPttService.cs:101): a key that is down by then transmits nothing until it is
  pressed again.  A connect that fails after Connected was raised raises no Disconnected
  (RadioService.cs:552): ExternalPttService keeps the dead client, its claim and its last
  level until the next connect.
* TxMetersService.cs:101 "may not exceed 120 s": arming the two-tone test over a
  MOX takes a new start time and with it a new timeout and a new grace window.
  TxMetersService.cs:58 gives 2.5:1 for MOX or TUN; the code trips TUN at 6:1.  A loop
  that wakes 200 ms late may trip for what an earlier transmission did: un-key and
  re-key both fall between two looks, the next one finds the new grace window over
  and the old sustain window still running.  `TripWithinOneTransmission` is violated
  at `MaxLate = 2`, which is why its theorem assumes `Punctual`.
* A rising PTT edge between the callback's look and its take finds the host
  keyed and is ignored; MOX then drops under the held key.
* CwEngine.cs:189 "Emit Idle once the queue actually drains": an abort that drains
  the last waiting text is followed by no Idle.  A cancelled send leaves the
  depth one too high for good (`lost` in `PendingCounts`).  TUN takes MOX from a
  playing text without a falling edge, and the text plays on.  The un-key effects of an
  operator that are applied after the worker's key-down leave the MOX flag on over an
  unkeyed wire, and the text plays into it: `PlaysUnderMox` is about the flag.
* DspPipelineService.cs:936 "Only one client at a time": a P1 connect does not
  look at P2, and the check of P2 is separated from its publication.  A
  disconnect may run between the start of a P1 client and its Connected event,
  which then attaches the sink of a closed client and suspends the display
  timer (DspPipelineService.cs:484).  A receive loop that gives up leaves the
  service connected (RadioService.cs:404).
* A Protocol 1 connect that throws once it has attached (a subscriber of Connected,
  RadioService.cs:538, or the PA settings, 549) ends in Error with the sink of the
  dead client attached, the display timer suspended and the WDSP engine in use, until the
  next connect (`leftover`).  A throw while the WDSP engine is opened or configured
  (DspPipelineService.cs:436, 1006) leaves it open and to nobody (`stranded`).  A Protocol 2
  connect that throws behind StartAsync (DspPipelineService.cs:982) leaves its client
  running with port 1025 held, so that no later one can bind it.

* DSP channel.  The monitor can go silent (WdspDspEngine.cs:1372 "We re-derive TXA
  target = (MOX || monitor) so the monitor path doesn't go silent when the operator
  releases MOX."): `SetMox(false)` derives its target, off; the monitor is switched on,
  finds TXA still running and leaves it; `SetMox` turns it off.  The two share no lock;
  with `Overlap = TRUE` the model takes these steps.  An overlap may as well end a
  keying without TXA. A monitor requested before TXA is open gets its receiver and no
  TXA (WdspDspEngine.cs:1052): it is silent until the next key-down or toggle.  The
  pumps stop before `SetMox(false)` is called, so the off mostly waits its 100 ms in
  vain and skips the flush (TxAudioIngest.cs:230 expects the ramp to be fed);
  `SetTxMonitorEnabled(false)` holds `_txaLock` meanwhile, which `ProcessTxBlock` needs,
  so it always does.  `dexchange` posts Sem_OutReady before it reads its input
  (iobuffs.c:626): a DSP thread held up there may see it overwritten (`RingsHold` allows
  the third block, no property catches it).  A caller admitted before an off and a flush
  that comes after the next on (channel.c:147) are `disturbed`.
* PureSignal.  `ResetPs` overwrites its own request for a reset before any block can
  see it, against WdspDspEngine.cs:2206 "Phase 1 clears calcc".  Disarming closes the
  gate of pscc before the reset is asked for: the correction stays on with a stale
  curve, against DspPipelineService.cs:644 and IDspEngine.cs:204; restoring without
  arming predistorts too.  `SetPSIntsAndSpi` waits for a normal shutdown under `_psLock`,
  where no feedback can bring it about (calcc.c:1195); the forced one leaves
  `calcinprogress` set, and the state machine waits in LCALC for ever.  The restore
  thread takes no cs_SafeToEnd (calcc.c:625), and a fit may start before a turn-off
  asked for earlier: either can leave the stage off and marked on, and the next fit
  waiting for ever.  A disarm during the auto-attenuator's off/on leaves the engine in
  no mode (PsAutoAttenuateService.cs:280).
* Display.  The next span is let in before a frame is stitched (analyzer.c:952): with
  two workers at a time, as a pool may run them, one publishes the buffer the other has
  begun to write and `WholeAndForward` is violated; linux_port.c joins every work item.
  A buffer's ready mark of an earlier round is still set when the writer comes round:
  the reader takes the new frame, the writer marks it, and it is delivered twice as
  fresh; hence "not older" rather than "newer" in `WholeAndForward`.
* Hub.  A late joiner can be shown an old phase (StreamingHub.cs:70 "late joiners see
  the current state without waiting for the next transition"): the status poller reads
  the phase Building, the planning ends and announces Ready, and the poller caches and
  queues Building after it: every client, and every later one, stays at Building for
  good.  `WisdomArrives` excepts it (`crossed`).  A client primed with the phase read
  before a broadcast gets it after that broadcast's frame, and shows the older phase
  (StreamingHub.cs:161 describes the splash this is to prevent); four display frames
  push a wisdom frame out of a slow client's queue.  Both are `missed`.  TryWrite is
  true whenever the oldest frame is dropped, so the drop counters of StreamingHub.cs:543
  do not count evictions; they count the frames refused between the end of a session's
  loops and its removal (lines 549-556 and 172-174).

## 6. Not modelled

`PROJECT.json` lists every part with its reason.  Signal processing, sample
synthesis, wire formats, discovery, drivers, native audio, databases of
settings, network clients, the web client and vendored sources are data or
input/output without control that a model would check.

Limits of the modules:

* `TxKeying` has one connect or disconnect at a time; overlapping requests are in
  `RadioLink`, which in turn does not key.  `ExternalPtt` takes it that the receive
  thread ends within the 2 s its join waits.
* `RadioLink` has no throw in a disconnect: its steps open a synthetic engine and close
  the old one, which is assumed to succeed.
* `CwEngine`: the three statements at CwEngine.cs:136-139 are one step (`AbortCancels`);
  the catch of any other exception at 175-179, which goes on as after a cancel, is left
  out.  `TxProtection`: the loop ending on an exception is left out.
* `TxaDrive`: the pumps look at their gate before every block, TxAudioIngest.cs:223-292
  once per microphone frame, which may be several blocks: the model's pumps stop
  sooner after an un-key, never later.  The model starts with TXA open.
* `PureSignal`: `ResizeBegin` runs unkeyed only.  That guard is the pipeline's
  (`_keyed`, DspPipelineService.cs:646), not the engine's, and is set by an event that
  is not atomic with `SetPSMox`.  `Ramp` joins the test-and-set of `running` (calcc.c:510,
  625) with the critical section of iqc.c:264-288; for the restore thread, which has no
  lock, a turn-off can fall in between, inside a race window that the model has as well.
* `Analyzer` leaves out `IQout_index`, which `sendbuf` (analyzer.c:1114, 1123) and the skip in
  `Spectrum0` (1852) move without a common lock, so that part of its hazard is not
  caught.  `StreamingHub`: `Leave` is one step.

Most of the C in the repository is in two files: `miniaudio.h` (95,864 lines, a
third-party audio library) and `calculus.c` (29,047 lines of tables).  Of what is
left in WDSP, most is arithmetic on samples: filters, noise reduction, AGC,
demodulators, resamplers.  It has no shared control, works on floating-point data,
and a model of it would be a transcription.  The parts with threads, locks and
states are what `WdspChannel`, `Calcc` and `Analyzer` model; they leave out opening,
closing and rebuilding (buffers allocated and freed with the threads outside), the
setters that store a parameter under a lock, and in the analyzer the stitching of
several spans, which Zeus does not use.  `CloseChannel` and `DestroyAnalyzer` against
a thread still inside (WdspDspEngine.cs:2556 and 2664) are left out as well.

Hazards of parts that are not modelled: role and replacement of the primary are decided
before the open is awaited, so two attaches can both become primary
(RadioSession.cs:69); the 50 ms debounce of MOX drops the second of two edges, the
un-key included (DeviceCoordinatorService.cs:55); a device that refuses to open keeps
its channel (RadioSession.cs:82); a device detached and attached again between two polls
keeps the pipeline of its old channel (Rx2PipelineService.cs:49); two activations of one
plug-in, or an activation and a shutdown, can leave an instance that nobody shuts down
(PluginManager.cs:113); `StateChanged` is raised after the lock with the state of its
own mutation, so subscribers can see an older one last (RadioService.cs:1705); after an
oversize uplink message the rest of its fragments is taken for a message of its own
(StreamingHub.cs:631); the connect interlock is evaluated before the lock
(TxService.cs:183); an abort that drains the last waiting text is followed by no Idle
(CwEngine.cs:191).

## 7. Plan

Done: the modules of section 2, and a theorem for every safety and action property
of the passing runs.  Left:

1. `DeviceSession`: attach, detach, roles, channel allocation, MOX lockout, RX2
   pipelines.  Abstract specification: a partial injection from devices to channels.
2. Refinement: `TxKeying` of one caller implements an atomic transmitter whose outputs
   are a function of its flags.  The lemmas on `Told` and `Owes` in `TxKeyingProofs`
   say what each list of effects does and are what its proof needs.
3. `ExternalPtt` and `CwEngine` over that transmitter instead of over `TxKeying`.
