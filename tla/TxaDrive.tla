------------------------------ MODULE TxaDrive ------------------------------
(***************************************************************************)
(* The TX channel as the engine drives it (WdspDspEngine): SetMox and      *)
(* SetTxMonitorEnabled turn it on and off, each from a thread of its own   *)
(* and without a common lock; the pumps (TxAudioIngest, TxTuneDriver) feed *)
(* it through ProcessTxBlock while the transmitter is keyed or, for the    *)
(* microphone, while the monitor is on.                                    *)
(***************************************************************************)
EXTENDS WdspChannel

CONSTANTS
  Ingest,       \* the pump of TxAudioIngest; the others belong to TxTuneDriver
  Overlap       \* a call may begin while the other is still under way

ASSUME OverlapAssumption == Overlap \in BOOLEAN

Controllers == {"mox", "monitor"}

VARIABLES
  moxOn,        \* TxService.IsMoxOn, and WdspDspEngine._moxOn
  monitorRequested,  \* _monitorRequested
  txaRunning,   \* _txaRunning
  want,         \* what each call makes of the channel: on, off or leave it
  kpc           \* where each call is

engineVars == <<moxOn, monitorRequested, txaRunning>>
callVars == <<want, kpc>>
vars == <<channelVars, engineVars, callVars>>

Resting == \A k \in Controllers : kpc[k] = "idle"
TxaLocked == kpc["monitor"] \notin {"idle", "look"}   \* _txaLock, through the call

Init ==
  /\ ChannelInit
  /\ moxOn = FALSE /\ monitorRequested = FALSE /\ txaRunning = FALSE
  /\ want = [k \in Controllers |-> FALSE]
  /\ kpc = [k \in Controllers |-> "idle"]

-----------------------------------------------------------------------------
(* The pumps.                                                              *)

Gate(c) == moxOn \/ (c = Ingest /\ monitorRequested)

\* The gate of the pump, and the TXA's id under _txaLock.
Pump(c) ==
  /\ Gate(c) /\ ~TxaLocked
  /\ CallerAt(c, "idle", "gated")
  /\ UNCHANGED <<switches, slews, rings, semFlush, dpc, fpc, history,
                 engineVars, callVars>>

-----------------------------------------------------------------------------
(* SetMox and SetTxMonitorEnabled.                                         *)

Step(k, from, to) == kpc[k] = from /\ kpc' = [kpc EXCEPT ![k] = to]

\* No lock is common to the two calls; Overlap = FALSE is a bound.
Begin(k) ==
  /\ Overlap \/ Resting
  /\ Step(k, "idle", "look")

\* SetMox: the transmitter's flags move first; the monitor keeps TXA alive.
SetMox(on) ==
  /\ Begin("mox") /\ ~TxaLocked /\ moxOn # on
  /\ moxOn' = on
  /\ want' = [want EXCEPT !["mox"] = on \/ monitorRequested]
  /\ UNCHANGED <<channelVars, monitorRequested, txaRunning>>

SetTxMonitorEnabled(on) ==
  /\ Begin("monitor") /\ monitorRequested # on
  /\ monitorRequested' = on
  /\ want' = [want EXCEPT !["monitor"] = on]
  /\ UNCHANGED <<channelVars, moxOn, txaRunning>>

\* SetMox turns TXA on only to key and off only to unkey; while MOX is on the
\* monitor leaves TXA to it.
Changes(k) ==
  /\ want[k] # txaRunning
  /\ IF k = "mox" THEN want[k] => moxOn ELSE ~moxOn

Leave(k) ==
  /\ Step(k, "look", "idle")
  /\ ~Changes(k)
  /\ UNCHANGED <<channelVars, engineVars, want>>

Switch(k) ==
  /\ Step(k, "look", IF want[k] THEN "on" ELSE "off")
  /\ Changes(k)
  /\ UNCHANGED <<channelVars, engineVars, want>>

\* SetChannelState(txa, 1, 0): nothing happens if the channel is on.
TurnOn(k) ==
  /\ IF state = 1 THEN Step(k, "on", "done") /\ UNCHANGED channelVars
                  ELSE Step(k, "on", "exchange") /\ OnState
  /\ UNCHANGED <<engineVars, want>>

Exchange(k) ==
  /\ Step(k, "exchange", "done")
  /\ OnExchange
  /\ UNCHANGED <<engineVars, want>>

\* SetChannelState(txa, 0, 1).
TurnOff(k) ==
  /\ IF state = 0 THEN Step(k, "off", "done") /\ UNCHANGED channelVars
                  ELSE Step(k, "off", "ask") /\ OffState
  /\ UNCHANGED <<engineVars, want>>

Ask(k) ==
  /\ Step(k, "ask", "poll")
  /\ OffAsk
  /\ UNCHANGED <<engineVars, want>>

\* Mutant: SetChannelState(txa, 0, 0), the call does not wait for the flush.
PollNot(k) ==
  /\ Step(k, "poll", "done")
  /\ UNCHANGED <<channelVars, engineVars, want>>

Poll(k) ==
  /\ Step(k, "poll", "done")
  /\ OffFlushed \/ OffTimeout
  /\ UNCHANGED <<engineVars, want>>

Done(k) ==
  /\ Step(k, "done", "idle")
  /\ txaRunning' = want[k]
  /\ UNCHANGED <<channelVars, moxOn, monitorRequested, want>>

Call(k) == Leave(k) \/ Switch(k) \/ TurnOn(k) \/ Exchange(k) \/ TurnOff(k)
           \/ Ask(k) \/ Poll(k) \/ Done(k)

Move(c) == (Admit(c) \/ TurnedAway(c) \/ CallerMoves(c)) /\ UNCHANGED <<engineVars, callVars>>
DspMove == DspMoves /\ UNCHANGED <<engineVars, callVars>>
FlushMove == FlushMoves /\ UNCHANGED <<engineVars, callVars>>

Next ==
  \/ \E on \in BOOLEAN : SetMox(on) \/ SetTxMonitorEnabled(on)
  \/ \E k \in Controllers : Call(k)
  \/ \E c \in Callers : Pump(c) \/ Move(c)
  \/ DspMove \/ FlushMove

Fairness ==
  /\ \A k \in Controllers : WF_vars(Call(k))
  /\ \A c \in Callers : WF_vars(Move(c))
  /\ WF_vars(DspMove) /\ WF_vars(FlushMove)

Spec == Init /\ [][Next]_vars /\ Fairness

-----------------------------------------------------------------------------
(* Properties.                                                             *)

\* Type invariant of the channel and of the engine that drives it.
TxaTypeOK ==
  /\ state \in {0, 1} /\ exchange \in BOOLEAN /\ flushflag \in BOOLEAN
  /\ execBypass \in BOOLEAN /\ downflag \in BOOLEAN
  /\ downPos \in 0 .. DownBlocks - 1 /\ unqueued \in 0 .. Ratio - 1
  /\ semBuff \in Nat /\ semOut \in Nat /\ semFlush \in 0 .. FlushMax
  /\ fill1 \in Int /\ fill2 \in Int
  /\ cpc \in [Callers -> {"idle", "gated", "admitted", "waiting", "giving", "slewing"}]
  /\ dpc \in {"wait", "lock", "in", "mid"}
  /\ fpc \in {"wait", "dsp", "exch", "flag"}
  /\ disturbed \in BOOLEAN /\ timedOut \in BOOLEAN
  /\ moxOn \in BOOLEAN /\ monitorRequested \in BOOLEAN /\ txaRunning \in BOOLEAN
  /\ want \in [Controllers -> BOOLEAN]
  /\ kpc \in [Controllers -> {"idle", "look", "on", "exchange", "off", "ask", "poll", "done"}]

\* The two semaphores tell the truth about the two rings, whatever the
\* threads are doing, until a caller, a flush or a wake-up of the last
\* transmission reaches into this one.
RingBooks ==
  ~disturbed =>
    /\ fill1 = unqueued + Ratio * (semBuff +
         IF dpc \in {"in", "mid"} \/ (dpc = "lock" /\ ~execBypass) THEN 1 ELSE 0)
    /\ fill2 = semOut + Cardinality({c \in Callers : cpc[c] \in {"giving", "slewing"}})

\* Until a race window is hit no ring runs below empty or beyond its room,
\* but for the gap between the two halves of dexchange: there the callers are
\* already woken while their block has not been fetched, and the input ring
\* may hold one more than it has room for.
RingsHold ==
  ~disturbed =>
    /\ fill1 \in 0 .. 2 * Ratio + (IF dpc = "mid" THEN Ratio ELSE 0)
    /\ fill2 \in 0 .. 2 * Ratio

\* A transmission that begins after an off that was not given up on starts
\* with empty rings: nothing of the last one is heard in it, unless a caller,
\* a flush or a wake-up of the last transmission is still on its way when it
\* begins.
ComesUpClean ==
  [][ (state = 0 /\ state' = 1 /\ ~timedOut /\ ~disturbed')
        => fill1 = 0 /\ fill2 = Rest /\ semBuff = 0 /\ downPos = 0 ]_vars

\* A pump that hands a block over gets one back, so keying and unkeying never
\* wedge the pump, save in the race windows.
CallReturns == \A c \in Callers : Inside(c) ~> (~Inside(c) \/ disturbed)

\* Seen from the callers the channel is a pipe of fixed latency: dexchange
\* and flush only move its contents.
InFlight == fill1 + fill2 - (IF dpc = "mid" THEN Ratio ELSE 0)

Pipe == INSTANCE LatencyPipe WITH Latency <- Ratio, flight <- InFlight

ImplementsPipe == Pipe!Spec
=============================================================================
