--------------------------- MODULE TxaDriveProofs ---------------------------
(***************************************************************************)
(* TXA implements a pipe of fixed latency, for every ratio of the block    *)
(* sizes, every ramp and every number of pumps, calls that overlap and     *)
(* race windows included.  When calls do not overlap TXA settles, starts   *)
(* clean and keeps its books.                                              *)
(***************************************************************************)
EXTENDS TxaDrive, FiniteSetTheorems, TLAPS

\* One caller at most is inside csEXCH, the flush is not inside csDSP with
\* the DSP thread, and what is in flight tells whether a caller is inside.
PipeInv ==
  /\ fill1 \in Int /\ fill2 \in Int
  /\ dpc \in {"wait", "lock", "in", "mid"}
  /\ cpc \in [Callers -> {"idle", "gated", "admitted", "waiting", "giving", "slewing"}]
  /\ \A c, d \in Callers : Inside(c) /\ Inside(d) => c = d
  /\ fpc = "exch" => dpc \notin {"in", "mid"}
  /\ InFlight = Ratio + (IF Somebody THEN 1 ELSE 0)

\* The rings start with the latency in them.
LEMMA PipeInit == Init => PipeInv
BY RatioAssumption, SMT DEF Init, ChannelInit, PipeInv, InFlight, Inside, Somebody, Rest

\* A step that touches neither rings nor positions leaves the pipe alone.
LEMMA PipeStays ==
  PipeInv /\ UNCHANGED <<fill1, fill2, dpc, cpc, fpc>>
    => PipeInv' /\ InFlight' = InFlight
BY SMT DEF PipeInv, InFlight, Inside, Somebody

\* A caller that moves without entering or leaving csEXCH.
LEMMA CallerElsewhere ==
  ASSUME NEW c \in Callers, NEW from \in {"idle", "gated", "admitted", "waiting"},
         NEW to \in {"idle", "gated", "admitted", "giving", "slewing"},
         PipeInv, CallerAt(c, from, to), UNCHANGED <<fill1, fill2, dpc, fpc>>,
         from = "waiting" <=> to \in {"giving", "slewing"}
  PROVE  PipeInv' /\ InFlight' = InFlight
<1>1. \A d \in Callers : Inside(d)' <=> Inside(d)
  BY SMT DEF PipeInv, CallerAt, Inside
<1>2. Somebody' <=> Somebody
  BY <1>1, Zenon DEF Somebody
<1>3. cpc' \in [Callers -> {"idle", "gated", "admitted", "waiting", "giving", "slewing"}]
  BY SMT DEF PipeInv, CallerAt
<1> QED
  BY <1>1, <1>2, <1>3, SMT DEF PipeInv, InFlight

\* A caller enters csEXCH: a block more in flight.
LEMMA CallerEnters ==
  ASSUME NEW c \in Callers, PipeInv, Put(c)
  PROVE  PipeInv' /\ Pipe!Accept
<1>1. \A d \in Callers : Inside(d)' <=> d = c
  BY SMT DEF PipeInv, Put, CallerAt, Inside, Somebody
<1>2. ~Somebody /\ Somebody'
  BY <1>1, Zenon DEF Put, Somebody
<1>3. cpc' \in [Callers -> {"idle", "gated", "admitted", "waiting", "giving", "slewing"}]
  BY SMT DEF PipeInv, Put, CallerAt
<1>4. InFlight = Ratio /\ InFlight' = Ratio + 1
  BY <1>2, RatioAssumption, SMT DEF PipeInv, InFlight, Put
<1> QED
  BY <1>1, <1>2, <1>3, <1>4, SMT DEF PipeInv, Put, Pipe!Accept

\* A caller leaves csEXCH with its block.
LEMMA CallerLeaves ==
  ASSUME NEW c \in Callers, NEW from \in {"giving", "slewing"}, PipeInv,
         CallerAt(c, from, "idle"), fill2' = fill2 - 1, UNCHANGED <<fill1, dpc, fpc>>
  PROVE  PipeInv' /\ Pipe!Deliver
<1>1. Inside(c) /\ \A d \in Callers : ~Inside(d)'
  BY SMT DEF PipeInv, CallerAt, Inside
<1>2. Somebody /\ ~Somebody'
  BY <1>1, Zenon DEF Somebody
<1>3. cpc' \in [Callers -> {"idle", "gated", "admitted", "waiting", "giving", "slewing"}]
  BY SMT DEF PipeInv, CallerAt
<1>4. InFlight = Ratio + 1 /\ InFlight' = Ratio
  BY <1>2, RatioAssumption, SMT DEF PipeInv, InFlight
<1> QED
  BY <1>1, <1>2, <1>3, <1>4, RatioAssumption, SMT DEF PipeInv, Pipe!Deliver

\* The callers' steps are Accept, Deliver and stutters.
LEMMA CallerStep ==
  ASSUME NEW c \in Callers, PipeInv, Pump(c) \/ Move(c)
  PROVE  PipeInv' /\ [Pipe!Next]_InFlight
<1>1. CASE Put(c)
  BY <1>1, CallerEnters DEF Pipe!Next
<1>2. CASE Give(c)
  BY <1>2, CallerLeaves, Zenon DEF Give, Pipe!Next
<1>3. CASE Slew(c)
  BY <1>3, CallerLeaves, Zenon DEF Slew, RampDown, Pipe!Next
<1>4. CASE Take(c)
  <2>1. CallerAt(c, "waiting", "giving") \/ CallerAt(c, "waiting", "slewing")
    BY <1>4, Zenon DEF Take
  <2> QED
    BY <1>4, <2>1, CallerElsewhere, SMT DEF Take
<1>5. CASE Admit(c)
  BY <1>5, CallerElsewhere, SMT DEF Admit, rings
<1>6. CASE TurnedAway(c)
  BY <1>6, CallerElsewhere, SMT DEF TurnedAway, rings
<1>7. CASE Pump(c)
  BY <1>7, CallerElsewhere, SMT DEF Pump, rings
<1> QED
  BY <1>1, <1>2, <1>3, <1>4, <1>5, <1>6, <1>7, Zenon DEF Move, CallerMoves

\* The DSP thread moves blocks from ring to ring, the flush puts the latency
\* back: neither shows.
LEMMA ThreadStep ==
  ASSUME PipeInv, DspMove \/ FlushMove
  PROVE  PipeInv' /\ InFlight' = InFlight
<1> USE DEF PipeInv, InFlight, Inside, Somebody, switches, slews, rings, history
<1>1. CASE DspWake \/ DspEnter
  BY <1>1, SMT DEF DspWake, DspEnter
<1>2. CASE DspOut
  BY <1>2, RatioAssumption, SMT DEF DspOut
<1>3. CASE DspIn
  BY <1>3, RatioAssumption, SMT DEF DspIn
<1>4. CASE FlushWake \/ FlushDone
  BY <1>4, SMT DEF FlushWake, FlushDone
<1>5. CASE FlushEnter
  BY <1>5, SMT DEF FlushEnter, DspHeld
<1>6. CASE Flush
  BY <1>6, RatioAssumption, SMT DEF Flush, StartOver, Rest
<1> QED
  BY <1>1, <1>2, <1>3, <1>4, <1>5, <1>6, Zenon
     DEF DspMove, FlushMove, DspMoves, FlushMoves

\* The calls that turn the channel on and off do not touch the rings.
LEMMA CallStep ==
  ASSUME NEW k \in Controllers, Call(k)
  PROVE  UNCHANGED <<fill1, fill2, dpc, cpc, fpc>>
<1> USE DEF channelVars, rings, slews, switches, history
<1>1. CASE Leave(k) \/ Switch(k) \/ Done(k)
  BY <1>1, Zenon DEF Leave, Switch, Done
<1>2. CASE TurnOn(k) \/ Exchange(k)
  BY <1>2, Zenon DEF TurnOn, Exchange, OnState, OnExchange
<1>3. CASE TurnOff(k) \/ Ask(k) \/ Poll(k)
  BY <1>3, Zenon DEF TurnOff, Ask, Poll, OffState, OffAsk, OffFlushed, OffTimeout
<1> QED
  BY <1>1, <1>2, <1>3, Zenon DEF Call

\* Every step keeps the invariant and is a step of the pipe or a stutter.
LEMMA PipeStep == PipeInv /\ [Next]_vars => PipeInv' /\ [Pipe!Next]_InFlight
<1> SUFFICES ASSUME PipeInv, [Next]_vars
             PROVE  PipeInv' /\ [Pipe!Next]_InFlight
  OBVIOUS
<1>1. CASE \E on \in BOOLEAN : SetMox(on) \/ SetTxMonitorEnabled(on)
  BY <1>1, PipeStays, Zenon DEF SetMox, SetTxMonitorEnabled, channelVars, rings
<1>2. CASE \E k \in Controllers : Call(k)
  BY <1>2, CallStep, PipeStays, Zenon
<1>3. CASE \E c \in Callers : Pump(c) \/ Move(c)
  BY <1>3, CallerStep
<1>4. CASE DspMove \/ FlushMove
  BY <1>4, ThreadStep
<1>5. CASE UNCHANGED vars
  BY <1>5, PipeStays, Zenon DEF vars, channelVars, rings
<1> QED
  BY <1>1, <1>2, <1>3, <1>4, <1>5 DEF Next

\* TXA implements the pipe of LatencyPipe: seen from the pumps, fexchange2,
\* dexchange and flushChannel together never lose or invent a block.
THEOREM Implements == Spec => ImplementsPipe
<1>1. Init => Pipe!Init
  BY RatioAssumption, SMT DEF Init, ChannelInit, Pipe!Init, InFlight, Rest
<1> QED
  BY <1>1, PipeInit, PipeStep, PTL DEF Spec, ImplementsPipe, Pipe!Spec

-----------------------------------------------------------------------------
(* Types.                                                                  *)

\* The count of samples not yet queued goes round in blocks of the DSP thread.
LEMMA OneMore ==
  ASSUME NEW q \in 0 .. Ratio - 1
  PROVE  IF q + 1 = Ratio THEN (q + 1) \div Ratio = 1 /\ (q + 1) % Ratio = 0
                          ELSE (q + 1) \div Ratio = 0 /\ (q + 1) % Ratio = q + 1
BY RatioAssumption, SMT

LEMMA RampStep ==
  ASSUME NEW p \in 0 .. DownBlocks - 1
  PROVE  (p + 1) % DownBlocks \in 0 .. DownBlocks - 1
BY DownAssumption, SMT

\* The parts of TxaTypeOK: the bits of the channel, the switches, and the rest.
BitsOK ==
  /\ exchange \in BOOLEAN /\ flushflag \in BOOLEAN
  /\ execBypass \in BOOLEAN /\ downflag \in BOOLEAN
  /\ disturbed \in BOOLEAN /\ timedOut \in BOOLEAN

SwitchesOK ==
  /\ moxOn \in BOOLEAN /\ monitorRequested \in BOOLEAN /\ txaRunning \in BOOLEAN
  /\ want \in [Controllers -> BOOLEAN]

FlagsOK == BitsOK /\ SwitchesOK

CountsOK ==
  /\ state \in {0, 1}
  /\ downPos \in 0 .. DownBlocks - 1 /\ unqueued \in 0 .. Ratio - 1
  /\ semBuff \in Nat /\ semOut \in Nat /\ semFlush \in 0 .. FlushMax
  /\ fill1 \in Int /\ fill2 \in Int

PlacesOK ==
  /\ cpc \in [Callers -> {"idle", "gated", "admitted", "waiting", "giving", "slewing"}]
  /\ dpc \in {"wait", "lock", "in", "mid"}
  /\ fpc \in {"wait", "dsp", "exch", "flag"}
  /\ kpc \in [Controllers -> {"idle", "look", "on", "exchange", "off", "ask", "poll", "done"}]

LEMMA TypeParts == TxaTypeOK <=> FlagsOK /\ CountsOK /\ PlacesOK
BY Zenon DEF TxaTypeOK, FlagsOK, BitsOK, SwitchesOK, CountsOK, PlacesOK

LEMMA ControllerType ==
  ASSUME TxaTypeOK,
         \/ \E on \in BOOLEAN : SetMox(on) \/ SetTxMonitorEnabled(on)
         \/ \E k \in Controllers : Call(k)
  PROVE  TxaTypeOK'
<1> USE DEF channelVars, engineVars, switches, slews, rings, history, Step
<1>1. FlagsOK'
  <2> BitsOK /\ SwitchesOK
    BY TypeParts, Zenon DEF FlagsOK
  <2>1. CASE \E on \in BOOLEAN : SetMox(on) \/ SetTxMonitorEnabled(on)
    <3>1. BitsOK'
      BY <2>1, Zenon DEF SetMox, SetTxMonitorEnabled, BitsOK
    <3>2. SwitchesOK'
      BY <2>1, Zenon DEF SetMox, SetTxMonitorEnabled, SwitchesOK
    <3> QED
      BY <3>1, <3>2, Zenon DEF FlagsOK
  <2>2. ASSUME NEW k \in Controllers, Call(k)
        PROVE  FlagsOK'
    <3>1. CASE Leave(k) \/ Switch(k) \/ TurnOn(k) \/ Exchange(k)
      <4>1. BitsOK'
        BY <3>1, Zenon DEF Leave, Switch, TurnOn, Exchange, OnState, OnExchange, BitsOK
      <4>2. SwitchesOK'
        BY <3>1, Zenon DEF Leave, Switch, TurnOn, Exchange, SwitchesOK
      <4> QED
        BY <4>1, <4>2, Zenon DEF FlagsOK
    <3>2. CASE TurnOff(k) \/ Ask(k) \/ Poll(k) \/ Done(k)
      <4>1. BitsOK'
        BY <3>2, Zenon DEF TurnOff, Ask, Poll, Done, OffState, OffAsk, OffFlushed, OffTimeout, BitsOK
      <4>2. SwitchesOK'
        BY <3>2, Zenon DEF TurnOff, Ask, Poll, Done, SwitchesOK
      <4> QED
        BY <4>1, <4>2, Zenon DEF FlagsOK
    <3> QED
      BY <2>2, <3>1, <3>2, Zenon DEF Call
  <2> QED
    BY <2>1, <2>2, Zenon
<1>2. CountsOK' /\ PlacesOK'
  <2> USE TypeParts DEF CountsOK, PlacesOK
  <2>1. CASE \E on \in BOOLEAN : SetMox(on) \/ SetTxMonitorEnabled(on)
    BY <2>1 DEF SetMox, SetTxMonitorEnabled, Begin
  <2>2. ASSUME NEW k \in Controllers, Leave(k) \/ Switch(k) \/ TurnOn(k) \/ Exchange(k)
        PROVE  CountsOK' /\ PlacesOK'
    BY <2>2 DEF Leave, Switch, TurnOn, Exchange, OnState, OnExchange
  <2>3. ASSUME NEW k \in Controllers, TurnOff(k) \/ Ask(k) \/ Poll(k) \/ Done(k)
        PROVE  CountsOK' /\ PlacesOK'
    BY <2>3 DEF TurnOff, Ask, Poll, Done, OffState, OffAsk, OffFlushed, OffTimeout
  <2> QED
    BY <2>1, <2>2, <2>3, Zenon DEF Call
<1> QED
  BY <1>1, <1>2, Zenon DEF TxaTypeOK, FlagsOK, BitsOK, SwitchesOK, CountsOK, PlacesOK

LEMMA CallerType ==
  ASSUME TxaTypeOK, NEW c \in Callers, Pump(c) \/ Move(c)
  PROVE  TxaTypeOK'
<1> USE DEF engineVars, callVars, switches, slews, rings, history, CallerAt
<1>1. FlagsOK'
  <2> BitsOK /\ SwitchesOK
    BY TypeParts, Zenon DEF FlagsOK
  <2>1. CASE Pump(c)
    BY <2>1, Zenon DEF Pump, FlagsOK, BitsOK, SwitchesOK
  <2>2. CASE Move(c)
    <3>1. SwitchesOK'
      BY <2>2, Zenon DEF Move, SwitchesOK
    <3>2. ASSUME Admit(c) \/ TurnedAway(c) PROVE BitsOK'
      BY <3>2, Zenon DEF Admit, TurnedAway, BitsOK
    <3>3. ASSUME Put(c) \/ Take(c) \/ Give(c) PROVE BitsOK'
      BY <3>3, Zenon DEF Put, Take, Give, BitsOK
    <3>4. ASSUME Slew(c) PROVE BitsOK'
      BY <3>4, Zenon DEF Slew, RampDown, BitsOK
    <3>5. BitsOK'
      BY <2>2, <3>2, <3>3, <3>4, Zenon DEF Move, CallerMoves
    <3> QED
      BY <3>1, <3>5, Zenon DEF FlagsOK
  <2> QED
    BY <2>1, <2>2, Zenon
<1>2. CountsOK' /\ PlacesOK'
  <2> USE TypeParts DEF CountsOK, PlacesOK
  <2>1. CASE Pump(c) \/ (Move(c) /\ (Admit(c) \/ TurnedAway(c)))
    BY <2>1 DEF Pump, Admit, TurnedAway, Move
  <2>2. CASE Move(c) /\ (Take(c) \/ Give(c))
    BY <2>2 DEF Take, Give, Move
  <2>3. CASE Move(c) /\ Put(c)
    BY <2>3, OneMore, RatioAssumption DEF Put, Move
  <2>4. CASE Move(c) /\ Slew(c)
    BY <2>4, RampStep, FlushAssumption DEF Slew, RampDown, Move
  <2> QED
    BY <2>1, <2>2, <2>3, <2>4, Zenon DEF Move, CallerMoves
<1> QED
  BY <1>1, <1>2, Zenon DEF TxaTypeOK, FlagsOK, BitsOK, SwitchesOK, CountsOK, PlacesOK

LEMMA ThreadType ==
  ASSUME TxaTypeOK, DspMove \/ FlushMove
  PROVE  TxaTypeOK'
<1> USE DEF engineVars, callVars, switches, slews, rings, history, DspMove, FlushMove
<1>1. FlagsOK'
  <2> BitsOK /\ SwitchesOK
    BY TypeParts, Zenon DEF FlagsOK
  <2>1. SwitchesOK'
    BY Zenon DEF SwitchesOK
  <2>2. ASSUME DspMove PROVE BitsOK'
    BY <2>2, Zenon DEF DspMoves, DspWake, DspEnter, DspOut, DspIn, BitsOK
  <2>3. ASSUME FlushMove PROVE BitsOK'
    BY <2>3, Zenon DEF FlushMoves, FlushWake, FlushEnter, Flush, StartOver, FlushDone, BitsOK
  <2>4. BitsOK'
    BY <2>2, <2>3, Zenon
  <2> QED
    BY <2>1, <2>4, Zenon DEF FlagsOK
<1>2. CountsOK' /\ PlacesOK'
  <2> USE TypeParts, RatioAssumption DEF CountsOK, PlacesOK
  <2>1. CASE DspMove
    BY <2>1 DEF DspMoves, DspWake, DspEnter, DspOut, DspIn
  <2>2. CASE FlushMove /\ (FlushWake \/ FlushEnter \/ FlushDone)
    BY <2>2, FlushAssumption DEF FlushWake, FlushEnter, FlushDone
  <2>3. CASE FlushMove /\ Flush
    BY <2>3, DownAssumption DEF Flush, StartOver, Rest
  <2> QED
    BY <2>1, <2>2, <2>3, Zenon DEF FlushMoves
<1> QED
  BY <1>1, <1>2, Zenon DEF TxaTypeOK, FlagsOK, BitsOK, SwitchesOK, CountsOK, PlacesOK

LEMMA TypeInit == Init => TxaTypeOK
<1>1. Init => FlagsOK
  BY Zenon DEF Init, ChannelInit, FlagsOK, BitsOK, SwitchesOK
<1>2. Init => CountsOK /\ PlacesOK
  BY RatioAssumption, DownAssumption, FlushAssumption
     DEF Init, ChannelInit, CountsOK, PlacesOK, Rest
<1> QED
  BY <1>1, <1>2, TypeParts, Zenon

LEMMA TypeStep == TxaTypeOK /\ [Next]_vars => TxaTypeOK'
<1>1. TxaTypeOK /\ UNCHANGED vars => TxaTypeOK'
  <2> USE DEF vars, channelVars, engineVars, callVars, switches, slews, rings, history
  <2>1. FlagsOK /\ UNCHANGED vars => FlagsOK'
    BY Zenon DEF FlagsOK, BitsOK, SwitchesOK
  <2>2. CountsOK /\ PlacesOK /\ UNCHANGED vars => CountsOK' /\ PlacesOK'
    BY DEF CountsOK, PlacesOK
  <2> QED
    BY <2>1, <2>2, TypeParts, Zenon DEF TxaTypeOK, FlagsOK, BitsOK, SwitchesOK, CountsOK, PlacesOK
<1> QED
  BY <1>1, ControllerType, CallerType, ThreadType DEF Next

\* Flags, counts and positions keep their types for every ratio, every ramp and
\* every number of pumps, overlapping calls included.
THEOREM TypeCorrect == Spec => []TxaTypeOK
BY TypeInit, TypeStep, PTL DEF Spec

-----------------------------------------------------------------------------
(* Calls that do not overlap.  Where a call is tells what the channel's     *)
(* state has to do with what is wanted of it.                               *)

Wanted == moxOn \/ monitorRequested

CallAt(k) ==
  /\ kpc[k] = "look" =>
       /\ txaRunning <=> state = 1
       /\ Changes(k) => (want[k] <=> Wanted)
       /\ ~Changes(k) => (txaRunning <=> Wanted)
  /\ kpc[k] = "on" => state = 0 /\ Wanted /\ want[k]
  /\ kpc[k] = "off" => state = 1 /\ ~Wanted /\ ~want[k]
  /\ kpc[k] = "exchange" => state = 1 /\ Wanted /\ want[k]
  /\ kpc[k] \in {"ask", "poll"} => state = 0 /\ ~Wanted /\ ~want[k]
  /\ kpc[k] = "done" => (state = 1 <=> Wanted) /\ (want[k] <=> Wanted)

CallInv ==
  /\ \A j, k \in Controllers : kpc[j] # "idle" /\ kpc[k] # "idle" => j = k
  /\ Resting => (state = 1 <=> Wanted) /\ (txaRunning <=> Wanted)
  /\ \A k \in Controllers : CallAt(k)

LEMMA ControllersAre == "mox" \in Controllers /\ "monitor" \in Controllers
BY DEF Controllers

\* A call that begins finds the other at rest.
LEMMA BeginAlone ==
  ASSUME ~Overlap, TxaTypeOK, NEW k \in Controllers, Begin(k)
  PROVE  /\ Resting
         /\ kpc'[k] = "look"
         /\ \A j \in Controllers \ {k} : kpc'[j] = "idle"
<1>1. Resting
  BY Zenon DEF Begin
<1> QED
  BY <1>1, SMT DEF Begin, Step, Resting, TxaTypeOK

\* A call that moves is the only one.
LEMMA MoveAlone ==
  ASSUME TxaTypeOK, CallInv, NEW k \in Controllers, NEW from, NEW to,
         from # "idle", Step(k, from, to)
  PROVE  /\ kpc[k] = from /\ kpc'[k] = to
         /\ \A j \in Controllers \ {k} : kpc[j] = "idle" /\ kpc'[j] = "idle"
         /\ Resting' <=> to = "idle"
<1>1. /\ kpc[k] = from /\ kpc'[k] = to
      /\ \A j \in Controllers \ {k} : kpc'[j] = kpc[j]
  BY SMT DEF Step, TxaTypeOK
<1>2. \A j \in Controllers \ {k} : kpc[j] = "idle"
  BY <1>1, SMT DEF CallInv
<1> QED
  BY <1>1, <1>2, Zenon DEF Resting

LEMMA SetMoxSettles ==
  ASSUME ~Overlap, TxaTypeOK, CallInv, NEW on \in BOOLEAN, SetMox(on)
  PROVE  CallInv'
<1>1. /\ Resting /\ kpc'["mox"] = "look"
      /\ \A j \in Controllers \ {"mox"} : kpc'[j] = "idle"
  BY BeginAlone, Zenon DEF SetMox, Controllers
<1>2. /\ moxOn' <=> on
      /\ moxOn <=> ~on
      /\ want'["mox"] <=> on \/ monitorRequested
      /\ state' = state
      /\ monitorRequested' <=> monitorRequested
      /\ txaRunning' <=> txaRunning
  <2>1. moxOn \in BOOLEAN /\ want \in [Controllers -> BOOLEAN]
    BY Zenon DEF TxaTypeOK
  <2>2. want'["mox"] = (on \/ monitorRequested)
    BY <2>1, ControllersAre, Zenon DEF SetMox
  <2>3. moxOn # on /\ moxOn' = on /\ UNCHANGED <<state, monitorRequested, txaRunning>>
    BY Zenon DEF SetMox, channelVars, switches
  <2>4. moxOn <=> ~on
    BY <2>1, <2>3, SMT
  <2> QED
    BY <2>2, <2>3, <2>4, Zenon
<1>3. (state = 1 <=> Wanted) /\ (txaRunning <=> Wanted)
  BY <1>1, Zenon DEF CallInv
<1>4. CallAt("mox")'
  BY <1>1, <1>2, <1>3 DEF CallAt, Changes, Wanted
<1>5. ~Resting'
  BY <1>1, Zenon DEF Resting, Controllers
<1> QED
  BY <1>1, <1>4, <1>5, SMT DEF CallInv, CallAt, Controllers

LEMMA SetMonitorSettles ==
  ASSUME ~Overlap, TxaTypeOK, CallInv, NEW on \in BOOLEAN, SetTxMonitorEnabled(on)
  PROVE  CallInv'
<1>1. /\ Resting /\ kpc'["monitor"] = "look"
      /\ \A j \in Controllers \ {"monitor"} : kpc'[j] = "idle"
  BY BeginAlone, Zenon DEF SetTxMonitorEnabled, Controllers
<1>2. /\ monitorRequested' <=> on
      /\ monitorRequested <=> ~on
      /\ want'["monitor"] <=> on
      /\ state' = state
      /\ moxOn' <=> moxOn
      /\ txaRunning' <=> txaRunning
  <2>1. monitorRequested \in BOOLEAN /\ want \in [Controllers -> BOOLEAN]
    BY Zenon DEF TxaTypeOK
  <2>2. want'["monitor"] = on
    BY <2>1, ControllersAre, Zenon DEF SetTxMonitorEnabled
  <2>3. monitorRequested # on /\ monitorRequested' = on /\ UNCHANGED <<state, moxOn, txaRunning>>
    BY Zenon DEF SetTxMonitorEnabled, channelVars, switches
  <2>4. monitorRequested <=> ~on
    BY <2>1, <2>3, SMT
  <2> QED
    BY <2>2, <2>3, <2>4, Zenon
<1>3. (state = 1 <=> Wanted) /\ (txaRunning <=> Wanted)
  BY <1>1, Zenon DEF CallInv
<1>4. CallAt("monitor")'
  BY <1>1, <1>2, <1>3 DEF CallAt, Changes, Wanted
<1>5. ~Resting'
  BY <1>1, Zenon DEF Resting, Controllers
<1> QED
  BY <1>1, <1>4, <1>5, SMT DEF CallInv, CallAt, Controllers

\* What is left to show of a call that moves.
LEMMA OneCallMoves ==
  ASSUME TxaTypeOK, CallInv, NEW k \in Controllers, NEW from, NEW to,
         from # "idle", Step(k, from, to),
         to # "idle" => CallAt(k)',
         to = "idle" => (state = 1 <=> Wanted)' /\ (txaRunning <=> Wanted)'
  PROVE  CallInv'
<1>1. /\ kpc'[k] = to
      /\ \A j \in Controllers \ {k} : kpc'[j] = "idle"
      /\ Resting' <=> to = "idle"
  BY MoveAlone, Zenon
<1>2. \A j \in Controllers : kpc'[j] = "idle" => CallAt(j)'
  BY SMT DEF CallAt
<1> QED
  BY <1>1, <1>2, Zenon DEF CallInv

LEMMA CallSettles ==
  ASSUME TxaTypeOK, CallInv, NEW k \in Controllers, Call(k)
  PROVE  CallInv'
<1> USE DEF CallAt, Wanted
<1>1. CallAt(k)
  BY Zenon DEF CallInv
<1>2. CASE Leave(k)
  <2>1. (state = 1 <=> Wanted)' /\ (txaRunning <=> Wanted)'
    BY <1>1, <1>2, Zenon DEF Leave, Step, channelVars, switches, engineVars
  <2> QED
    BY <1>2, <2>1, OneCallMoves, Zenon DEF Leave
<1>3. CASE Switch(k)
  <2>1. UNCHANGED <<state, moxOn, monitorRequested, txaRunning, want>> /\ Changes(k)
    BY <1>3, Zenon DEF Switch, channelVars, switches, engineVars
  <2>2. want[k] # txaRunning
    BY <2>1, Zenon DEF Changes
  <2>3. want[k] \in BOOLEAN /\ txaRunning \in BOOLEAN
    BY Zenon DEF TxaTypeOK
  <2>4. want[k] <=> ~txaRunning
    BY <2>2, <2>3, SMT
  <2>5. kpc[k] = "look"
    BY <1>3, Zenon DEF Switch, Step
  <2>6. state = 1 <=> ~Wanted
    BY <1>1, <2>1, <2>4, <2>5, Zenon
  <2>7. CASE want[k]
    <3>1. state = 0 /\ Wanted
      BY <1>1, <2>1, <2>5, <2>6, <2>7 DEF TxaTypeOK
    <3>2. Step(k, "look", "on")
      BY <1>3, <2>7, Zenon DEF Switch
    <3>3. kpc'[k] = "on"
      BY <3>2, MoveAlone, SMT
    <3> QED
      BY <2>1, <2>7, <3>1, <3>2, <3>3, OneCallMoves, SMT
  <2>8. CASE ~want[k]
    <3>1. state = 1 /\ ~Wanted
      BY <1>1, <2>1, <2>5, <2>6, <2>8 DEF TxaTypeOK
    <3>2. Step(k, "look", "off")
      BY <1>3, <2>8, Zenon DEF Switch
    <3>3. kpc'[k] = "off"
      BY <3>2, MoveAlone, SMT
    <3> QED
      BY <2>1, <2>8, <3>1, <3>2, <3>3, OneCallMoves, SMT
  <2> QED
    BY <2>7, <2>8
<1>4. CASE TurnOn(k)
  <2>1. kpc[k] = "on" /\ state = 0 /\ Wanted /\ want[k]
    BY <1>1, <1>4, Zenon DEF TurnOn, Step
  <2>2. Step(k, "on", "exchange") /\ state' = 1
    BY <1>4, <2>1 DEF TurnOn, OnState
  <2>3. UNCHANGED <<moxOn, monitorRequested, want>>
    BY <1>4, Zenon DEF TurnOn, engineVars
  <2>4. kpc'[k] = "exchange"
    BY <2>2, MoveAlone, SMT
  <2> QED
    BY <2>1, <2>2, <2>3, <2>4, OneCallMoves, SMT
<1>5. CASE Exchange(k)
  <2>1. kpc[k] = "exchange" /\ state = 1 /\ Wanted /\ want[k]
    BY <1>1, <1>5, Zenon DEF Exchange, Step
  <2>2. Step(k, "exchange", "done") /\ state' = state
    BY <1>5, Zenon DEF Exchange, OnExchange
  <2>3. UNCHANGED <<moxOn, monitorRequested, want>>
    BY <1>5, Zenon DEF Exchange, engineVars
  <2>4. kpc'[k] = "done"
    BY <2>2, MoveAlone, SMT
  <2> QED
    BY <2>1, <2>2, <2>3, <2>4, OneCallMoves, SMT
<1>6. CASE TurnOff(k)
  <2>1. kpc[k] = "off" /\ state = 1 /\ ~Wanted /\ ~want[k]
    BY <1>1, <1>6, Zenon DEF TurnOff, Step
  <2>2. Step(k, "off", "ask") /\ state' = 0
    BY <1>6, <2>1 DEF TurnOff, OffState
  <2>3. UNCHANGED <<moxOn, monitorRequested, want>>
    BY <1>6, Zenon DEF TurnOff, engineVars
  <2>4. kpc'[k] = "ask"
    BY <2>2, MoveAlone, SMT
  <2> QED
    BY <2>1, <2>2, <2>3, <2>4, OneCallMoves, SMT
<1>7. CASE Ask(k) \/ Poll(k)
  <2>1. kpc[k] \in {"ask", "poll"} /\ state = 0 /\ ~Wanted /\ ~want[k]
    BY <1>1, <1>7, Zenon DEF Ask, Poll, Step
  <2>2. UNCHANGED <<moxOn, monitorRequested, want, state>>
    BY <1>7, Zenon DEF Ask, Poll, OffAsk, OffFlushed, OffTimeout, engineVars,
                       channelVars, switches
  <2>3. CASE Ask(k)
    <3>1. kpc'[k] = "poll" /\ Step(k, "ask", "poll")
      BY <2>3, MoveAlone, SMT DEF Ask
    <3> QED
      BY <2>1, <2>2, <3>1, OneCallMoves, SMT
  <2>4. CASE Poll(k)
    <3>1. kpc'[k] = "done" /\ Step(k, "poll", "done")
      BY <2>4, MoveAlone, SMT DEF Poll
    <3> QED
      BY <2>1, <2>2, <3>1, OneCallMoves, SMT
  <2> QED
    BY <1>7, <2>3, <2>4
<1>8. CASE Done(k)
  <2>1. kpc[k] = "done" /\ (state = 1 <=> Wanted) /\ (want[k] <=> Wanted)
    BY <1>1, <1>8, Zenon DEF Done, Step
  <2>2. (state = 1 <=> Wanted)' /\ (txaRunning <=> Wanted)'
    BY <2>1, <1>8, Zenon DEF Done, channelVars, switches
  <2> QED
    BY <1>8, <2>2, OneCallMoves, Zenon DEF Done
<1> QED
  BY <1>2, <1>3, <1>4, <1>5, <1>6, <1>7, <1>8 DEF Call

\* Nothing else touches what CallInv speaks of.
LEMMA OthersSettle ==
  ASSUME CallInv, UNCHANGED <<state, moxOn, monitorRequested, txaRunning, want, kpc>>
  PROVE  CallInv'
BY Zenon DEF CallInv, CallAt, Changes, Wanted, Resting

LEMMA PumpsAndThreadsSettle ==
  ASSUME \/ \E c \in Callers : Pump(c) \/ Move(c)
         \/ DspMove \/ FlushMove \/ UNCHANGED vars
  PROVE  UNCHANGED <<state, moxOn, monitorRequested, txaRunning, want, kpc>>
<1> USE DEF engineVars, callVars, switches
<1>1. ASSUME NEW c \in Callers, Pump(c) \/ Move(c)
      PROVE  UNCHANGED <<state, moxOn, monitorRequested, txaRunning, want, kpc>>
  BY <1>1, Zenon DEF Pump, Move, Admit, TurnedAway, CallerMoves, Put, Take, Give, Slew, RampDown
<1>2. CASE DspMove
  BY <1>2, Zenon DEF DspMove, DspMoves, DspWake, DspEnter, DspOut, DspIn
<1>3. CASE FlushMove
  BY <1>3, Zenon DEF FlushMove, FlushMoves, FlushWake, FlushEnter, Flush, StartOver, FlushDone
<1>4. CASE UNCHANGED vars
  BY <1>4, Zenon DEF vars, channelVars
<1> QED
  BY <1>1, <1>2, <1>3, <1>4

LEMMA CallInvInit == Init => CallInv
BY SMT DEF Init, ChannelInit, CallInv, CallAt, Wanted, Resting

LEMMA CallInvStep ==
  ASSUME ~Overlap, TxaTypeOK, CallInv, [Next]_vars
  PROVE  CallInv'
BY SetMoxSettles, SetMonitorSettles, CallSettles, OthersSettle, PumpsAndThreadsSettle,
   Zenon DEF Next

-----------------------------------------------------------------------------
(* What holds of the channel until a race window is hit.  A flush that is   *)
(* due means that the channel is off and takes nothing, and what a flush    *)
(* leaves behind stays as it is until the channel is turned on.             *)

OnUnderWay == \E k \in Controllers : kpc[k] = "exchange"
OffUnderWay == \E k \in Controllers : kpc[k] \in {"ask", "poll"}
Polling == \E k \in Controllers : kpc[k] = "poll"

Clean ==
  /\ fill1 = 0 /\ fill2 = Rest /\ semBuff = 0 /\ unqueued = 0
  /\ downPos = 0 /\ ~downflag /\ ~Somebody
  /\ execBypass \/ dpc = "wait"

Quiet ==
  /\ FlushDue => state = 0
  /\ semFlush > 0 \/ fpc # "wait" => ~exchange
  /\ execBypass => Clean /\ ~exchange /\ state = 0
  /\ fpc = "flag" => execBypass
  /\ downflag => OffUnderWay
  /\ Polling /\ ~flushflag => execBypass
  /\ state = 0 /\ ~OffUnderWay => ~exchange /\ (timedOut \/ Clean)
  /\ state = 1 /\ ~OnUnderWay => exchange

QuietInv ==
  /\ execBypass => dpc \notin {"in", "mid"}
  /\ ~disturbed => Quiet

\* Where a call was and is, seen from the channel.
LEMMA CallPlaces ==
  ASSUME TxaTypeOK, CallInv, NEW k \in Controllers, NEW from, NEW to,
         from # "idle", Step(k, from, to)
  PROVE  /\ OnUnderWay <=> from = "exchange"
         /\ OnUnderWay' <=> to = "exchange"
         /\ OffUnderWay <=> from \in {"ask", "poll"}
         /\ OffUnderWay' <=> to \in {"ask", "poll"}
         /\ Polling <=> from = "poll"
         /\ Polling' <=> to = "poll"
BY MoveAlone, SMT DEF OnUnderWay, OffUnderWay, Polling

LEMMA BeginPlaces ==
  ASSUME ~Overlap, TxaTypeOK, NEW k \in Controllers, Begin(k)
  PROVE  /\ ~OnUnderWay /\ ~OnUnderWay'
         /\ ~OffUnderWay /\ ~OffUnderWay'
         /\ ~Polling /\ ~Polling'
BY BeginAlone, SMT DEF OnUnderWay, OffUnderWay, Polling, Resting

\* What only the positions of calls could change, and they did not.
LEMMA QuietStays ==
  ASSUME QuietInv, UNCHANGED channelVars,
         OnUnderWay' <=> OnUnderWay, OffUnderWay' <=> OffUnderWay, Polling' => Polling
  PROVE  QuietInv'
BY SMT DEF QuietInv, Quiet, Clean, FlushDue, Somebody, Inside, channelVars, switches, slews,
           rings, history

LEMMA QuietSwitches ==
  ASSUME ~Overlap, TxaTypeOK, CallInv, QuietInv,
         \/ \E on \in BOOLEAN : SetMox(on) \/ SetTxMonitorEnabled(on)
         \/ \E k \in Controllers : Leave(k) \/ Switch(k) \/ Done(k)
  PROVE  QuietInv'
<1>1. ASSUME NEW on \in BOOLEAN, SetMox(on) \/ SetTxMonitorEnabled(on)
      PROVE  QuietInv'
  BY <1>1, BeginPlaces, QuietStays, ControllersAre, Zenon DEF SetMox, SetTxMonitorEnabled
<1>2. ASSUME NEW k \in Controllers, Leave(k) \/ Switch(k) \/ Done(k)
      PROVE  QuietInv'
  <2>1. UNCHANGED channelVars
    BY <1>2, Zenon DEF Leave, Switch, Done
  <2>2. PICK from \in {"look", "done"}, to \in {"idle", "on", "off"} : Step(k, from, to)
    BY <1>2, Zenon DEF Leave, Switch, Done
  <2> QED
    BY <2>1, <2>2, CallPlaces, QuietStays, SMT
<1> QED
  BY <1>1, <1>2

LEMMA QuietOn ==
  ASSUME TxaTypeOK, CallInv, QuietInv, NEW k \in Controllers, TurnOn(k) \/ Exchange(k)
  PROVE  QuietInv'
<1> USE DEF QuietInv, Quiet, channelVars, switches, slews, rings, history
<1>1. CallAt(k)
  BY Zenon DEF CallInv
<1>2. CASE TurnOn(k)
  <2>1. kpc[k] = "on" /\ state = 0
    BY <1>1, <1>2, Zenon DEF TurnOn, Step, CallAt
  <2>2. Step(k, "on", "exchange") /\ OnState
    BY <1>2, <2>1 DEF TurnOn
  <2>3. ~OffUnderWay /\ OnUnderWay' /\ ~OffUnderWay' /\ ~Polling'
    BY <2>2, CallPlaces, SMT
  <2>4. FlushDue' <=> FlushDue
    BY <2>2, Zenon DEF OnState, FlushDue
  <2>5. ~disturbed' => ~disturbed /\ ~FlushDue
    BY <2>2, Zenon DEF OnState
  <2>6. UNCHANGED <<semFlush, fpc, downflag>> /\ state' = 1 /\ ~execBypass'
    BY <2>2, Zenon DEF OnState, slews
  <2>7. ~FlushDue => fpc = "wait" /\ ~(semFlush > 0)
    BY Zenon DEF FlushDue
  <2> QED
    BY <2>1, <2>3, <2>4, <2>5, <2>6, <2>7
<1>3. CASE Exchange(k)
  <2>1. kpc[k] = "exchange" /\ state = 1
    BY <1>1, <1>3, Zenon DEF Exchange, Step, CallAt
  <2>2. Step(k, "exchange", "done") /\ OnExchange
    BY <1>3 DEF Exchange
  <2>3. ~OffUnderWay /\ ~OnUnderWay' /\ ~OffUnderWay' /\ ~Polling'
    BY <2>2, CallPlaces, SMT
  <2>4. FlushDue' <=> FlushDue
    BY <2>2, Zenon DEF OnExchange, FlushDue
  <2>5. ~disturbed => ~FlushDue /\ ~execBypass
    BY <2>1
  <2> QED
    BY <2>1, <2>2, <2>3, <2>4, <2>5 DEF OnExchange, FlushDue
<1> QED
  BY <1>2, <1>3

LEMMA QuietOff ==
  ASSUME TxaTypeOK, CallInv, QuietInv, NEW k \in Controllers,
         TurnOff(k) \/ Ask(k) \/ Poll(k)
  PROVE  QuietInv'
<1> USE DEF QuietInv, Quiet, channelVars, switches, slews, rings, history
<1>1. CallAt(k)
  BY Zenon DEF CallInv
<1>2. CASE TurnOff(k)
  <2>1. kpc[k] = "off" /\ state = 1
    BY <1>1, <1>2, Zenon DEF TurnOff, Step, CallAt
  <2>2. Step(k, "off", "ask") /\ OffState
    BY <1>2, <2>1 DEF TurnOff
  <2>3. OffUnderWay' /\ ~OnUnderWay' /\ ~Polling'
    BY <2>2, CallPlaces, SMT
  <2>4. FlushDue' <=> FlushDue
    BY <2>2, Zenon DEF OffState, FlushDue
  <2> QED
    BY <2>1, <2>2, <2>3, <2>4 DEF OffState, FlushDue
<1>3. CASE Ask(k)
  <2>1. kpc[k] = "ask" /\ state = 0
    BY <1>1, <1>3, Zenon DEF Ask, Step, CallAt
  <2>2. Step(k, "ask", "poll") /\ OffAsk
    BY <1>3 DEF Ask
  <2>3. OffUnderWay /\ OffUnderWay' /\ ~OnUnderWay /\ ~OnUnderWay'
    BY <2>2, CallPlaces, SMT
  <2>4. (FlushDue' <=> FlushDue) /\ (Clean' <=> Clean)
    BY <2>2, Zenon DEF OffAsk, FlushDue, Clean, Somebody, Inside
  <2> QED
    BY <2>1, <2>2, <2>3, <2>4 DEF OffAsk, FlushDue
<1>4. CASE Poll(k)
  <2>1. kpc[k] = "poll" /\ state = 0
    BY <1>1, <1>4, Zenon DEF Poll, Step, CallAt
  <2>2. Step(k, "poll", "done") /\ (OffFlushed \/ OffTimeout)
    BY <1>4, Zenon DEF Poll
  <2>3. Polling /\ ~OffUnderWay' /\ ~OnUnderWay' /\ ~Polling'
    BY <2>2, CallPlaces, SMT
  <2>4. FlushDue' <=> FlushDue
    BY <2>2, Zenon DEF OffFlushed, OffTimeout, FlushDue
  <2>5. CASE OffFlushed
    <3>1. Clean' <=> Clean
      BY <2>5, Zenon DEF OffFlushed, Clean, Somebody, Inside
    <3> QED
      BY <2>1, <2>3, <2>4, <2>5, <3>1 DEF OffFlushed, FlushDue, Clean
  <2>6. CASE OffTimeout
    <3>1. Clean => Clean'
      BY <2>6, Zenon DEF OffTimeout, Clean, Somebody, Inside
    <3> QED
      BY <2>1, <2>3, <2>4, <2>6, <3>1 DEF OffTimeout, FlushDue
  <2> QED
    BY <2>2, <2>5, <2>6
<1> QED
  BY <1>2, <1>3, <1>4

LEMMA PlacesStay ==
  ASSUME UNCHANGED kpc
  PROVE  /\ OnUnderWay' <=> OnUnderWay
         /\ OffUnderWay' <=> OffUnderWay
         /\ Polling' <=> Polling
BY Zenon DEF OnUnderWay, OffUnderWay, Polling

\* A call that turns the channel off has set its state.
LEMMA OffMeansZero ==
  ASSUME CallInv
  PROVE  OffUnderWay => state = 0
BY Zenon DEF CallInv, CallAt, OffUnderWay

LEMMA QuietCaller ==
  ASSUME TxaTypeOK, CallInv, QuietInv, PipeInv, NEW c \in Callers, Pump(c) \/ Move(c)
  PROVE  QuietInv'
<1> USE DEF switches, slews, rings, history, CallerAt
<1>1. UNCHANGED kpc
  BY Zenon DEF Pump, Move, callVars
<1>2. /\ OnUnderWay' <=> OnUnderWay
      /\ OffUnderWay' <=> OffUnderWay
      /\ Polling' <=> Polling
  BY <1>1, PlacesStay
<1> HIDE <1>1
<1>3. CASE Pump(c) \/ Admit(c) \/ TurnedAway(c)
  <2>1. UNCHANGED <<switches, slews, rings, semFlush, dpc, fpc, history>>
    BY <1>3, Zenon DEF Pump, Admit, TurnedAway
  <2>2. \A d \in Callers : (Inside(d)' <=> Inside(d)) /\ (cpc'[d] = "slewing" <=> cpc[d] = "slewing")
    BY <1>3, SMT DEF Pump, Admit, TurnedAway, Inside, TxaTypeOK
  <2>3. (Somebody' <=> Somebody) /\ (FlushDue' <=> FlushDue)
    BY <2>1, <2>2, Zenon DEF Somebody, FlushDue
  <2>4. Clean' <=> Clean
    BY <2>1, <2>3, SMT DEF Clean, Rest
  <2> QED
    BY <1>2, <2>1, <2>3, <2>4, SMT DEF QuietInv, Quiet
<1>4. CASE Put(c)
  <2>1. ~disturbed' => ~disturbed /\ exchange
    BY <1>4, Zenon DEF Put
  <2>2. \A d \in Callers : cpc'[d] = "slewing" <=> cpc[d] = "slewing"
    BY <1>4, SMT DEF Put, TxaTypeOK
  <2>3. FlushDue' <=> FlushDue
    BY <1>4, <2>2, Zenon DEF Put, FlushDue
  <2> QED
    BY <1>2, <1>4, <2>1, <2>3, SMT DEF Put, QuietInv, Quiet
<1>5. CASE Take(c)
  <2>1. Somebody
    BY <1>5, Zenon DEF Take, Somebody, Inside
  <2>2. FlushDue' => FlushDue \/ downflag
    BY <1>5, SMT DEF Take, FlushDue, TxaTypeOK
  <2>3. ~Clean
    BY <2>1, Zenon DEF Clean
  <2> QED
    BY <1>2, <1>5, <2>2, <2>3, OffMeansZero, SMT DEF Take, QuietInv, Quiet
<1>6. CASE Give(c)
  <2>1. Somebody
    BY <1>6, Zenon DEF Give, Somebody, Inside
  <2>2. FlushDue' => FlushDue
    BY <1>6, SMT DEF Give, FlushDue, TxaTypeOK
  <2>3. ~Clean
    BY <2>1, Zenon DEF Clean
  <2> QED
    BY <1>2, <1>6, <2>2, <2>3, SMT DEF Give, QuietInv, Quiet
<1>7. CASE Slew(c)
  <2>1. Somebody /\ FlushDue
    BY <1>7, Zenon DEF Slew, RampDown, Somebody, Inside, FlushDue
  <2>2. ~Clean
    BY <2>1, Zenon DEF Clean
  <2>3. /\ UNCHANGED <<state, flushflag, execBypass, dpc, fpc, history>>
        /\ downflag' => downflag
        /\ exchange' => exchange
    BY <1>7, Zenon DEF Slew, RampDown
  <2>4. semFlush' > 0 \/ fpc' # "wait" => (semFlush > 0 \/ fpc # "wait") \/ ~exchange'
    BY <1>7, Zenon DEF Slew, RampDown
  <2> QED
    BY <1>2, <2>1, <2>2, <2>3, <2>4, SMT DEF QuietInv, Quiet
<1> QED
  BY <1>3, <1>4, <1>5, <1>6, <1>7, Zenon DEF Move, CallerMoves

LEMMA QuietDsp ==
  ASSUME TxaTypeOK, CallInv, QuietInv, PipeInv, DspMove
  PROVE  QuietInv'
<1> USE DEF switches, slews, rings, history, DspMove, callVars, QuietInv, Quiet
<1>1. /\ OnUnderWay' <=> OnUnderWay
      /\ OffUnderWay' <=> OffUnderWay
      /\ Polling' <=> Polling
  BY PlacesStay
<1>2. UNCHANGED <<semFlush, cpc, fpc, history, switches, slews>>
  BY Zenon DEF DspMoves, DspWake, DspEnter, DspOut, DspIn
<1>3. (FlushDue' <=> FlushDue) /\ (Somebody' <=> Somebody)
  BY <1>2, Zenon DEF FlushDue, Somebody, Inside
<1>4. Clean => Clean'
  BY <1>2, <1>3, SMT DEF Clean, DspMoves, DspWake, DspEnter, DspOut, DspIn, Rest
<1>5. execBypass' => dpc' \notin {"in", "mid"}
  BY <1>2, SMT DEF DspMoves, DspWake, DspEnter, DspOut, DspIn
<1> QED
  BY <1>1, <1>2, <1>3, <1>4, <1>5, SMT

LEMMA QuietFlush ==
  ASSUME TxaTypeOK, CallInv, QuietInv, PipeInv, FlushMove
  PROVE  QuietInv'
<1> USE DEF switches, slews, rings, history, FlushMove, callVars, QuietInv, Quiet
<1>1. /\ OnUnderWay' <=> OnUnderWay
      /\ OffUnderWay' <=> OffUnderWay
      /\ Polling' <=> Polling
  BY PlacesStay
<1>2. CASE FlushWake \/ FlushEnter
  <2>1. UNCHANGED <<switches, slews, rings, cpc, dpc, history>>
    BY <1>2, Zenon DEF FlushWake, FlushEnter
  <2>2. Clean' <=> Clean
    BY <2>1, Zenon DEF Clean, Somebody, Inside, Rest
  <2>3. /\ FlushDue
        /\ semFlush > 0 \/ fpc # "wait"
        /\ fpc' # "flag"
    BY <1>2 DEF FlushWake, FlushEnter, FlushDue
  <2> QED
    BY <1>1, <2>1, <2>2, <2>3, SMT
<1>3. CASE FlushDone
  <2>1. /\ UNCHANGED <<state, exchange, execBypass, slews, rings, semFlush, cpc, dpc, history>>
        /\ fpc = "flag" /\ fpc' = "wait"
    BY <1>3, Zenon DEF FlushDone
  <2>2. Clean' <=> Clean
    BY <2>1, Zenon DEF Clean, Somebody, Inside, Rest
  <2>3. FlushDue /\ (semFlush' > 0 => semFlush > 0)
    BY <2>1, SMT DEF FlushDue
  <2> QED
    BY <1>1, <2>1, <2>2, <2>3, SMT
<1>4. CASE Flush
  <2>1. /\ fpc = "exch" /\ fpc' = "flag" /\ execBypass'
        /\ UNCHANGED <<state, exchange, flushflag, semFlush, cpc, dpc>>
        /\ ~disturbed' => ~disturbed \/ ~OnAgain
        /\ ~downflag'
    BY <1>4, Zenon DEF Flush, StartOver
  <2>2. FlushDue
    BY <2>1, SMT DEF FlushDue
  <2>3. ~disturbed' => state = 0 /\ ~exchange
    BY <2>1, <2>2, SMT DEF OnAgain, TxaTypeOK
  <2>4. Clean'
    BY <1>4, SMT DEF Clean, Flush, StartOver, Somebody, Inside, Rest
  <2>5. dpc' \notin {"in", "mid"}
    BY <2>1, SMT DEF PipeInv
  <2> QED
    BY <2>1, <2>3, <2>4, <2>5, SMT
<1> QED
  BY <1>2, <1>3, <1>4 DEF FlushMoves

-----------------------------------------------------------------------------
(* The books.                                                              *)

\* Blocks of the DSP thread that are queued or being fetched.
Pending == semBuff + (IF dpc \in {"in", "mid"} \/ (dpc = "lock" /\ ~execBypass) THEN 1 ELSE 0)

\* A caller has been promised a block and has not taken it yet.
Owed == \E c \in Callers : cpc[c] \in {"giving", "slewing"}

BooksInv ==
  /\ ~disturbed => fill1 = unqueued + Ratio * Pending
  /\ fill2 = semOut + (IF Owed THEN 1 ELSE 0)

LEMMA Multiples ==
  ASSUME NEW n \in Nat
  PROVE  Ratio * n \in Nat /\ Ratio * (n + 1) = Ratio * n + Ratio /\ Ratio * 0 = 0
BY RatioAssumption, SMT

LEMMA PendingNat == TxaTypeOK => Pending \in Nat
BY SMT DEF TxaTypeOK, Pending

\* Only one caller can be owed a block.
LEMMA OwedCount ==
  ASSUME PipeInv
  PROVE  Cardinality({c \in Callers : cpc[c] \in {"giving", "slewing"}})
           = IF Owed THEN 1 ELSE 0
<1> DEFINE S == {c \in Callers : cpc[c] \in {"giving", "slewing"}}
<1>1. CASE Owed
  <2>1. PICK c \in Callers : cpc[c] \in {"giving", "slewing"}
    BY <1>1, Zenon DEF Owed
  <2>2. S = {c}
    BY <2>1, SMT DEF PipeInv, Inside
  <2> QED
    BY <1>1, <2>2, FS_Singleton, Zenon
<1>2. CASE ~Owed
  <2>1. S = {}
    BY <1>2, Zenon DEF Owed
  <2> QED
    BY <1>2, <2>1, FS_EmptySet, SMT
<1> QED
  BY <1>1, <1>2

\* What calls do to the channel leaves the books alone.
LEMMA BooksCall ==
  ASSUME TxaTypeOK, BooksInv,
         UNCHANGED <<unqueued, semBuff, semOut, fill1, fill2, cpc, dpc>>,
         ~disturbed' => ~disturbed /\ ((execBypass' <=> execBypass) \/ dpc # "lock" \/ ~execBypass)
                                   /\ (execBypass' => execBypass)
  PROVE  BooksInv'
<1>1. ~disturbed' => Pending' = Pending
  BY SMT DEF Pending
<1>2. Owed' <=> Owed
  BY Zenon DEF Owed
<1> QED
  BY <1>1, <1>2, SMT DEF BooksInv

LEMMA BooksController ==
  ASSUME TxaTypeOK, BooksInv,
         \/ \E on \in BOOLEAN : SetMox(on) \/ SetTxMonitorEnabled(on)
         \/ \E k \in Controllers : Call(k)
  PROVE  BooksInv'
<1> USE DEF channelVars, switches, slews, rings, history
<1>1. ASSUME UNCHANGED channelVars
      PROVE  BooksInv'
  BY <1>1, BooksCall, Zenon
<1>2. ASSUME NEW on \in BOOLEAN, SetMox(on) \/ SetTxMonitorEnabled(on)
      PROVE  BooksInv'
  BY <1>1, <1>2, Zenon DEF SetMox, SetTxMonitorEnabled
<1>3. ASSUME NEW k \in Controllers, Leave(k) \/ Switch(k) \/ Done(k)
      PROVE  BooksInv'
  BY <1>1, <1>3, Zenon DEF Leave, Switch, Done
<1>4. CASE OnState
  <2>1. ~disturbed' => ~disturbed /\ ~(execBypass /\ dpc = "lock")
    BY <1>4, Zenon DEF OnState, StaleWake
  <2> QED
    BY <1>4, <2>1, BooksCall, Zenon DEF OnState
<1>5. CASE OnExchange \/ OffState \/ OffAsk \/ OffFlushed \/ OffTimeout
  <2>1. UNCHANGED <<unqueued, semBuff, semOut, fill1, fill2, cpc, dpc, execBypass, disturbed>>
    BY <1>5, Zenon DEF OnExchange, OffState, OffAsk, OffFlushed, OffTimeout
  <2> QED
    BY <2>1, BooksCall, Zenon
<1>6. ASSUME NEW k \in Controllers,
             TurnOn(k) \/ Exchange(k) \/ TurnOff(k) \/ Ask(k) \/ Poll(k)
      PROVE  BooksInv'
  BY <1>1, <1>4, <1>5, <1>6, Zenon DEF TurnOn, Exchange, TurnOff, Ask, Poll
<1> QED
  BY <1>2, <1>3, <1>6, Zenon DEF Call

LEMMA BooksCaller ==
  ASSUME TxaTypeOK, BooksInv, PipeInv, NEW c \in Callers, Pump(c) \/ Move(c)
  PROVE  BooksInv'
<1> USE DEF switches, slews, rings, history, CallerAt
<1>1. CASE Pump(c) \/ Admit(c) \/ TurnedAway(c)
  <2>1. Owed' <=> Owed
    BY <1>1, SMT DEF Pump, Admit, TurnedAway, Owed, TxaTypeOK
  <2>2. UNCHANGED <<unqueued, semBuff, semOut, fill1, fill2, dpc, execBypass, disturbed>>
    BY <1>1, Zenon DEF Pump, Admit, TurnedAway
  <2> QED
    BY <2>1, <2>2, SMT DEF BooksInv, Pending
<1>2. CASE Put(c)
  <2>1. Owed' <=> Owed
    BY <1>2, SMT DEF Put, Owed, TxaTypeOK
  <2>2. ~disturbed' => ~disturbed
    BY <1>2, Zenon DEF Put
  <2>3. CASE unqueued + 1 = Ratio
    <3>1. Pending' = Pending + 1 /\ unqueued' = 0 /\ fill1' = fill1 + 1
      BY <1>2, <2>3, OneMore, RatioAssumption, SMT DEF Put, Pending, TxaTypeOK
    <3> QED
      BY <1>2, <2>1, <2>2, <2>3, <3>1, Multiples, PendingNat, RatioAssumption, SMT
         DEF Put, BooksInv, TxaTypeOK
  <2>4. CASE unqueued + 1 # Ratio
    <3>1. Pending' = Pending /\ unqueued' = unqueued + 1 /\ fill1' = fill1 + 1
      BY <1>2, <2>4, OneMore, RatioAssumption, SMT DEF Put, Pending, TxaTypeOK
    <3> QED
      BY <1>2, <2>1, <2>2, <3>1, Multiples, PendingNat, RatioAssumption, SMT
         DEF Put, BooksInv, TxaTypeOK
  <2> QED
    BY <2>3, <2>4
<1>3. CASE Take(c)
  <2>1. ~Owed /\ Owed'
    BY <1>3, SMT DEF Take, Owed, PipeInv, Inside
  <2> QED
    BY <1>3, <2>1, SMT DEF Take, BooksInv, Pending, TxaTypeOK
<1>4. CASE Give(c) \/ Slew(c)
  <2>1. Owed /\ ~Owed'
    BY <1>4, SMT DEF Give, Slew, RampDown, Owed, PipeInv, Inside
  <2>2. /\ UNCHANGED <<unqueued, semBuff, semOut, fill1, dpc, execBypass, disturbed>>
        /\ fill2' = fill2 - 1
    BY <1>4, Zenon DEF Give, Slew, RampDown
  <2> QED
    BY <2>1, <2>2, SMT DEF BooksInv, Pending, TxaTypeOK
<1> QED
  BY <1>1, <1>2, <1>3, <1>4, Zenon DEF Move, CallerMoves

LEMMA BooksThread ==
  ASSUME TxaTypeOK, BooksInv, QuietInv, PipeInv, DspMove \/ FlushMove
  PROVE  BooksInv'
<1> USE DEF switches, slews, rings, history, Pending
<1>1. UNCHANGED cpc
  BY Zenon DEF DspMove, FlushMove, DspMoves, DspWake, DspEnter, DspOut, DspIn, FlushMoves,
               FlushWake, FlushEnter, Flush, StartOver, FlushDone
<1>2. Owed' <=> Owed
  BY <1>1, Zenon DEF Owed
<1> HIDE <1>1
<1>3. CASE DspWake
  <2>1. ~disturbed => ~execBypass
    BY <1>3, SMT DEF DspWake, QuietInv, Quiet, Clean
  <2> QED
    BY <1>2, <1>3, <2>1, SMT DEF DspWake, BooksInv, TxaTypeOK
<1>4. CASE DspEnter
  BY <1>2, <1>4, SMT DEF DspEnter, BooksInv, TxaTypeOK
<1>5. CASE DspOut
  BY <1>2, <1>5, RatioAssumption, SMT DEF DspOut, BooksInv, TxaTypeOK
<1>6. CASE DspIn
  BY <1>2, <1>6, Multiples, RatioAssumption, SMT DEF DspIn, BooksInv, TxaTypeOK
<1>7. CASE FlushWake \/ FlushEnter \/ FlushDone
  <2>1. UNCHANGED <<unqueued, semBuff, semOut, fill1, fill2, dpc, execBypass, disturbed>>
    BY <1>7, Zenon DEF FlushWake, FlushEnter, FlushDone
  <2> QED
    BY <1>2, <2>1, SMT DEF BooksInv
<1>8. CASE Flush
  <2>1. ~Owed
    BY <1>8, SMT DEF Flush, Somebody, Inside, Owed
  <2>2. dpc' \notin {"in", "mid"} /\ execBypass'
    BY <1>8, SMT DEF Flush, StartOver, PipeInv
  <2> QED
    BY <1>2, <1>8, <2>1, <2>2, Multiples, RatioAssumption, SMT
       DEF Flush, StartOver, Rest, BooksInv
<1> QED
  BY <1>3, <1>4, <1>5, <1>6, <1>7, <1>8 DEF DspMove, FlushMove, DspMoves, FlushMoves

-----------------------------------------------------------------------------
(* Together.                                                               *)

DriveInv == TxaTypeOK /\ PipeInv /\ CallInv /\ QuietInv /\ BooksInv

LEMMA DriveInit == Init => DriveInv
<1> SUFFICES ASSUME Init
             PROVE  QuietInv /\ BooksInv /\ TxaTypeOK
  BY PipeInit, CallInvInit DEF DriveInv
<1> USE RatioAssumption DEF Init, ChannelInit, Somebody, Inside
<1>1. QuietInv
  BY SMT DEF QuietInv, Quiet, Clean, FlushDue, OffUnderWay, Polling, OnUnderWay
<1>2. BooksInv
  BY Multiples, SMT DEF BooksInv, Owed, Pending, Rest
<1> QED
  BY <1>1, <1>2, TypeInit

LEMMA DriveStep ==
  ASSUME ~Overlap, DriveInv, [Next]_vars
  PROVE  DriveInv'
<1> USE DEF DriveInv
<1>1. TxaTypeOK' /\ PipeInv' /\ CallInv'
  BY TypeStep, PipeStep, CallInvStep
<1>2. QuietInv'
  <2>1. CASE UNCHANGED vars
    BY <2>1, PlacesStay, QuietStays, Zenon DEF vars, callVars
  <2> QED
    BY <2>1, QuietSwitches, QuietOn, QuietOff, QuietCaller, QuietDsp, QuietFlush, Zenon
       DEF Next, Call
<1>3. BooksInv'
  <2>1. CASE UNCHANGED vars
    BY <2>1, BooksCall, Zenon DEF vars, channelVars, rings, switches, history
  <2> QED
    BY <2>1, BooksController, BooksCaller, BooksThread, Zenon DEF Next
<1> QED
  BY <1>1, <1>2, <1>3

LEMMA BooksAreRight ==
  ASSUME DriveInv
  PROVE  RingBooks
<1> SUFFICES ASSUME ~disturbed
             PROVE  /\ fill1 = unqueued + Ratio * Pending
                    /\ fill2 = semOut + Cardinality({c \in Callers : cpc[c] \in {"giving", "slewing"}})
  BY DEF RingBooks, Pending
<1> QED
  BY OwedCount, SMT DEF DriveInv, BooksInv

LEMMA RingsAreHeld ==
  ASSUME DriveInv
  PROVE  RingsHold
<1> SUFFICES ASSUME ~disturbed
             PROVE  /\ fill1 \in 0 .. 2 * Ratio + (IF dpc = "mid" THEN Ratio ELSE 0)
                    /\ fill2 \in 0 .. 2 * Ratio
  BY DEF RingsHold
<1>1. fill1 \in Nat /\ fill2 \in Nat
  BY Multiples, PendingNat, RatioAssumption, SMT DEF DriveInv, BooksInv, TxaTypeOK
<1>2. dpc = "mid" => fill1 >= Ratio
  <2>1. dpc = "mid" => Pending = semBuff + 1
    BY SMT DEF Pending
  <2> QED
    BY <2>1, Multiples, RatioAssumption, SMT DEF DriveInv, BooksInv, TxaTypeOK
<1>3. InFlight \in {Ratio, Ratio + 1}
  BY RatioAssumption, SMT DEF DriveInv, PipeInv
<1> QED
  BY <1>1, <1>2, <1>3, RatioAssumption, SMT DEF InFlight

\* A channel that comes up undisturbed after an orderly off is clean.
LEMMA UpIsClean ==
  ASSUME ~Overlap, DriveInv, [Next]_vars,
         state = 0, state' = 1, ~timedOut, ~disturbed'
  PROVE  fill1 = 0 /\ fill2 = Rest /\ semBuff = 0 /\ downPos = 0
<1>1. \E k \in Controllers : TurnOn(k)
  <2>1. UNCHANGED vars => state' = state
    BY Zenon DEF vars, channelVars, switches
  <2>2. \A on \in BOOLEAN : SetMox(on) \/ SetTxMonitorEnabled(on) => state' = state
    BY Zenon DEF SetMox, SetTxMonitorEnabled, channelVars, switches
  <2>3. (\E c \in Callers : Pump(c) \/ Move(c)) \/ DspMove \/ FlushMove => state' = state
    BY PumpsAndThreadsSettle
  <2>4. \A k \in Controllers :
          Leave(k) \/ Switch(k) \/ Exchange(k) \/ Ask(k) \/ Poll(k) \/ Done(k) => state' = state
    BY Zenon DEF Leave, Switch, Exchange, Ask, Poll, Done, OnExchange, OffAsk, OffFlushed,
                 OffTimeout, channelVars, switches
  <2>5. \A k \in Controllers : TurnOff(k) => state' = 0 \/ state' = state
    BY Zenon DEF TurnOff, OffState, channelVars, switches
  <2> QED
    BY <2>1, <2>2, <2>3, <2>4, <2>5, SMT DEF Next, Call
<1>2. PICK k \in Controllers : TurnOn(k)
  BY <1>1
<1>3. Step(k, "on", "exchange") /\ OnState
  BY <1>2 DEF TurnOn
<1>4. ~OffUnderWay
  BY <1>3, CallPlaces, SMT DEF DriveInv
<1>5. ~disturbed
  BY <1>3, Zenon DEF OnState
<1> QED
  BY <1>4, <1>5, SMT DEF DriveInv, QuietInv, Quiet, Clean

\* Of two calls that do not overlap, semaphores and rings tell the same story
\* until a race window is hit, for every ratio, every ramp and every number of
\* pumps.
THEOREM BooksAgree ==
  ASSUME ~Overlap
  PROVE  Spec => []RingBooks
BY DriveInit, DriveStep, BooksAreRight, PTL DEF Spec

\* Until a race window is hit no ring runs below empty or beyond its room, but
\* for the block the input ring may hold too many between the two halves of
\* dexchange.
THEOREM RingsStayInBounds ==
  ASSUME ~Overlap
  PROVE  Spec => []RingsHold
BY DriveInit, DriveStep, RingsAreHeld, PTL DEF Spec

\* Nothing of the last transmission is heard in the next one, unless that one
\* begins while something of the last is still on its way.
THEOREM CleanStart ==
  ASSUME ~Overlap
  PROVE  Spec => ComesUpClean
<1>1. DriveInv /\ [Next]_vars
        => [ (state = 0 /\ state' = 1 /\ ~timedOut /\ ~disturbed')
               => fill1 = 0 /\ fill2 = Rest /\ semBuff = 0 /\ downPos = 0 ]_vars
  BY UpIsClean
<1> QED
  BY <1>1, DriveInit, DriveStep, PTL DEF Spec, ComesUpClean
=============================================================================
