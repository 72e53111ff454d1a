------------------------------ MODULE TxKeying ------------------------------
(***************************************************************************)
(* The keying core of the transceiver: TxService and what it drives.       *)
(*                                                                         *)
(* Every key request (MOX, TUN, two-tone test, protection trip) runs on    *)
(* the thread that made it: an HTTP request, a TCI session, the receive    *)
(* thread of the radio (hardware PTT), the CW worker, the meter loop.      *)
(* TxService changes its flags in one critical section under _sync and     *)
(* applies the consequences AFTER it has left the lock, one call at a      *)
(* time: the TxActiveChanged event, the DSP engine, the radio, the UI      *)
(* broadcast.  todo[c] is the rest of those calls of thread c, so threads  *)
(* interleave between any two of them.                                     *)
(***************************************************************************)
EXTENDS Naturals, Sequences

CONSTANTS
  Callers,     \* threads that call TxService
  Ops,         \* the operations they use, a subset of AllOps
  Sources,     \* MoxSource values in use, with "UI", the master override
  Protocols,   \* the protocols the radio may be connected with
  Reconnects   \* TRUE iff a connect may fail and the radio may disconnect

AllOps == {"mox", "tun", "twotone", "trip"}

ASSUME OpsAssumption == Ops \subseteq AllOps
ASSUME SourcesAssumption == "UI" \in Sources /\ "none" \notin Sources
ASSUME ProtocolsAssumption == Protocols \subseteq {"P1", "P2"}
ASSUME ReconnectsAssumption == Reconnects \in BOOLEAN

VARIABLES
  moxOn, tunOn,                \* _moxOn, _tunOn
  owner,                       \* _moxOwner, "none" when null
  moxStartedAt, tunStartedAt,  \* a time since which the flag is set, or null
  lastFired,                   \* _lastTxActiveFired
  call,                        \* a call between its checks and the lock
  ret,                         \* what a thread's last call returned, if it did
  todo,                        \* effects a thread still has to apply
  hw,                          \* what the effects drive, see Lines
  shown,                       \* last MoxStateFrame broadcast to the UI
  heard,                       \* last value TxActiveChanged was raised with
  link,                        \* how far a connect or disconnect has come
  lastOp,                      \* history: operation of the last lock section
  upset,                       \* history: a two-tone test was used, or the
                               \* link has moved while keyed or unapplied
  torn                         \* history: callers under whose last effects
                               \* the link has moved

flags == <<moxOn, tunOn, owner, moxStartedAt, tunStartedAt, lastFired>>
outside == <<hw, shown, heard>>
history == <<lastOp, upset, torn>>
vars == <<flags, call, ret, todo, outside, link, history>>

\* The state that off-lock effects drive:
\*   engineMox, engineTune  IDspEngine.SetMox / SetTxTune
\*   radioMox               RadioService._mox
\*   wireMox                the MOX bit of the live protocol client
\*   tuneDrive              RadioService._tunActive, the drive source
\*   twoTone                TxService.IsTwoToneOn
\*   generator              StateDto.TwoToneEnabled
Lines == {"engineMox", "engineTune", "radioMox", "wireMox", "tuneDrive",
          "twoTone", "generator"}

Stamps == {"null", "recent", "overdue"}
Effects == [fx: Lines \cup {"raise", "show"}, on: BOOLEAN, tun: BOOLEAN]
Calls == [op: AllOps, on: BOOLEAN, source: Sources]
NoCall == [op |-> "none", on |-> FALSE, source |-> "none"]

Idle(c) == call[c] = NoCall /\ todo[c] = << >>
Quiet == \A c \in Callers : Idle(c)
Applied == \A c \in Callers : todo[c] = << >>

\* Only MOX carries a source; a trip has no on/off.
Request ==
  {k \in Calls : /\ k.op \in Ops
                 /\ k.op # "mox" => k.source = "UI"
                 /\ k.op = "trip" => ~k.on}

\* The stages of the link.  The client a connect publishes and the engine it
\* opens appear one after the other, and go one after the other.
Stages == {"down",
           "p1opening",   \* _activeClient is set, the old engine is in use
           "p1settling",  \* the new engine is in use
           "p1told",      \* the other subscribers of Connected know
           "p1up",
           "p1dropping",  \* _activeClient is null, its client still runs
           "p1detached",  \* the synthetic engine is in use
           "p1closing",   \* the other subscribers know, the client ends
           "p2engine",    \* the new engine is in use, _p2Client is null
           "p2wired",     \* _p2Client is set, _p2Active is not
           "p2up",
           "p2dropping",  \* _p2Client is null, its client still runs
           "p2stopped",   \* the client is gone, its engine is in use
           "p2ending"}    \* the synthetic engine is in use

\* RadioService.IsConnected: _activeClient is not null || _p2Active.
Connected == link \in {"p1opening", "p1settling", "p1told", "p1up",
                       "p2up", "p2dropping", "p2stopped", "p2ending"}

\* SetMox reaches a client: ActiveClient or _p2Client is not null.
Wired == link \in {"p1opening", "p1settling", "p1told", "p1up",
                   "p2wired", "p2up"}

\* No connect or disconnect is under way.
AtRest == link \in {"down", "p1up", "p2up"}

-----------------------------------------------------------------------------
(* Effects, in the order the code makes the calls.                         *)

Fx(name, on) == [fx |-> name, on |-> on, tun |-> FALSE]
Show(mox, tun) == <<[fx |-> "show", on |-> mox, tun |-> tun]>>
When(b, s) == IF b THEN s ELSE << >>

\* CaptureTxActiveChangeUnderLock: the value to raise, if it changed.
Raise(active) == When(active # lastFired, <<Fx("raise", active)>>)

\* RadioService.SetMox: the local bit, then the live client.
RadioSetMox(on) == <<Fx("radioMox", on), Fx("wireMox", on)>>
PipelineSetMox(on) == <<Fx("engineMox", on)>>
PipelineSetTxTune(on) == <<Fx("engineTune", on)>>
NotifyTunActive(on) == <<Fx("tuneDrive", on)>>

\* Mutant: the radio is keyed before the engine has muted the receiver.
MoxEffectsRadioFirst(on) ==
  Raise(on \/ tunOn)
    \o When(tunOn /\ on, PipelineSetTxTune(FALSE))
    \o RadioSetMox(on) \o PipelineSetMox(on)
    \o NotifyTunActive(FALSE) \o Show(on, FALSE)

MoxEffects(on) ==
  Raise(on \/ tunOn)
    \o When(tunOn /\ on, PipelineSetTxTune(FALSE))
    \o PipelineSetMox(on) \o RadioSetMox(on)
    \o NotifyTunActive(FALSE) \o Show(on, FALSE)

TunEffects(on) ==
  Raise(on \/ moxOn)
    \o When(moxOn /\ on, PipelineSetMox(FALSE) \o RadioSetMox(FALSE))
    \o PipelineSetMox(on) \o RadioSetMox(on) \o PipelineSetTxTune(on)
    \o NotifyTunActive(on) \o Show(FALSE, on)

TwoToneOnEffects ==
  Raise(TRUE)
    \o When(tunOn, PipelineSetTxTune(FALSE))
    \o <<Fx("generator", TRUE), Fx("twoTone", TRUE)>>
    \o PipelineSetMox(TRUE) \o RadioSetMox(TRUE)
    \o NotifyTunActive(FALSE) \o Show(TRUE, FALSE)

TwoToneOffEffects ==
  Raise(tunOn)
    \o <<Fx("twoTone", FALSE)>>
    \o PipelineSetMox(FALSE) \o RadioSetMox(FALSE)
    \o <<Fx("generator", FALSE)>> \o Show(FALSE, FALSE)

\* Mutant: a trip that stops the tune carrier but leaves the tune drive.
TripEffectsKeepDrive ==
  When(moxOn \/ tunOn,
       PipelineSetMox(FALSE) \o RadioSetMox(FALSE)
         \o When(tunOn, PipelineSetTxTune(FALSE))
         \o Show(FALSE, FALSE))
    \o Raise(FALSE)

\* Mutant: a trip that unkeys only when MOX was on.
TripEffectsMoxOnly ==
  When(moxOn,
       PipelineSetMox(FALSE) \o RadioSetMox(FALSE)
         \o NotifyTunActive(FALSE) \o Show(FALSE, FALSE))
    \o Raise(FALSE)

\* A trip raises last, after the transmitter is down.
TripEffects ==
  When(moxOn \/ tunOn,
       PipelineSetMox(FALSE) \o RadioSetMox(FALSE)
         \o When(tunOn, PipelineSetTxTune(FALSE))
         \o NotifyTunActive(FALSE) \o Show(FALSE, FALSE))
    \o Raise(FALSE)

-----------------------------------------------------------------------------
(* The entry of a call: interlocks that run before the lock is taken.      *)

\* The connect interlock held and the band guard let the call through; the
\* band guard (VFO, mode, region) is a choice of the environment.
Enter(c, k) ==
  /\ Idle(c)
  /\ k.on => Connected
  /\ call' = [call EXCEPT ![c] = k]
  /\ ret' = [ret EXCEPT ![c] = "ok"]
  /\ UNCHANGED <<flags, todo, outside, link, history>>

\* "not connected", or the band guard refused the key-down.
Refuse(c, k) ==
  /\ Idle(c)
  /\ k.on
  /\ ret' = [ret EXCEPT ![c] = "fail"]
  /\ UNCHANGED <<flags, call, todo, outside, link, history>>

(* The critical sections.                                                  *)

Return(c, r, effects) ==
  /\ call' = [call EXCEPT ![c] = NoCall]
  /\ ret' = [ret EXCEPT ![c] = r]
  /\ todo' = [todo EXCEPT ![c] = effects]
  /\ lastOp' = call[c].op
  /\ upset' = (upset \/ call[c].op = "twotone")
  /\ torn' = torn \ {c}
  /\ UNCHANGED <<outside, link>>

SetFlags(mox, moxAt, own, tun, tunAt) ==
  /\ moxOn' = mox /\ moxStartedAt' = moxAt /\ owner' = own
  /\ tunOn' = tun /\ tunStartedAt' = tunAt
  /\ lastFired' = (mox \/ tun)

\* Mutant: the owner check is gone, any source may release.
ForeignDropAllowed(k) == FALSE

\* A source other than the operator may not drop a MOX it does not own.
ForeignDrop(k) ==
  /\ ~k.on
  /\ k.source # "UI" /\ owner # "none" /\ owner # k.source

MoxNoOp(c) ==
  /\ call[c].op = "mox" /\ moxOn = call[c].on
  /\ Return(c, "ok", << >>)
  /\ UNCHANGED flags

MoxForeign(c) ==
  /\ call[c].op = "mox" /\ moxOn # call[c].on
  /\ ForeignDrop(call[c])
  /\ Return(c, "fail", << >>)
  /\ UNCHANGED flags

MoxKey(c) ==
  /\ call[c].op = "mox" /\ moxOn # call[c].on
  /\ call[c].on
  /\ Return(c, "ok", MoxEffects(TRUE))
  /\ SetFlags(TRUE, "recent", call[c].source, FALSE, "null")

MoxUnkey(c) ==
  /\ call[c].op = "mox" /\ moxOn # call[c].on
  /\ ~call[c].on
  /\ ~ForeignDrop(call[c])
  /\ Return(c, "ok", MoxEffects(FALSE))
  /\ SetFlags(FALSE, "null", "none", tunOn, tunStartedAt)

TunNoOp(c) ==
  /\ call[c].op = "tun" /\ tunOn = call[c].on
  /\ Return(c, "ok", << >>)
  /\ UNCHANGED flags

\* Mutant: TUN takes the channel and leaves the MOX flag and owner behind.
TunKeyKeepsMox(c) ==
  /\ call[c].op = "tun" /\ tunOn # call[c].on
  /\ call[c].on
  /\ Return(c, "ok", TunEffects(TRUE))
  /\ SetFlags(moxOn, moxStartedAt, owner, TRUE, "recent")

TunKey(c) ==
  /\ call[c].op = "tun" /\ tunOn # call[c].on
  /\ call[c].on
  /\ Return(c, "ok", TunEffects(TRUE))
  /\ SetFlags(FALSE, "null", "none", TRUE, "recent")

TunUnkey(c) ==
  /\ call[c].op = "tun" /\ tunOn # call[c].on
  /\ ~call[c].on
  /\ Return(c, "ok", TunEffects(FALSE))
  /\ SetFlags(moxOn, moxStartedAt, owner, FALSE, "null")

TwoToneArm(c) ==
  /\ call[c].op = "twotone" /\ call[c].on
  /\ Return(c, "ok", TwoToneOnEffects)
  /\ SetFlags(TRUE, "recent", "UI", FALSE, "null")

TwoToneDisarm(c) ==
  /\ call[c].op = "twotone" /\ ~call[c].on
  /\ Return(c, "ok", TwoToneOffEffects)
  /\ SetFlags(FALSE, "null", "none", tunOn, tunStartedAt)

Trip(c) ==
  /\ call[c].op = "trip"
  /\ Return(c, "ok", TripEffects)
  /\ SetFlags(FALSE, "null", "none", FALSE, "null")

Lock(c) ==
  \/ MoxNoOp(c) \/ MoxForeign(c) \/ MoxKey(c) \/ MoxUnkey(c)
  \/ TunNoOp(c) \/ TunKey(c) \/ TunUnkey(c)
  \/ TwoToneArm(c) \/ TwoToneDisarm(c)
  \/ Trip(c)

-----------------------------------------------------------------------------
(* One off-lock effect.  Without a client to reach only RadioService's own *)
(* bit changes.                                                            *)

Next1(c) == Head(todo[c])
Done1(c) == todo' = [todo EXCEPT ![c] = Tail(@)]
               /\ UNCHANGED <<flags, call, ret, link, history>>

Drive(c) ==
  /\ todo[c] # << >> /\ Next1(c).fx \in Lines
  /\ hw' = IF Next1(c).fx = "wireMox" /\ ~Wired
              THEN hw ELSE [hw EXCEPT ![Next1(c).fx] = Next1(c).on]
  /\ Done1(c)
  /\ UNCHANGED <<shown, heard>>

RaiseTxActiveChanged(c) ==
  /\ todo[c] # << >> /\ Next1(c).fx = "raise"
  /\ heard' = Next1(c).on
  /\ Done1(c)
  /\ UNCHANGED <<hw, shown>>

BroadcastMoxState(c) ==
  /\ todo[c] # << >> /\ Next1(c).fx = "show"
  /\ shown' = [mox |-> Next1(c).on, tun |-> Next1(c).tun]
  /\ Done1(c)
  /\ UNCHANGED <<hw, heard>>

Effect(c) == Drive(c) \/ RaiseTxActiveChanged(c) \/ BroadcastMoxState(c)

-----------------------------------------------------------------------------
(* The link.  A connect publishes a client and installs a new DSP engine,  *)
(* a disconnect does the reverse; neither starts keyed, and TxService is   *)
(* not told.  The key calls of other threads fall between the steps.       *)

Engine == {"engineMox", "engineTune"}
Wire == {"wireMox"}

\* From one stage to the next; what is replaced or torn down loses its bits.
Move(from, to, cleared) ==
  /\ link = from /\ link' = to
  /\ hw' = [l \in Lines |-> hw[l] /\ l \notin cleared]
  /\ upset' = (upset \/ moxOn \/ tunOn \/ ~Applied)
  /\ torn' = {c \in Callers : todo[c] # << >>}
  /\ UNCHANGED <<flags, call, ret, todo, shown, heard, lastOp>>

\* Protocol 1: the client is published before it has connected; Connected is
\* raised once its receive loop runs, and installs the engine.
P1Open == "P1" \in Protocols /\ Move("down", "p1opening", Wire)
P1Swap == Move("p1opening", "p1settling", Engine)
P1Tell == Move("p1settling", "p1told", {})
P1Up == Move("p1told", "p1up", {})

\* Any exception of the connect: the client is forgotten, the engine stays.
P1Fail ==
  /\ Reconnects
  /\ \E from \in {"p1opening", "p1settling", "p1told"} :
        Move(from, "p1closing", {})

P1Drop == Reconnects /\ Move("p1up", "p1dropping", {})
P1Detach == Move("p1dropping", "p1detached", Engine)
P1Untell == Move("p1detached", "p1closing", {})
P1Close == Move("p1closing", "down", Wire)

\* Protocol 2: the engine comes first, IsConnected last, both ways.
P2Swap == "P2" \in Protocols /\ Move("down", "p2engine", Engine)
P2Attach == Move("p2engine", "p2wired", Wire)
P2Up == Move("p2wired", "p2up", {})
P2Drop == Reconnects /\ Move("p2up", "p2dropping", {})
P2Stop == Move("p2dropping", "p2stopped", Wire)
P2Detach == Move("p2stopped", "p2ending", Engine)
P2Down == Move("p2ending", "down", {})

P1Step == \/ P1Open \/ P1Swap \/ P1Tell \/ P1Up \/ P1Fail
          \/ P1Drop \/ P1Detach \/ P1Untell \/ P1Close
P2Step == \/ P2Swap \/ P2Attach \/ P2Up
          \/ P2Drop \/ P2Stop \/ P2Detach \/ P2Down

LinkStep == P1Step \/ P2Step

-----------------------------------------------------------------------------
Init ==
  /\ moxOn = FALSE /\ tunOn = FALSE /\ owner = "none"
  /\ moxStartedAt = "null" /\ tunStartedAt = "null"
  /\ lastFired = FALSE
  /\ call = [c \in Callers |-> NoCall]
  /\ ret = [c \in Callers |-> "ok"]
  /\ todo = [c \in Callers |-> << >>]
  /\ hw = [l \in Lines |-> FALSE]
  /\ shown = [mox |-> FALSE, tun |-> FALSE]
  /\ heard = FALSE
  /\ link = "down"
  /\ lastOp = "none" /\ upset = FALSE /\ torn = {}

Thread(c) == (\E k \in Request : Enter(c, k) \/ Refuse(c, k))
                \/ Lock(c) \/ Effect(c)

Next == (\E c \in Callers : Thread(c)) \/ LinkStep

Spec == Init /\ [][Next]_vars

-----------------------------------------------------------------------------
TypeOK ==
  /\ moxOn \in BOOLEAN /\ tunOn \in BOOLEAN /\ lastFired \in BOOLEAN
  /\ owner \in Sources \cup {"none"}
  /\ moxStartedAt \in Stamps /\ tunStartedAt \in Stamps
  /\ call \in [Callers -> Calls \cup {NoCall}]
  /\ ret \in [Callers -> {"ok", "fail"}]
  /\ todo \in [Callers -> Seq(Effects)]
  /\ hw \in [Lines -> BOOLEAN]
  /\ shown \in [mox: BOOLEAN, tun: BOOLEAN]
  /\ heard \in BOOLEAN /\ link \in Stages
  /\ lastOp \in AllOps \cup {"none"} /\ upset \in BOOLEAN
  /\ torn \subseteq Callers

\* Never both the microphone chain and the tune carrier, whichever threads
\* key them (PRD FR-7 mutual exclusion).
MutualExclusion == ~(moxOn /\ tunOn)

\* MOX has an owner exactly while it is on: an owner left behind would make
\* every later release by its rightful source a foreign drop.
OwnerIffMox == (owner # "none") = moxOn

\* The 120 s watchdog reads only the two start times; a keyed flag without
\* its start time would never be timed out, a start time without its flag
\* would trip the receiver.
WatchdogArmed ==
  /\ (moxStartedAt # "null") = moxOn
  /\ (tunStartedAt # "null") = tunOn

\* The edge detector never loses or repeats an edge of the combined state.
EdgeDetector == lastFired = (moxOn \/ tunOn)

KeyInv == MutualExclusion /\ OwnerIffMox /\ WatchdogArmed /\ EdgeDetector

\* Ownership: a step that takes MOX from a source that is not the UI is that
\* source's own release, the operator, TUN or two-tone taking the channel, or
\* a trip.  MOX never passes straight from a source to another one: only the
\* operator's two-tone test re-seats it (MoxSource.cs:8-25).
NoForeignTakeover ==
  [][\A s \in Sources \ {"UI"} :
        owner = s /\ owner' # s =>
          /\ owner' \in {"none", "UI"}
          /\ \E c \in Callers :
               /\ call[c] # NoCall /\ call'[c] = NoCall
               /\ call[c].op = "mox" => call[c].source \in {s, "UI"}]_vars

(* Agreement of the flags with what they drive, once no call is in flight. *)

OnAir == moxOn \/ tunOn

\* What an effect line must read when every effect has been applied.
Target(l) ==
  CASE l \in {"engineMox", "radioMox"} -> OnAir
    [] l = "wireMox" -> OnAir /\ Wired
    [] l \in {"engineTune", "tuneDrive"} -> tunOn
    [] OTHER -> hw[l]

\* With one caller at a time the engine, the radio, the wire, the drive source,
\* the UI and the subscribers all agree with the flags whenever no call is in
\* flight: no sequence of key, preempt, release and trip leaves a tune carrier,
\* a tune drive or a stale lamp behind.  A two-tone test and a step of the link
\* while keyed or under way do break it, for good: ~upset, README, section 5.
SettledAgreement ==
  Quiet /\ ~upset =>
    /\ \A l \in Lines : hw[l] = Target(l)
    /\ shown = [mox |-> moxOn, tun |-> tunOn]
    /\ heard = lastFired

\* With one caller the carrier is only ever keyed on the wire over an engine
\* that has already muted the receiver and started the transmit chain, unless
\* the link moved under the very call that keys it (torn): connecting publishes
\* the client before it replaces the engine.
EngineBeforeWire ==
  [][torn = {} /\ ~hw["wireMox"] /\ hw'["wireMox"] => hw["engineMox"]]_vars

\* With one caller, two-tone and reconnects included, a carrier on the wire of
\* a client in use is always one the 120 s watchdog can see.
NoUnwatchedCarrier ==
  Quiet /\ Wired /\ hw["wireMox"] =>
    moxStartedAt # "null" \/ tunStartedAt # "null"

(* What the repository says and the code does not do; see README.          *)

\* TxService.cs:412: "Trip always wins regardless of owner": once a trip is
\* the last to have changed the flags and all calls have returned, the radio
\* is not transmitting.
TripAlwaysWins == Quiet /\ lastOp = "trip" => ~hw["wireMox"]
=============================================================================
