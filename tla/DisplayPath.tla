---------------------------- MODULE DisplayPath ----------------------------
(***************************************************************************)
(* The way of the panadapter from samples to clients: the receiver's       *)
(* worker feeds the analyzer, DspPipelineService.Tick reads its pixels and *)
(* has the hub broadcast them, SetZoom configures it anew.  The three take *)
(* AnalyzerLock; the analyzer's own threads do not.                        *)
(***************************************************************************)
EXTENDS Analyzer, StreamingHub

VARIABLES
  lock,         \* who holds AnalyzerLock for more than a step
  tpc,          \* where Tick is
  got           \* the last fresh frame it has got

tickVars == <<tpc, got>>
vars == <<analyzerVars, hubVars, lock, tickVars>>

Init ==
  /\ AnalyzerInit /\ HubInit
  /\ lock = "free" /\ tpc = "idle" /\ got = NoFrame

Feed ==
  /\ lock = "free" /\ Spectrum0
  /\ UNCHANGED <<hubVars, lock, tickVars>>

Dispatcher == sendbuf /\ UNCHANGED <<hubVars, lock, tickVars>>

Reading == IF tpc = "reading" THEN {r} ELSE {}

Worker(k) == Cspectra(k, Reading) /\ UNCHANGED <<hubVars, lock, tickVars>>

-----------------------------------------------------------------------------
(* Tick.                                                                   *)

\* Nothing is read while nobody is there.
TickPick ==
  /\ lock = "free" /\ tpc = "idle" /\ \E c \in Clients : Registered(c)
  /\ Pick
  /\ lock' = "tick" /\ tpc' = "picked"
  /\ UNCHANGED <<hubVars, got>>

TickRead ==
  /\ tpc = "picked" /\ BeginRead
  /\ tpc' = "reading"
  /\ UNCHANGED <<hubVars, lock, got>>

TickStale ==
  /\ tpc = "picked" /\ ~pbReady[r]
  /\ tpc' = "got" /\ lock' = "free"
  /\ UNCHANGED <<analyzerVars, hubVars, got>>

TickGot ==
  /\ tpc = "reading" /\ EndRead
  /\ tpc' = "got" /\ got' = pixels[r] /\ lock' = "free"
  /\ UNCHANGED hubVars

TickSend ==
  /\ tpc = "got" /\ tpc' = "idle"
  /\ Broadcast(Display)
  /\ UNCHANGED <<analyzerVars, sessionVars, wisdomVars, lock, got>>

Tick == TickPick \/ TickRead \/ TickStale \/ TickGot \/ TickSend

-----------------------------------------------------------------------------
(* SetZoom.                                                                *)

ZoomBegin ==
  /\ lock = "free" /\ cfg < MaxZooms /\ SetEnd
  /\ lock' = "zoom"
  /\ UNCHANGED <<hubVars, tickVars>>

ZoomStop ==
  /\ lock = "zoom" /\ ~stop /\ SetStop
  /\ UNCHANGED <<hubVars, lock, tickVars>>

ZoomDone ==
  /\ lock = "zoom" /\ stop /\ SetAnew
  /\ lock' = "free"
  /\ UNCHANGED <<hubVars, tickVars>>

SetZoom == ZoomStop \/ ZoomDone

-----------------------------------------------------------------------------

Hub(A) == A /\ UNCHANGED <<analyzerVars, lock, tickVars>>

Next ==
  \/ Feed \/ Dispatcher \/ (\E k \in Workers : Worker(k))
  \/ Tick \/ ZoomBegin \/ SetZoom
  \/ \E c \in Clients : Hub(Session(c)) \/ Hub(Send(c))
  \/ Hub(SetPhase) \/ Hub(PollStatus) \/ Hub(Announcing)

Fairness ==
  /\ WF_vars(Dispatcher) /\ \A k \in Workers : WF_vars(Worker(k))
  /\ WF_vars(SetZoom) /\ WF_vars(Tick)
  /\ WF_vars(Hub(phase = Building /\ SetPhase)) /\ WF_vars(Hub(StatusChanged))
  /\ \A a \in Announcers : WF_vars(Hub(SetWisdomPhase(a))) /\ WF_vars(Hub(Announce(a)))
  /\ \A c \in Clients : WF_vars(Hub(Send(c))) /\ WF_vars(Hub(ReadWisdom(c)))
                        /\ WF_vars(Hub(Prime(c)))

Spec == Init /\ [][Next]_vars /\ Fairness

-----------------------------------------------------------------------------
(* Properties.                                                             *)

\* The books of the analyzer: buff_ready says whether a span is there, nothing
\* is taken that is not, the samples stay within the write-ahead and the writer
\* has a buffer of its own once there is a frame (analyzer.c Spectrum0, sendbuf,
\* stitch).
AnalyzerBooks ==
  /\ have \in 0..MaxW + 1
  /\ ready <=> have >= Size
  /\ dpc \in {"off", "scan", "join", "advance"}
  /\ lock \in {"free", "tick", "zoom"}
  /\ {w, r, last} \subseteq Bufs
  /\ \A b \in Bufs : pbReady[b] /\ b = last => w # last
  /\ \A c \in Clients : Len(queue[c]) <= Backlog

\* Whatever Tick gets is a whole frame, from a buffer that no worker writes or will
\* write next, not older than the one before and of the configuration in force
\* (analyzer.c stitch, GetPixels, SetAnalyzer; DspPipelineService.Tick).
WholeAndForward ==
  [][/\ ~spoilt'
     /\ (tpc' = "reading" => w' # r')
     /\ (tpc = "reading" /\ tpc' = "got" => got'.n >= got.n /\ got'.cfg = cfg)]_vars

\* A client that stays is told the phase the FFT planning is in, also if it joins
\* while one is announced, unless that frame is dropped from its queue for newer
\* frames or queued before the older phase it was primed with, or the two threads
\* that announce have crossed (StreamingHub.AttachClientAsync, WdspWisdomInitializer).
WisdomArrives ==
  \A c \in Clients :
    (link[c] = "running" /\ shownWisdom[c] # phase) ~>
      (shownWisdom[c] = phase \/ link[c] = "gone" \/ missed[c] \/ crossed)
=============================================================================
