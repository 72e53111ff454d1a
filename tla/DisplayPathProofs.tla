-------------------------- MODULE DisplayPathProofs --------------------------
(***************************************************************************)
(* What Tick reads is whole, not older than what it read before and of the *)
(* configuration in force, for every number of frames, changes of zoom and *)
(* clients, as long as work items run one at a time.                       *)
(***************************************************************************)
EXTENDS DisplayPath, TLAPS

\* As linux_port.c runs them, or a pool of one thread.
OneAtATime == Joined \/ \A j, k \in Workers : j = k

Frames == [n : Nat, cfg : Nat]
Busy(k) == wpc[k] # "idle"

PathTypeOK ==
  /\ {w, r, last} \subseteq Bufs
  /\ pbReady \in [Bufs -> BOOLEAN]
  /\ pixels \in [Bufs -> Frames]
  /\ wpc \in [Workers -> {"idle", "fft", "stitch", "write", "publish", "mark"}]
  /\ target \in [Workers -> Bufs]
  /\ made \in Nat /\ cfg \in Nat /\ got \in Frames
  /\ spoilt \in BOOLEAN

\* One work item at a time, and none behind the dispatcher's back.
Alone ==
  /\ \A j, k \in Workers : Busy(j) /\ Busy(k) => j = k
  /\ \A k \in Workers : Busy(k) /\ Joined => dpc = "join"

\* Nothing has been published in this configuration.
Blank ==
  /\ w = r /\ w = last
  /\ \A b \in Bufs : ~pbReady[b]
  /\ \A k \in Workers : wpc[k] # "mark"

\* The writer keeps away from what was published last and from the reader.
Apart ==
  /\ w # last /\ w # r
  /\ pixels[last].cfg = cfg /\ pixels[r].cfg = cfg
  /\ pixels[r].n <= pixels[last].n /\ got.n <= pixels[last].n
  /\ lock = "tick" => got.n <= pixels[r].n

FrameInv ==
  /\ PathTypeOK /\ Alone
  /\ Blank \/ Apart
  /\ \A k \in Workers : wpc[k] \in {"write", "publish"} => target[k] = w
  /\ \A k \in Workers : wpc[k] = "publish" => pixels[w].n = made /\ pixels[w].cfg = cfg
  /\ lock = "tick" <=> tpc \in {"picked", "reading"}
  /\ tpc = "reading" => Apart
  /\ got.n <= made /\ \A b \in Bufs : pixels[b].n <= made
  /\ ~spoilt

LEMMA Rotation ==
  ASSUME NEW b \in Bufs
  PROVE  /\ Next3(b) \in Bufs /\ Next3(Next3(b)) \in Bufs
         /\ Next3(b) # b /\ Next3(Next3(b)) # b /\ Next3(Next3(b)) # Next3(b)
<1>1. b = 0 \/ b = 1 \/ b = 2
  BY SMT DEF Bufs
<1> QED
  BY <1>1, SMT DEF Bufs, Next3

LEMMA FrameInit == Init => FrameInv
<1> SUFFICES ASSUME Init PROVE FrameInv
  OBVIOUS
<1>1. NoFrame \in Frames /\ NoFrame.n = 0 /\ 0 <= 0
  BY SMT DEF NoFrame, Frames
<1>2. PathTypeOK
  <2>1. AnalyzerInit /\ got = NoFrame
    BY DEF Init
  <2>2. pixels \in [Bufs -> Frames]
    BY <1>1, <2>1 DEF AnalyzerInit
  <2>3. 0 \in Bufs /\ 0 \in Nat
    BY SMT DEF Bufs
  <2>4. pbReady \in [Bufs -> BOOLEAN] /\ target \in [Workers -> Bufs]
    BY <2>1, <2>3 DEF AnalyzerInit
  <2>5. wpc \in [Workers -> {"idle", "fft", "stitch", "write", "publish", "mark"}]
    BY <2>1 DEF AnalyzerInit
  <2> QED
    BY <1>1, <2>1, <2>2, <2>3, <2>4, <2>5 DEF AnalyzerInit, PathTypeOK
<1>3. Alone /\ Blank
  BY SMT DEF Init, AnalyzerInit, Alone, Busy, Blank
<1> QED
  BY <1>1, <1>2, <1>3, SMT DEF Init, AnalyzerInit, FrameInv

\* A step that leaves frames, buffers, workers and the reader alone.
LEMMA FrameStays ==
  FrameInv /\ UNCHANGED <<wpc, target, w, r, last, pbReady, pixels, made, cfg, spoilt, got>>
    /\ (\A k \in Workers : Busy(k) /\ Joined => dpc' = "join")
    /\ (lock' = "tick" => lock = "tick")
    /\ (lock' = "tick" <=> tpc' \in {"picked", "reading"})
    /\ (tpc' = "reading" => tpc = "reading")
    => FrameInv'
BY SMT DEF FrameInv, PathTypeOK, Alone, Busy, Blank, Apart

\* A worker starts, when no other one is at work.
LEMMA DispatchKeeps ==
  ASSUME OneAtATime, FrameInv, NEW k \in Workers, Dispatch(k), UNCHANGED <<lock, tpc, got>>
  PROVE  FrameInv'
<1>1. \A j \in Workers : Busy(j)' => j = k
  BY SMT DEF OneAtATime, FrameInv, PathTypeOK, Alone, Busy, Dispatch
<1>2. PathTypeOK'
  BY SMT DEF FrameInv, PathTypeOK, Dispatch, stops, buffers, frames
<1>3. Alone'
  BY <1>1, SMT DEF Alone, Dispatch
<1>4. (Blank \/ Apart)' /\ (tpc = "reading" => Apart)'
  BY SMT DEF FrameInv, PathTypeOK, Blank, Apart, Dispatch, stops, buffers, frames
<1> QED
  BY <1>2, <1>3, <1>4, SMT DEF FrameInv, PathTypeOK, Dispatch, stops, buffers, frames

\* A worker moves on without touching a buffer.
LEMMA MoveKeeps ==
  ASSUME FrameInv, NEW k \in Workers, NEW from \in {"fft", "stitch", "mark"},
         NEW to \in {"idle", "stitch"}, At(k, from, to),
         UNCHANGED <<dpc, target, w, r, last, pbReady, pixels, made, cfg, spoilt,
                     lock, tpc, got>>
  PROVE  FrameInv'
<1>1. \A j \in Workers : Busy(j)' => Busy(j)
  BY SMT DEF FrameInv, PathTypeOK, Busy, At
<1>2. PathTypeOK'
  BY SMT DEF FrameInv, PathTypeOK, At
<1>3. Alone'
  BY <1>1, SMT DEF FrameInv, Alone
<1>4. (Blank \/ Apart)' /\ (tpc = "reading" => Apart)'
  BY SMT DEF FrameInv, PathTypeOK, Blank, Apart, At
<1> QED
  BY <1>2, <1>3, <1>4, SMT DEF FrameInv, PathTypeOK, At

\* The writer's buffer is not the one being read.
LEMMA WriteKeeps ==
  ASSUME FrameInv, NEW k \in Workers, Write(k, Reading), UNCHANGED <<lock, tpc, got>>
  PROVE  FrameInv'
<1>1. \A j \in Workers : Busy(j)' <=> Busy(j)
  BY SMT DEF FrameInv, PathTypeOK, Busy, At, Write
<1>2. PathTypeOK'
  BY SMT DEF FrameInv, PathTypeOK, At, Write, stops, buffers, frames
<1>3. Alone'
  BY <1>1, SMT DEF FrameInv, Alone, Write
<1>4. (Blank \/ Apart)' /\ (tpc = "reading" => Apart)'
  BY SMT DEF FrameInv, PathTypeOK, Blank, Apart, At, Write, stops, buffers, frames
<1>5. w \notin Reading
  BY SMT DEF FrameInv, Apart, Reading
<1>6. ~spoilt'
  BY <1>5, Zenon DEF FrameInv, Write
<1> QED
  BY <1>2, <1>3, <1>4, <1>6, SMT DEF FrameInv, PathTypeOK, At, Write, stops, buffers, frames

\* A frame is written where nobody reads.
LEMMA WrittenKeeps ==
  ASSUME FrameInv, NEW k \in Workers, Written(k), UNCHANGED <<lock, tpc, got>>
  PROVE  FrameInv'
<1>1. \A j \in Workers : Busy(j)' <=> Busy(j)
  BY SMT DEF FrameInv, PathTypeOK, Busy, At, Written
<1>2. target[k] = w /\ w \in Bufs /\ r \in Bufs /\ last \in Bufs
  BY SMT DEF FrameInv, PathTypeOK, At, Written
<1>3. PathTypeOK'
  <2>1. [n |-> made + 1, cfg |-> cfg] \in Frames /\ made' \in Nat
    BY SMT DEF FrameInv, PathTypeOK, Frames, Written
  <2>2. pixels' \in [Bufs -> Frames]
    BY <2>1, SMT DEF FrameInv, PathTypeOK, Written
  <2> QED
    BY <2>1, <2>2, SMT DEF FrameInv, PathTypeOK, At, Written, stops, buffers
<1>4. Alone'
  BY <1>1, SMT DEF FrameInv, Alone, Written
<1>5. /\ pixels'[w].n = made + 1 /\ pixels'[w].cfg = cfg
      /\ \A b \in Bufs : b # w => pixels'[b] = pixels[b]
  BY <1>2, SMT DEF FrameInv, PathTypeOK, Written
<1>6. (Blank \/ Apart)' /\ (tpc = "reading" => Apart)'
  BY <1>2, <1>5, SMT DEF FrameInv, PathTypeOK, Blank, Apart, At, Written, stops, buffers
<1>7. got'.n <= made' /\ \A b \in Bufs : pixels'[b].n <= made'
  BY <1>5, SMT DEF FrameInv, PathTypeOK, Frames, Written
<1> QED
  BY <1>3, <1>4, <1>5, <1>6, <1>7, SMT DEF FrameInv, PathTypeOK, Alone, Busy, At, Written, stops, buffers

\* A frame is published and the writer moves to a third buffer.
LEMMA PublishKeeps ==
  ASSUME FrameInv, NEW k \in Workers, Publish(k), UNCHANGED <<lock, tpc, got>>
  PROVE  FrameInv'
<1>1. \A j \in Workers : Busy(j)' <=> Busy(j)
  BY SMT DEF FrameInv, PathTypeOK, Busy, At, Publish
<1>2. w \in Bufs /\ r \in Bufs /\ pixels[w].n = made /\ pixels[w].cfg = cfg
  BY SMT DEF FrameInv, PathTypeOK, At, Publish
<1>3. w' \in Bufs /\ w' # last' /\ w' # r'
  BY <1>2, Rotation, SMT DEF Publish
<1>4. PathTypeOK'
  BY <1>2, <1>3, SMT DEF FrameInv, PathTypeOK, At, Publish, stops, frames
<1>5. Alone'
  BY <1>1, SMT DEF FrameInv, Alone, Publish
<1>6. \A j \in Workers : wpc'[j] \notin {"write", "publish"}
  BY SMT DEF FrameInv, PathTypeOK, Alone, Busy, At, Publish
<1>7. pixels' = pixels /\ r' = r /\ cfg' = cfg /\ got' = got /\ last' = w /\ lock' = lock
  BY DEF Publish, frames, stops
<1>8. Apart'
  <2>1. pixels[r].cfg = cfg /\ (lock = "tick" => got.n <= pixels[r].n)
    <3>1. CASE Blank
      BY <3>1, <1>2, Zenon DEF FrameInv, Blank
    <3>2. CASE Apart
      BY <3>2, Zenon DEF Apart
    <3> QED
      BY <3>1, <3>2, Zenon DEF FrameInv
  <2>2. pixels[r].n <= pixels[w].n /\ got.n <= pixels[w].n
    BY <1>2, SMT DEF FrameInv
  <2> QED
    BY <1>2, <1>3, <1>7, <2>1, <2>2, SMT DEF Apart
<1> QED
  BY <1>4, <1>5, <1>6, <1>8, SMT DEF FrameInv, Publish, stops, frames

\* What is marked as fresh has been published.
LEMMA MarkKeeps ==
  ASSUME FrameInv, NEW k \in Workers, Mark(k), UNCHANGED <<lock, tpc, got>>
  PROVE  FrameInv'
<1>1. \A j \in Workers : Busy(j)' => Busy(j)
  BY SMT DEF FrameInv, PathTypeOK, Busy, At, Mark
<1>2. PathTypeOK'
  BY SMT DEF FrameInv, PathTypeOK, At, Mark, stops, frames
<1>3. Alone'
  BY <1>1, SMT DEF FrameInv, Alone, Mark
<1>4. Apart'
  BY SMT DEF FrameInv, Blank, Apart, At, Mark, stops, frames
<1> QED
  BY <1>2, <1>3, <1>4, SMT DEF FrameInv, PathTypeOK, At, Mark, stops, frames

\* Tick takes the buffer published last.
LEMMA PickKeeps == FrameInv /\ TickPick => FrameInv'
<1> SUFFICES ASSUME FrameInv, TickPick PROVE FrameInv'
  OBVIOUS
<1>1. PathTypeOK' /\ Alone'
  BY SMT DEF FrameInv, PathTypeOK, Alone, Busy, TickPick, Pick, inputVars, stops, frames
<1>2. (Blank \/ Apart)'
  <2>1. CASE Blank
    BY <2>1, SMT DEF Blank, TickPick, Pick, stops, frames
  <2>2. CASE Apart
    BY <2>2, SMT DEF FrameInv, PathTypeOK, Frames, Apart, TickPick, Pick, stops, frames
  <2> QED
    BY <2>1, <2>2 DEF FrameInv
<1> QED
  BY <1>1, <1>2, SMT DEF FrameInv, PathTypeOK, TickPick, Pick, stops, frames

\* Reading begins where something has been published, away from the writer.
LEMMA ReadKeeps == FrameInv /\ TickRead => FrameInv'
<1> SUFFICES ASSUME FrameInv, TickRead PROVE FrameInv'
  OBVIOUS
<1>1. PathTypeOK' /\ Alone'
  BY SMT DEF FrameInv, PathTypeOK, Alone, Busy, TickRead, BeginRead, inputVars, stops, buffers, frames
<1>2. Apart /\ lock = "tick"
  BY SMT DEF FrameInv, PathTypeOK, Blank, TickRead, BeginRead
<1>3. Apart'
  BY <1>2, SMT DEF Apart, TickRead, BeginRead, stops, buffers, frames
<1>4. \A k \in Workers : ~(wpc[k] = "write" /\ target[k] = r)
  BY <1>2, Zenon DEF FrameInv, Apart
<1>5. ~spoilt'
  BY <1>4, Zenon DEF FrameInv, TickRead, BeginRead
<1> QED
  BY <1>1, <1>2, <1>3, <1>5, SMT DEF FrameInv, PathTypeOK, TickRead, BeginRead, stops, buffers, frames

\* What has been read is at most the newest frame.
LEMMA GotKeeps == FrameInv /\ TickGot => FrameInv'
<1> SUFFICES ASSUME FrameInv, TickGot PROVE FrameInv'
  OBVIOUS
<1>1. PathTypeOK' /\ Alone'
  BY SMT DEF FrameInv, PathTypeOK, Alone, Busy, TickGot, EndRead, inputVars, stops, frames
<1>2. Apart'
  BY SMT DEF FrameInv, Apart, TickGot, EndRead, stops, frames
<1>3. got'.n <= made' /\ \A b \in Bufs : pixels'[b].n <= made'
  BY SMT DEF FrameInv, PathTypeOK, TickGot, EndRead, frames
<1> QED
  BY <1>1, <1>2, <1>3, SMT DEF FrameInv, PathTypeOK, TickGot, EndRead, stops, frames

\* With the workers out, everything starts over while nobody reads.
LEMMA ZoomKeeps == FrameInv /\ ZoomDone => FrameInv'
<1> SUFFICES ASSUME FrameInv, ZoomDone PROVE FrameInv'
  OBVIOUS
<1>1. PathTypeOK'
  <2>1. 0 \in Bufs /\ cfg + 1 \in Nat
    BY SMT DEF FrameInv, PathTypeOK, Bufs
  <2>2. pbReady' \in [Bufs -> BOOLEAN]
    BY DEF ZoomDone, SetAnew
  <2> QED
    BY <2>1, <2>2, SMT DEF FrameInv, PathTypeOK, ZoomDone, SetAnew, frames, tickVars
<1>2. Alone' /\ Blank'
  BY SMT DEF FrameInv, Alone, Busy, Blank, ZoomDone, SetAnew, frames
<1> QED
  BY <1>1, <1>2, SMT DEF FrameInv, PathTypeOK, ZoomDone, SetAnew, frames, tickVars

LEMMA HubKeeps ==
  FrameInv /\ UNCHANGED <<analyzerVars, lock, tickVars>> => FrameInv'
BY FrameStays, SMT DEF analyzerVars, inputVars, stops, buffers, frames, tickVars, FrameInv, Alone

LEMMA FrameStep ==
  ASSUME OneAtATime, FrameInv, Next
  PROVE  FrameInv'
<1>1. CASE Feed
  BY <1>1, FrameStays, SMT DEF Feed, Spectrum0, FrameInv, Alone, stops, buffers, frames, tickVars
<1>2. CASE Dispatcher
  <2>1. ASSUME NEW k \in Workers, Dispatch(k), UNCHANGED <<lock, tickVars>> PROVE FrameInv'
    BY <2>1, DispatchKeeps DEF tickVars
  <2>2. CASE Join
    BY <1>2, <2>2, FrameStays, SMT DEF Dispatcher, Join, Busy, FrameInv, stops, buffers, frames, tickVars
  <2>3. CASE Advance
    BY <1>2, <2>3, FrameStays, SMT DEF Dispatcher, Advance, FrameInv, Alone, stops, buffers, frames, tickVars
  <2>4. CASE Retire
    BY <1>2, <2>4, FrameStays, SMT DEF Dispatcher, Retire, FrameInv, Alone, stops, buffers, frames, tickVars
  <2> QED
    BY <1>2, <2>1, <2>2, <2>3, <2>4 DEF Dispatcher, sendbuf
<1>3. ASSUME NEW k \in Workers, Worker(k) PROVE FrameInv'
  <2>1. UNCHANGED <<lock, tpc, got>>
    BY <1>3 DEF Worker, tickVars
  <2>2. CASE Abandon(k)
    BY <2>1, <2>2, MoveKeeps DEF Abandon, stops, buffers, frames
  <2>3. CASE Transform(k)
    BY <2>1, <2>3, MoveKeeps DEF Transform, stops, buffers, frames
  <2>4. CASE Write(k, Reading)
    BY <2>1, <2>4, WriteKeeps
  <2>5. CASE Written(k)
    BY <2>1, <2>5, WrittenKeeps
  <2>6. CASE Publish(k)
    BY <2>1, <2>6, PublishKeeps
  <2>7. CASE Mark(k)
    BY <2>1, <2>7, MarkKeeps
  <2> QED
    BY <1>3, <2>2, <2>3, <2>4, <2>5, <2>6, <2>7 DEF Worker, Cspectra
<1>4. CASE Tick
  <2>1. CASE TickStale
    BY <2>1, FrameStays, SMT DEF TickStale, analyzerVars, inputVars, stops, buffers, frames, FrameInv, Alone
  <2>2. CASE TickSend
    BY <2>2, FrameStays, SMT DEF TickSend, analyzerVars, inputVars, stops, buffers, frames, FrameInv, Alone
  <2> QED
    BY <1>4, <2>1, <2>2, PickKeeps, ReadKeeps, GotKeeps DEF Tick
<1>5. CASE ZoomBegin
  BY <1>5, FrameStays, SMT DEF ZoomBegin, SetEnd, inputVars, buffers, frames, tickVars, FrameInv, Alone
<1>6. CASE ZoomStop
  BY <1>6, FrameStays, SMT DEF ZoomStop, SetStop, inputVars, buffers, frames, tickVars, FrameInv, Alone
<1> QED
  BY <1>1, <1>2, <1>3, <1>4, <1>5, <1>6, ZoomKeeps, HubKeeps DEF Next, SetZoom, Hub

\* One reading: whole, no older than the last one, of the zoom in force
\* (analyzer.c GetPixels under AnalyzerLock).
LEMMA FrameRead ==
  ASSUME FrameInv, FrameInv', [Next]_vars
  PROVE  /\ ~spoilt'
         /\ tpc' = "reading" => w' # r'
         /\ tpc = "reading" /\ tpc' = "got" => got'.n >= got.n /\ got'.cfg = cfg
<1>1. ~spoilt' /\ (tpc' = "reading" => w' # r')
  BY DEF FrameInv, Apart
<1>2. ASSUME tpc = "reading", tpc' = "got" PROVE TickGot
  BY <1>2, SMT DEF Next, vars, Feed, Dispatcher, Worker, Tick, TickPick, TickRead, TickStale,
     TickSend, ZoomBegin, SetZoom, ZoomStop, ZoomDone, Hub, tickVars
<1>3. ASSUME tpc = "reading", tpc' = "got" PROVE got'.n >= got.n /\ got'.cfg = cfg
  BY <1>2, <1>3, SMT DEF TickGot, FrameInv, Apart, PathTypeOK, Frames
<1> QED
  BY <1>1, <1>3

\* With one work item at a time, whatever Tick gets is whole, not older than
\* what it got before and of the configuration in force, for every number of
\* frames, changes of zoom and clients.
THEOREM WholeFrames ==
  ASSUME OneAtATime
  PROVE  Spec => WholeAndForward
<1>1. FrameInv /\ [Next]_vars => FrameInv'
  <2>1. FrameInv /\ UNCHANGED vars => FrameInv'
    BY HubKeeps DEF vars
  <2> QED
    BY <2>1, FrameStep
<1>2. FrameInv /\ FrameInv' /\ [Next]_vars =>
       [/\ ~spoilt'
        /\ (tpc' = "reading" => w' # r')
        /\ (tpc = "reading" /\ tpc' = "got" => got'.n >= got.n /\ got'.cfg = cfg)]_vars
  BY FrameRead
<1> QED
  BY <1>1, <1>2, FrameInit, PTL DEF Spec, WholeAndForward

-----------------------------------------------------------------------------
(* The books of the analyzer and of the queues.  Nothing here depends on    *)
(* how many work items run at a time.                                      *)

\* What the dispatcher has taken is there until it advances, and it is out
\* before everything starts over.
SampleInv ==
  /\ have \in 0..(MaxW + 1)
  /\ ready \in BOOLEAN /\ stop \in BOOLEAN
  /\ ready <=> have >= Size
  /\ dpc \in {"off", "scan", "join", "advance"}
  /\ lock \in {"free", "tick", "zoom"}
  /\ dpc \in {"join", "advance"} => ready
  /\ stop => lock = "zoom" /\ dpc = "off"
  /\ lock = "tick" <=> tpc \in {"picked", "reading"}

\* Until the first frame of a configuration, nothing is ready or about to be.
RingInv ==
  /\ {w, r, last} \subseteq Bufs
  /\ pbReady \in [Bufs -> BOOLEAN]
  /\ wpc \in [Workers -> {"idle", "fft", "stitch", "write", "publish", "mark"}]
  /\ w = last => (\A b \in Bufs : ~pbReady[b]) /\ (\A k \in Workers : wpc[k] # "mark")

HubFrames == {Display} \cup {Wisdom(n) : n \in Nat}

QueueInv ==
  /\ wisdom \in Nat /\ phase \in Nat /\ primed \in [Clients -> Nat]
  /\ saying \in [Announcers -> Nat]
  /\ queue \in [Clients -> Seq(HubFrames)]
  /\ \A c \in Clients : Len(queue[c]) <= Backlog

LEMMA EnqueueBound ==
  ASSUME QueueInv, NEW c \in Clients, NEW frame \in HubFrames
  PROVE  TryEnqueue(c, frame) \in Seq(HubFrames) /\ Len(TryEnqueue(c, frame)) <= Backlog
<1>1. queue[c] \in Seq(HubFrames) /\ Len(queue[c]) <= Backlog /\ Backlog \in Nat \ {0}
  BY HubAssumption DEF QueueInv
<1> DEFINE q == queue[c]
           rest == IF Len(q) = Backlog THEN Tail(q) ELSE q
<1>2. rest \in Seq(HubFrames) /\ Len(rest) <= Backlog - 1
  <2>1. CASE Len(q) = Backlog
    BY <1>1, <2>1, SMT
  <2>2. CASE Len(q) # Backlog
    BY <1>1, <2>2, SMT
  <2> QED
    BY <2>1, <2>2
<1>3. TryEnqueue(c, frame) = Append(rest, frame)
  BY DEF TryEnqueue
<1> HIDE DEF rest
<1> QED
  BY <1>1, <1>2, <1>3, SMT

LEMMA BroadcastBound ==
  ASSUME QueueInv, NEW frame \in HubFrames, Broadcast(frame), UNCHANGED <<primed, wisdom, phase, saying>>
  PROVE  QueueInv'
<1>1. ASSUME NEW c \in Clients
      PROVE  queue'[c] \in Seq(HubFrames) /\ Len(queue'[c]) <= Backlog
  <2>1. queue'[c] = IF Registered(c) THEN TryEnqueue(c, frame) ELSE queue[c]
    BY DEF Broadcast
  <2> QED
    BY <2>1, EnqueueBound DEF QueueInv
<1>2. queue' = [c \in Clients |-> IF Registered(c) THEN TryEnqueue(c, frame) ELSE queue[c]]
  BY DEF Broadcast
<1>3. queue' \in [Clients -> Seq(HubFrames)]
  BY <1>1, <1>2
<1> QED
  BY <1>1, <1>3 DEF QueueInv

LEMMA QueueStep ==
  ASSUME QueueInv, Next
  PROVE  QueueInv'
<1>1. ASSUME UNCHANGED <<queue, primed, wisdom, phase, saying>>
      PROVE  QueueInv'
  BY <1>1 DEF QueueInv
<1>2. CASE TickSend
  <2>1. Display \in HubFrames
    BY DEF HubFrames
  <2> QED
    BY <1>2, <2>1, BroadcastBound DEF TickSend, sessionVars, wisdomVars
<1>3. ASSUME NEW a \in Announcers, Announce(a)
      PROVE  QueueInv'
  <2>1. Wisdom(saying[a]) \in HubFrames
    BY DEF HubFrames, QueueInv
  <2> QED
    BY <1>3, <2>1, BroadcastBound DEF Announce, sessionVars
<1>4. CASE SetPhase
  <2>1. "initializer" \in Announcers /\ phase' = phase + 1 /\ UNCHANGED <<queue, primed, wisdom>>
        /\ saying' = [saying EXCEPT !["initializer"] = phase']
    BY <1>4 DEF SetPhase, Announcers, sessionVars
  <2>2. phase' \in Nat
    BY <2>1, SMT DEF QueueInv
  <2>3. saying' \in [Announcers -> Nat]
    BY <2>1, <2>2, Zenon DEF QueueInv
  <2> QED
    BY <2>1, <2>2, <2>3, Zenon DEF QueueInv
<1>8. CASE PollStatus
  BY <1>1, <1>8 DEF PollStatus, sessionVars
<1>9. CASE StatusChanged
  <2>1. saying' = [saying EXCEPT !["poller"] = phase] /\ UNCHANGED <<queue, primed, wisdom, phase>>
    BY <1>9 DEF StatusChanged, sessionVars
  <2>2. saying' \in [Announcers -> Nat]
    BY <2>1, Zenon DEF QueueInv
  <2> QED
    BY <2>1, <2>2, Zenon DEF QueueInv
<1>10. ASSUME NEW a \in Announcers, SetWisdomPhase(a)
       PROVE  QueueInv'
  <2>1. wisdom' = saying[a] /\ UNCHANGED <<queue, primed, phase, saying>>
    BY <1>10 DEF SetWisdomPhase, sessionVars
  <2>2. wisdom' \in Nat
    BY <2>1 DEF QueueInv
  <2> QED
    BY <2>1, <2>2, Zenon DEF QueueInv
<1>5. ASSUME NEW c \in Clients, Session(c) \/ Send(c)
      PROVE  QueueInv'
  <2>1. queue[c] \in Seq(HubFrames) /\ Len(queue[c]) <= Backlog /\ Backlog \in Nat \ {0}
    BY HubAssumption DEF QueueInv
  <2>2. CASE Register(c)
    BY <1>1, <2>2 DEF Register, Step, wisdomVars
  <2>3. CASE ReadWisdom(c)
    <3>1. primed' = [primed EXCEPT ![c] = wisdom] /\ UNCHANGED <<queue, wisdom, phase, saying>>
      BY <2>3 DEF ReadWisdom, Step, wisdomVars
    <3> QED
      BY <3>1, Zenon DEF QueueInv
  <2>4. CASE Prime(c)
    <3>1. Wisdom(primed[c]) \in HubFrames
      BY DEF HubFrames, QueueInv
    <3>2. /\ TryEnqueue(c, Wisdom(primed[c])) \in Seq(HubFrames)
          /\ Len(TryEnqueue(c, Wisdom(primed[c]))) <= Backlog
      BY <3>1, EnqueueBound
    <3>3. queue' = [queue EXCEPT ![c] = TryEnqueue(c, Wisdom(primed[c]))]
          /\ UNCHANGED <<primed, wisdom, phase, saying>>
      BY <2>4 DEF Prime, Step, wisdomVars
    <3> HIDE DEF TryEnqueue
    <3> QED
      BY <3>2, <3>3, Zenon DEF QueueInv
  <2>5. CASE Send(c)
    <3>1. Tail(queue[c]) \in Seq(HubFrames) /\ Len(Tail(queue[c])) <= Backlog
      <4>1. queue[c] # <<>>
        BY <2>5 DEF Send
      <4> QED
        BY <2>1, <4>1, SMT
    <3>2. queue' = [queue EXCEPT ![c] = Tail(queue[c])]
          /\ UNCHANGED <<primed, wisdom, phase, saying>>
      BY <2>5 DEF Send, wisdomVars
    <3> QED
      BY <3>1, <3>2, Zenon DEF QueueInv
  <2>6. CASE Leave(c)
    <3>1. <<>> \in Seq(HubFrames) /\ Len(<<>>) <= Backlog
      BY <2>1, SMT
    <3>2. queue' = [queue EXCEPT ![c] = <<>>]
          /\ UNCHANGED <<primed, wisdom, phase, saying>>
      BY <2>6 DEF Leave, Step, wisdomVars
    <3> QED
      BY <3>1, <3>2, Zenon DEF QueueInv
  <2> QED
    BY <1>5, <2>2, <2>3, <2>4, <2>5, <2>6 DEF Session
<1>6. CASE Feed \/ Dispatcher \/ (\E k \in Workers : Worker(k)) \/ ZoomBegin \/ SetZoom
  BY <1>1, <1>6 DEF Feed, Dispatcher, Worker, ZoomBegin, SetZoom, ZoomStop, ZoomDone, hubVars,
     sessionVars, wisdomVars
<1>7. CASE TickPick \/ TickRead \/ TickStale \/ TickGot
  BY <1>1, <1>7 DEF TickPick, TickRead, TickStale, TickGot, hubVars, sessionVars, wisdomVars
<1> QED
  BY <1>2, <1>3, <1>4, <1>5, <1>6, <1>7, <1>8, <1>9, <1>10 DEF Next, Tick, Hub, Announcing

LEMMA SampleStep ==
  ASSUME SampleInv, Next
  PROVE  SampleInv'
<1> USE DEF tickVars, stops, inputVars
<1>1. {Size, Incr, MaxW} \subseteq Nat \ {0} /\ Incr <= Size /\ Size <= MaxW
  BY AnalyzerAssumption
<1>2. ASSUME UNCHANGED <<have, ready, stop, lock>>, UNCHANGED dpc \/ (dpc' = "off" /\ ~stop)
             \/ (dpc = "scan" /\ dpc' = "join" /\ ready) \/ (dpc = "join" /\ dpc' = "advance"),
             UNCHANGED tpc \/ (tpc = "picked" /\ tpc' = "reading") \/ (tpc = "got" /\ tpc' = "idle")
      PROVE  SampleInv'
  <2>1. stop => dpc = "off"
    BY DEF SampleInv
  <2>2. dpc' \in {"off", "scan", "join", "advance"} /\ (dpc' \in {"join", "advance"} => ready)
    BY <1>2, SMT DEF SampleInv
  <2>3. stop => dpc' = "off"
    BY <1>2, <2>1, SMT
  <2>4. tpc' \in {"picked", "reading"} <=> tpc \in {"picked", "reading"}
    BY <1>2, SMT
  <2> QED
    BY <1>2, <2>2, <2>3, <2>4, Zenon DEF SampleInv
<1>3. CASE Feed
  <2>1. /\ have' = (IF have > MaxW THEN MaxW ELSE have) + 1 /\ ready' = (ready \/ have' >= Size)
        /\ dpc' = (IF dpc = "off" THEN "scan" ELSE dpc) /\ UNCHANGED <<stop, lock, tpc>> /\ lock = "free"
    BY <1>3, Zenon DEF Feed, Spectrum0
  <2>2. have' \in 0..(MaxW + 1) /\ (have >= Size => have' >= Size)
    BY <1>1, <2>1, SMT DEF SampleInv
  <2>3. ~stop /\ dpc' \in {"off", "scan", "join", "advance"}
        /\ (dpc' \in {"join", "advance"} => ready)
    BY <2>1, SMT DEF SampleInv
  <2> QED
    BY <2>1, <2>2, <2>3, Zenon DEF SampleInv
<1>4. CASE Dispatcher
  <2>1. CASE Advance
    <3>1. /\ dpc = "advance" /\ dpc' = "scan" /\ have' = have - Incr
          /\ ready' = (ready /\ have' >= Size) /\ UNCHANGED <<stop, lock, tpc>>
      BY <1>4, <2>1, Zenon DEF Dispatcher, Advance
    <3>2. have \in 0..(MaxW + 1) /\ have >= Size
      BY <3>1, Zenon DEF SampleInv
    <3>3. have' \in 0..(MaxW + 1) /\ (have' >= Size => have >= Size)
      BY <1>1, <3>1, <3>2, SMT
    <3>4. ~stop
      BY <3>1, SMT DEF SampleInv
    <3>5. dpc' \notin {"join", "advance"} /\ dpc' \in {"off", "scan", "join", "advance"}
      BY <3>1, SMT
    <3> QED
      BY <3>1, <3>2, <3>3, <3>4, <3>5, Zenon DEF SampleInv
  <2>2. CASE Retire
    <3>1. /\ dpc = "scan" /\ dpc' = "off" /\ UNCHANGED <<have, ready, stop, lock, tpc>>
      BY <1>4, <2>2, Zenon DEF Dispatcher, Retire
    <3>2. ~stop
      BY <3>1, SMT DEF SampleInv
    <3> QED
      BY <1>2, <3>1, <3>2
  <2>3. CASE Join \/ \E k \in Workers : Dispatch(k)
    BY <1>2, <1>4, <2>3, Zenon DEF Dispatcher, Join, Dispatch
  <2> QED
    BY <1>4, <2>1, <2>2, <2>3 DEF Dispatcher, sendbuf
<1>5. ASSUME NEW k \in Workers, Worker(k)
      PROVE  SampleInv'
  BY <1>2, <1>5, Zenon DEF Worker, Cspectra, Abandon, Transform, Write, Written, Publish, Mark
<1>6. CASE Tick
  <2>1. CASE TickPick
    <3>1. UNCHANGED <<have, ready, stop, dpc>> /\ lock = "free" /\ lock' = "tick" /\ tpc' = "picked"
      BY <2>1, Zenon DEF TickPick, Pick
    <3>2. ~stop
      BY <3>1, SMT DEF SampleInv
    <3> QED
      BY <3>1, <3>2, Zenon DEF SampleInv
  <2>2. CASE TickStale \/ TickGot
    <3>1. UNCHANGED <<have, ready, stop, dpc>> /\ lock' = "free" /\ tpc' = "got"
          /\ tpc \in {"picked", "reading"}
      BY <2>2, Zenon DEF TickStale, TickGot, EndRead, analyzerVars
    <3>2. lock = "tick"
      BY <3>1, Zenon DEF SampleInv
    <3>3. ~stop /\ lock' # "tick" /\ tpc' \notin {"picked", "reading"}
      BY <3>1, <3>2, SMT DEF SampleInv
    <3> QED
      BY <3>1, <3>3, Zenon DEF SampleInv
  <2>3. CASE TickRead \/ TickSend
    BY <1>2, <2>3, Zenon DEF TickRead, TickSend, BeginRead, analyzerVars
  <2> QED
    BY <1>6, <2>1, <2>2, <2>3 DEF Tick
<1>7. CASE ZoomBegin \/ ZoomStop
  <2>1. UNCHANGED <<have, ready, dpc, tpc>> /\ lock' = "zoom" /\ (stop' => stop \/ dpc = "off")
        /\ stop' \in BOOLEAN /\ lock \in {"free", "zoom"}
    <3>1. CASE ZoomBegin
      BY <3>1, Zenon DEF ZoomBegin, SetEnd, SampleInv
    <3>2. CASE ZoomStop
      BY <3>2, Zenon DEF ZoomStop, SetStop
    <3> QED
      BY <1>7, <3>1, <3>2
  <2>2. lock # "tick" /\ lock' # "tick"
    BY <2>1, SMT
  <2> QED
    BY <2>1, <2>2, Zenon DEF SampleInv
<1>8. CASE ZoomDone
  <2>1. have' = 0 /\ ready' = FALSE /\ stop' = FALSE /\ dpc' = dpc /\ lock' = "free" /\ stop
        /\ tpc' = tpc /\ lock = "zoom"
    BY <1>8, Zenon DEF ZoomDone, SetAnew
  <2>2. dpc = "off" /\ 0 \in 0..(MaxW + 1) /\ ~(0 >= Size)
    BY <1>1, <2>1, SMT DEF SampleInv
  <2>3. dpc' \notin {"join", "advance"} /\ dpc' \in {"off", "scan", "join", "advance"}
        /\ lock # "tick" /\ lock' # "tick"
    BY <2>1, <2>2, SMT
  <2> QED
    BY <2>1, <2>2, <2>3, Zenon DEF SampleInv
<1>9. CASE UNCHANGED <<analyzerVars, lock, tickVars>>
  BY <1>2, <1>9, Zenon DEF analyzerVars
<1> QED
  BY <1>3, <1>4, <1>5, <1>6, <1>7, <1>8, <1>9 DEF Next, SetZoom, Hub

LEMMA RingStep ==
  ASSUME RingInv, Next
  PROVE  RingInv'
<1>1. ASSUME UNCHANGED <<w, r, last, pbReady, wpc>>
      PROVE  RingInv'
  BY <1>1 DEF RingInv
<1>2. ASSUME NEW k \in Workers, Dispatch(k)
      PROVE  RingInv'
  BY <1>2, SMT DEF RingInv, Dispatch, buffers
<1>3. CASE Feed \/ Join \/ Advance \/ Retire
  BY <1>1, <1>3 DEF Feed, Spectrum0, Join, Advance, Retire, buffers
<1>4. ASSUME NEW k \in Workers, Worker(k)
      PROVE  RingInv'
  <2>1. CASE Abandon(k) \/ Transform(k) \/ Write(k, Reading) \/ Written(k)
    BY <2>1, SMT DEF RingInv, Abandon, Transform, Write, Written, At, buffers
  <2>2. CASE Publish(k)
    <3>1. w' \in Bufs /\ w' # last' /\ last' \in Bufs /\ UNCHANGED <<r, pbReady>>
      BY <2>2, Rotation, SMT DEF RingInv, Publish
    <3>2. wpc' \in [Workers -> {"idle", "fft", "stitch", "write", "publish", "mark"}]
      BY <2>2, SMT DEF RingInv, Publish, At
    <3> QED
      BY <3>1, <3>2, SMT DEF RingInv
  <2>3. CASE Mark(k)
    BY <2>3, SMT DEF RingInv, Mark, At
  <2> QED
    BY <1>4, <2>1, <2>2, <2>3 DEF Worker, Cspectra
<1>5. CASE Tick
  <2>1. CASE TickPick
    BY <2>1, SMT DEF RingInv, TickPick, Pick
  <2>2. CASE TickGot
    BY <2>2, SMT DEF RingInv, TickGot, EndRead
  <2>3. CASE TickRead \/ TickStale \/ TickSend
    BY <1>1, <2>3 DEF TickRead, TickStale, TickSend, BeginRead, analyzerVars, buffers
  <2> QED
    BY <1>5, <2>1, <2>2, <2>3 DEF Tick
<1>6. CASE ZoomBegin \/ ZoomStop
  BY <1>1, <1>6 DEF ZoomBegin, ZoomStop, SetEnd, SetStop, buffers
<1>7. CASE ZoomDone
  <2>1. 0 \in Bufs
    BY SMT DEF Bufs
  <2> QED
    BY <1>7, <2>1, SMT DEF RingInv, ZoomDone, SetAnew
<1>8. CASE UNCHANGED analyzerVars
  BY <1>1, <1>8 DEF analyzerVars, buffers
<1> QED
  BY <1>2, <1>3, <1>4, <1>5, <1>6, <1>7, <1>8 DEF Next, Dispatcher, sendbuf, SetZoom, Hub

LEMMA BooksInit == Init => SampleInv /\ RingInv /\ QueueInv
<1> SUFFICES ASSUME Init
             PROVE  SampleInv /\ RingInv /\ QueueInv
  OBVIOUS
<1>1. SampleInv
  <2>1. /\ have = 0 /\ ready = FALSE /\ stop = FALSE /\ dpc = "off" /\ lock = "free" /\ tpc = "idle"
    BY Zenon DEF Init, AnalyzerInit
  <2>2. 0 \in 0..(MaxW + 1) /\ ~(0 >= Size)
    BY AnalyzerAssumption, SMT
  <2>3. dpc \notin {"join", "advance"} /\ lock # "tick" /\ tpc \notin {"picked", "reading"}
    BY <2>1, SMT
  <2> QED
    BY <2>1, <2>2, <2>3, Zenon DEF SampleInv
<1>2. RingInv
  BY SMT DEF Init, AnalyzerInit, RingInv, Bufs
<1>3. QueueInv
  BY HubAssumption, SMT DEF Init, HubInit, QueueInv, Idle
<1> QED
  BY <1>1, <1>2, <1>3

\* The analyzer's counters, its flags and its buffers agree, and no queue of the
\* hub is longer than it may be, for every size of the transform, every number of
\* work items at a time, of frames, changes of zoom and clients.
THEOREM BooksAgree == Spec => []AnalyzerBooks
<1>1. SampleInv /\ RingInv /\ QueueInv => AnalyzerBooks
  BY Zenon DEF SampleInv, RingInv, QueueInv, AnalyzerBooks
<1>2. SampleInv /\ RingInv /\ QueueInv /\ UNCHANGED vars
        => SampleInv' /\ RingInv' /\ QueueInv'
  <2> USE DEF vars, analyzerVars, inputVars, stops, buffers, hubVars, sessionVars, wisdomVars, tickVars
  <2>1. SampleInv /\ UNCHANGED vars => SampleInv'
    <3>1. UNCHANGED vars => UNCHANGED <<have, ready, stop, dpc, lock, tpc>>
      OBVIOUS
    <3>2. SampleInv /\ UNCHANGED <<have, ready, stop, dpc, lock, tpc>> => SampleInv'
      BY SMT DEF SampleInv
    <3> QED
      BY <3>1, <3>2
  <2>2. RingInv /\ QueueInv /\ UNCHANGED vars => RingInv' /\ QueueInv'
    BY SMT DEF RingInv, QueueInv
  <2> QED
    BY <2>1, <2>2
<1>3. SampleInv /\ RingInv /\ QueueInv /\ [Next]_vars => (SampleInv /\ RingInv /\ QueueInv)'
  BY <1>2, SampleStep, RingStep, QueueStep
<1> QED
  BY <1>1, <1>3, BooksInit, PTL DEF Spec
=============================================================================
