------------------------------ MODULE Analyzer ------------------------------
(***************************************************************************)
(* One spectrum analyzer of WDSP (analyzer.c), with one LO and one span as *)
(* Zeus creates it, and one of its two pixel outputs.  Spectrum0 puts      *)
(* samples into a ring, the dispatcher (sendbuf) hands every full span to  *)
(* a worker (Cspectra), the worker writes a frame into one of three        *)
(* buffers (stitch), GetPixels reads the last one written, SetAnalyzer     *)
(* stops everything and starts over.  Samples are counted in blocks; what  *)
(* a frame holds is its number and the configuration it was made for.      *)
(***************************************************************************)
EXTENDS Naturals

CONSTANTS
  Workers,      \* threads Cspectra may run in
  Joined,       \* QueueUserWorkItem waits for the work: as in linux_port.c
  Size, Incr,   \* blocks in one FFT, and from one FFT to the next
  MaxW,         \* max_writeahead
  MaxFrames,    \* bound: frames made
  MaxZooms      \* bound: changes of configuration

ASSUME AnalyzerAssumption ==
  /\ Joined \in BOOLEAN
  /\ {Size, Incr, MaxW} \subseteq Nat \ {0} /\ Incr <= Size /\ Size <= MaxW

VARIABLES
  have, ready,  \* have_samples, buff_ready
  inputBusy,    \* input_busy
  endDispatcher, stop,
  dpc,          \* where sendbuf is; off: no dispatcher
  wpc, target,  \* where each worker is, and the buffer it writes
  w, r, last,   \* w_pix_buff, r_pix_buff, last_pix_buff
  pbReady,      \* pb_ready
  pixels,       \* what each buffer holds
  cfg,          \* which configuration is in force
  made,         \* frames made so far
  spoilt        \* history: a buffer was written while it was read

inputVars == <<have, ready, inputBusy>>
stops == <<endDispatcher, stop, cfg>>
buffers == <<w, r, last, pbReady>>
frames == <<pixels, made>>
analyzerVars == <<inputVars, stops, dpc, wpc, target, buffers, frames, spoilt>>

Bufs == 0..2    \* dNUM_PIXEL_BUFFS
NoFrame == [n |-> 0, cfg |-> 0]

AnalyzerInit ==
  /\ have = 0 /\ ready = FALSE /\ inputBusy = FALSE
  /\ endDispatcher = FALSE /\ stop = FALSE /\ cfg = 0
  /\ dpc = "off" /\ wpc = [k \in Workers |-> "idle"] /\ target = [k \in Workers |-> 0]
  /\ w = 0 /\ r = 0 /\ last = 0
  /\ pbReady = [b \in Bufs |-> FALSE] /\ pixels = [b \in Bufs |-> NoFrame]
  /\ made = 0 /\ spoilt = FALSE

-----------------------------------------------------------------------------
(* The samples' way in.                                                    *)

\* Too far ahead of the dispatcher, samples are skipped.
Spectrum0 ==
  /\ have' = (IF have > MaxW THEN MaxW ELSE have) + 1
  /\ ready' = (ready \/ have' >= Size)
  /\ dpc' = IF dpc = "off" THEN "scan" ELSE dpc
  /\ UNCHANGED <<inputBusy, stops, wpc, target, buffers, frames, spoilt>>

Dispatch(k) ==
  /\ dpc = "scan" /\ ~inputBusy /\ ready
  /\ wpc[k] = "idle" /\ made < MaxFrames
  /\ inputBusy' = TRUE
  /\ wpc' = [wpc EXCEPT ![k] = "fft"]
  /\ dpc' = "join"
  /\ UNCHANGED <<have, ready, stops, target, buffers, frames, spoilt>>

Join ==
  /\ dpc = "join" /\ (Joined => \A k \in Workers : wpc[k] = "idle")
  /\ dpc' = "advance"
  /\ UNCHANGED <<inputVars, stops, wpc, target, buffers, frames, spoilt>>

\* Mutant: the flag is left to the next call of Spectrum0.
AdvanceOnly ==
  /\ dpc = "advance" /\ dpc' = "scan"
  /\ have' = have - Incr
  /\ UNCHANGED <<ready, inputBusy, stops, wpc, target, buffers, frames, spoilt>>

Advance ==
  /\ dpc = "advance" /\ dpc' = "scan"
  /\ have' = have - Incr
  /\ ready' = (ready /\ have' >= Size)
  /\ UNCHANGED <<inputBusy, stops, wpc, target, buffers, frames, spoilt>>

Retire ==
  /\ dpc = "scan" /\ endDispatcher
  /\ dpc' = "off"
  /\ UNCHANGED <<inputVars, stops, wpc, target, buffers, frames, spoilt>>

sendbuf == (\E k \in Workers : Dispatch(k)) \/ Join \/ Advance \/ Retire

-----------------------------------------------------------------------------
(* The worker: Cspectra and stitch.                                        *)

At(k, from, to) == wpc[k] = from /\ wpc' = [wpc EXCEPT ![k] = to]

\* Told to stop, before the last of its looks at the flag.
Abandon(k) ==
  /\ stop /\ At(k, "fft", "idle")
  /\ UNCHANGED <<inputVars, stops, dpc, target, buffers, frames, spoilt>>

\* The next span may go to another worker before this one's frame is made.
Transform(k) ==
  /\ At(k, "fft", "stitch")
  /\ inputBusy' = FALSE
  /\ UNCHANGED <<have, ready, stops, dpc, target, buffers, frames, spoilt>>

\* ResampleSection; reading says which buffer is being read, if any.
Write(k, reading) ==
  /\ \A j \in Workers : wpc[j] # "write"
  /\ At(k, "stitch", "write")
  /\ target' = [target EXCEPT ![k] = w]
  /\ spoilt' = (spoilt \/ w \in reading)
  /\ UNCHANGED <<inputVars, stops, dpc, buffers, frames>>

\* Out of ResampleSection; the buffer is published under another lock.
Written(k) ==
  /\ At(k, "write", "publish")
  /\ made' = made + 1
  /\ pixels' = [pixels EXCEPT ![target[k]] = [n |-> made + 1, cfg |-> cfg]]
  /\ UNCHANGED <<inputVars, stops, dpc, target, buffers, spoilt>>

Next3(b) == (b + 1) % 3

\* Mutant: the writer goes on to the next buffer, read or not.
PublishBlind(k) ==
  /\ At(k, "publish", "mark")
  /\ last' = w /\ w' = Next3(w)
  /\ UNCHANGED <<inputVars, stops, dpc, target, r, pbReady, frames, spoilt>>

Publish(k) ==
  /\ At(k, "publish", "mark")
  /\ last' = w
  /\ w' = IF Next3(w) = r THEN Next3(Next3(w)) ELSE Next3(w)
  /\ UNCHANGED <<inputVars, stops, dpc, target, r, pbReady, frames, spoilt>>

Mark(k) ==
  /\ At(k, "mark", "idle")
  /\ pbReady' = [pbReady EXCEPT ![last] = TRUE]
  /\ UNCHANGED <<inputVars, stops, dpc, target, w, r, last, frames, spoilt>>

Cspectra(k, reading) ==
  Abandon(k) \/ Transform(k) \/ Write(k, reading) \/ Written(k) \/ Publish(k) \/ Mark(k)

-----------------------------------------------------------------------------
(* GetPixels: the last buffer is taken, then read if it is fresh.          *)

Pick ==
  /\ r' = last
  /\ UNCHANGED <<inputVars, stops, dpc, wpc, target, w, last, pbReady, frames, spoilt>>

BeginRead ==
  /\ pbReady[r]
  /\ spoilt' = (spoilt \/ \E k \in Workers : wpc[k] = "write" /\ target[k] = r)
  /\ UNCHANGED <<inputVars, stops, dpc, wpc, target, buffers, frames>>

EndRead ==
  /\ pbReady' = [pbReady EXCEPT ![r] = FALSE]
  /\ UNCHANGED <<inputVars, stops, dpc, wpc, target, w, r, last, frames, spoilt>>

-----------------------------------------------------------------------------
(* SetAnalyzer: the dispatcher out, the workers out, everything anew.      *)

SetEnd ==
  /\ endDispatcher' = TRUE
  /\ UNCHANGED <<inputVars, stop, cfg, dpc, wpc, target, buffers, frames, spoilt>>

SetStop ==
  /\ dpc = "off" /\ stop' = TRUE
  /\ UNCHANGED <<inputVars, endDispatcher, cfg, dpc, wpc, target, buffers, frames, spoilt>>

SetAnew ==
  /\ \A k \in Workers : wpc[k] = "idle"
  /\ cfg' = cfg + 1 /\ stop' = FALSE /\ endDispatcher' = FALSE
  /\ have' = 0 /\ ready' = FALSE /\ inputBusy' = FALSE
  /\ w' = 0 /\ r' = 0 /\ last' = 0 /\ pbReady' = [b \in Bufs |-> FALSE]
  /\ UNCHANGED <<dpc, wpc, target, frames, spoilt>>

=============================================================================
