---------------------------- MODULE WdspChannel ----------------------------
(***************************************************************************)
(* One WDSP channel: callers exchange a block of input for a block of      *)
(* output (fexchange0/2), the channel's own thread moves blocks between    *)
(* the two rings (wdspmain, dexchange), a second thread empties everything *)
(* when the channel has been turned off (flushChannel), and SetChannelState*)
(* turns it on and off from any thread.  csEXCH and csDSP are represented  *)
(* by the positions of the threads that can hold them.  Amounts are in     *)
(* blocks of the caller; a ring is its fill, the distance between its in   *)
(* and its out index.  The channel is opened with bfo = 1, the only way    *)
(* Zeus opens one: a caller waits for its output.                          *)
(***************************************************************************)
EXTENDS Integers, FiniteSets

CONSTANTS
  Callers,      \* threads that call fexchange
  Ratio,        \* caller's blocks in one block of the DSP thread
  DownBlocks,   \* blocks the ramp to silence takes
  FlushMax      \* maximum of Sem_Flush: 1 on Windows, none in linux_port.c

ASSUME RatioAssumption == Ratio \in Nat \ {0}
ASSUME DownAssumption == DownBlocks \in Nat \ {0}
ASSUME FlushAssumption == FlushMax \in Nat \ {0}

VARIABLES
  state,        \* ch.state
  exchange,     \* ch.exchange: fexchange does something
  flushflag,    \* ch.flushflag: the flush asked for has not happened yet
  execBypass,   \* iob.exec_bypass: the DSP thread discards its wake-ups
  downflag, downPos,  \* slew.downflag; blocks of the down ramp already out
  semBuff,      \* Sem_BuffReady
  semOut,       \* Sem_OutReady
  semFlush,     \* Sem_Flush
  unqueued,     \* r1_unqueuedsamps
  fill1, fill2, \* blocks in the input and in the output ring
  cpc,          \* where each caller is
  dpc,          \* where wdspmain is
  fpc,          \* where flushChannel is
  disturbed,    \* history: a race window has been hit since the last flush
  timedOut      \* history: an off has given up waiting since the last flush

history == <<disturbed, timedOut>>
switches == <<state, exchange, flushflag, execBypass>>
slews == <<downflag, downPos>>
rings == <<semBuff, semOut, unqueued, fill1, fill2>>
channelVars == <<switches, slews, rings, semFlush, cpc, dpc, fpc, history>>

Inside(c) == cpc[c] \in {"waiting", "giving", "slewing"}
Somebody == \E c \in Callers : Inside(c)
DspHeld == dpc \in {"in", "mid"} \/ fpc = "exch"
Rest == Ratio     \* what a flush leaves in the output ring: DSP_MULT - 1 lots

ChannelInit ==
  /\ state = 0 /\ exchange = FALSE /\ flushflag = FALSE /\ execBypass = FALSE
  /\ downflag = FALSE /\ downPos = 0
  /\ semBuff = 0 /\ semOut = Rest /\ semFlush = 0 /\ unqueued = 0
  /\ fill1 = 0 /\ fill2 = Rest
  /\ cpc = [c \in Callers |-> "idle"] /\ dpc = "wait" /\ fpc = "wait"
  /\ disturbed = FALSE /\ timedOut = FALSE

-----------------------------------------------------------------------------
(* The caller: fexchange0 and fexchange2.                                  *)

CallerAt(c, from, to) == cpc[c] = from /\ cpc' = [cpc EXCEPT ![c] = to]

\* The exchange bit is read before the lock is taken.
Admit(c) ==
  /\ exchange
  /\ CallerAt(c, "gated", "admitted")
  /\ UNCHANGED <<switches, slews, rings, semFlush, dpc, fpc, history>>

TurnedAway(c) ==
  /\ ~exchange
  /\ CallerAt(c, "gated", "idle")
  /\ UNCHANGED <<switches, slews, rings, semFlush, dpc, fpc, history>>

\* csEXCH, the input block into its ring, the DSP thread woken when it has
\* enough.  A caller admitted before the channel went off is a straggler.
Put(c) ==
  /\ ~Somebody
  /\ CallerAt(c, "admitted", "waiting")
  /\ semBuff' = semBuff + (unqueued + 1) \div Ratio
  /\ unqueued' = (unqueued + 1) % Ratio
  /\ fill1' = fill1 + 1
  /\ disturbed' = (disturbed \/ ~exchange)
  /\ UNCHANGED <<switches, slews, semOut, fill2, semFlush, dpc, fpc, timedOut>>

\* Mutant: bfo = 0, the caller does not wait for its output.
TakeAnyway(c) ==
  /\ CallerAt(c, "waiting", IF downflag THEN "slewing" ELSE "giving")
  /\ semOut' = IF semOut > 0 THEN semOut - 1 ELSE 0
  /\ UNCHANGED <<switches, slews, semBuff, unqueued, fill1, fill2, semFlush,
                 dpc, fpc, history>>

\* The wait for Sem_OutReady, and the look at downflag.
Take(c) ==
  /\ semOut > 0
  /\ CallerAt(c, "waiting", IF downflag THEN "slewing" ELSE "giving")
  /\ semOut' = semOut - 1
  /\ UNCHANGED <<switches, slews, semBuff, unqueued, fill1, fill2, semFlush,
                 dpc, fpc, history>>

Give(c) ==
  /\ CallerAt(c, "giving", "idle")
  /\ fill2' = fill2 - 1
  /\ UNCHANGED <<switches, slews, semBuff, semOut, unqueued, fill1, semFlush,
                 dpc, fpc, history>>

\* The block is out; the ramp, if it is still asked for, goes one on.
RampDown(c) ==
  /\ CallerAt(c, "slewing", "idle")
  /\ fill2' = fill2 - 1
  /\ downPos' = (downPos + 1) % DownBlocks
  /\ downflag' = (downflag /\ downPos' # 0)
  /\ UNCHANGED <<state, flushflag, execBypass, semBuff, semOut, unqueued, fill1,
                 dpc, fpc, history>>

\* Mutant: the semaphore counts every request.
SlewUncapped(c) ==
  /\ RampDown(c)
  /\ IF downflag' THEN UNCHANGED <<exchange, semFlush>>
                  ELSE exchange' = FALSE /\ semFlush' = semFlush + 1

\* A block of the down ramp.  After the last one, or if the flag was taken
\* back meanwhile, the channel goes silent and its flush is asked for.
Slew(c) ==
  /\ RampDown(c)
  /\ IF downflag' THEN UNCHANGED <<exchange, semFlush>>
                  ELSE exchange' = FALSE
                       /\ semFlush' = (IF semFlush < FlushMax THEN semFlush + 1 ELSE semFlush)

-----------------------------------------------------------------------------
(* The DSP thread: wdspmain and dexchange.                                 *)

DspWake ==
  /\ dpc = "wait" /\ semBuff > 0
  /\ semBuff' = semBuff - 1 /\ dpc' = "lock"
  /\ UNCHANGED <<switches, slews, semOut, unqueued, fill1, fill2, semFlush,
                 cpc, fpc, history>>

DspEnter ==
  /\ dpc = "lock" /\ fpc # "exch"
  /\ dpc' = IF execBypass THEN "wait" ELSE "in"
  /\ UNCHANGED <<switches, slews, rings, semFlush, cpc, fpc, history>>

\* dexchange: last result out, then the next input in; the callers are woken
\* between the two.
DspOut ==
  /\ dpc = "in" /\ dpc' = "mid"
  /\ fill2' = fill2 + Ratio
  /\ semOut' = semOut + Ratio
  /\ UNCHANGED <<switches, slews, semBuff, unqueued, fill1, semFlush, cpc,
                 fpc, history>>

DspIn ==
  /\ dpc = "mid" /\ dpc' = "wait"
  /\ fill1' = fill1 - Ratio
  /\ UNCHANGED <<switches, slews, semBuff, semOut, unqueued, fill2, semFlush,
                 cpc, fpc, history>>

-----------------------------------------------------------------------------
(* The flush thread: flushChannel, flush_iobuffs, flush_slews.             *)

FlushWake ==
  /\ fpc = "wait" /\ semFlush > 0
  /\ semFlush' = semFlush - 1 /\ fpc' = "dsp"
  /\ UNCHANGED <<switches, slews, rings, cpc, dpc, history>>

FlushEnter ==
  /\ fpc = "dsp" /\ ~DspHeld
  /\ fpc' = "exch"
  /\ UNCHANGED <<switches, slews, rings, semFlush, cpc, dpc, history>>

\* Rings, semaphores and ramps start over, and wake-ups that are still on
\* their way are discarded.
OnAgain == state = 1 \/ exchange     \* the flush comes too late

StartOver(wakeups) ==
  /\ fpc' = "flag"
  /\ semBuff' = wakeups /\ semOut' = Rest /\ unqueued' = 0
  /\ fill1' = 0 /\ fill2' = Rest
  /\ downflag' = FALSE /\ downPos' = 0
  /\ execBypass' = TRUE
  /\ disturbed' = (disturbed /\ OnAgain) /\ timedOut' = (timedOut /\ OnAgain)
  /\ UNCHANGED <<state, exchange, flushflag, semFlush, cpc, dpc>>

\* Mutant: the flush does not wait for csEXCH.
FlushUnlocked == fpc = "exch" /\ StartOver(0)

\* Mutant: Sem_BuffReady is not drained.
FlushUndrained == fpc = "exch" /\ ~Somebody /\ StartOver(semBuff)

\* Both locks are held.
Flush == fpc = "exch" /\ ~Somebody /\ StartOver(0)

FlushDone ==
  /\ fpc = "flag" /\ fpc' = "wait"
  /\ flushflag' = FALSE
  /\ UNCHANGED <<state, exchange, execBypass, slews, rings, semFlush, cpc, dpc,
                 history>>

-----------------------------------------------------------------------------
(* SetChannelState, in the steps its interlocked operations make.          *)

OffState ==
  /\ state' = 0 /\ downflag' = TRUE
  /\ UNCHANGED <<exchange, flushflag, execBypass, downPos, rings,
                 semFlush, cpc, dpc, fpc, history>>

OffAsk ==
  /\ flushflag' = TRUE
  /\ UNCHANGED <<state, exchange, execBypass, slews, rings, semFlush, cpc, dpc,
                 fpc, history>>

OffFlushed == ~flushflag /\ UNCHANGED channelVars

\* 100 ms without an answer: off, without ramp and without flush.
OffTimeout ==
  /\ flushflag
  /\ exchange' = FALSE /\ flushflag' = FALSE /\ downflag' = FALSE
  /\ timedOut' = TRUE
  /\ UNCHANGED <<state, execBypass, downPos, rings, semFlush, cpc, dpc, fpc,
                 disturbed>>

\* What is still on its way from the time the channel was on: a flush, a
\* caller that will ask for one, a wake-up the flush did not catch.
FlushDue == fpc # "wait" \/ semFlush > 0 \/ \E c \in Callers : cpc[c] = "slewing"
StaleWake == execBypass /\ dpc = "lock"

\* Mutant: the DSP thread is left discarding its wake-ups.
OnStateBypassed ==
  /\ state' = 1
  /\ disturbed' = (disturbed \/ FlushDue)
  /\ UNCHANGED <<exchange, flushflag, execBypass, downflag, downPos, rings, semFlush,
                 cpc, dpc, fpc, timedOut>>

OnState ==
  /\ state' = 1 /\ execBypass' = FALSE
  /\ disturbed' = (disturbed \/ FlushDue \/ StaleWake)
  /\ UNCHANGED <<exchange, flushflag, downflag, downPos, rings, semFlush,
                 cpc, dpc, fpc, timedOut>>

OnExchange ==
  /\ exchange' = TRUE
  /\ UNCHANGED <<state, flushflag, execBypass, slews, rings, semFlush, cpc, dpc,
                 fpc, history>>

CallerMoves(c) == Put(c) \/ Take(c) \/ Give(c) \/ Slew(c)
DspMoves == DspWake \/ DspEnter \/ DspOut \/ DspIn
FlushMoves == FlushWake \/ FlushEnter \/ Flush \/ FlushDone
=============================================================================
