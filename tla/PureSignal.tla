----------------------------- MODULE PureSignal -----------------------------
(***************************************************************************)
(* PureSignal as the engine drives it (WdspDspEngine): feedback blocks,    *)
(* keying, arming and disarming, the mode of calibration, reset, restore   *)
(* and the change of resolution.  Feedback and all the calls but SetMox    *)
(* take _psLock, so no block is processed inside one of them.              *)
(***************************************************************************)
EXTENDS Calcc

CONSTANTS
  ZeroBlocks,   \* blocks of zeros a disarm feeds: 7
  Modes         \* modes of calibration the operator chooses from

ASSUME ModesAssumption == Modes \subseteq {"off", "auto", "single"} /\ "off" \in Modes
ASSUME ZeroAssumption == ZeroBlocks \in Nat

VARIABLES
  runcal,       \* a->runcal, and WdspDspEngine._psEnabled
  psMode,       \* _psAuto and _psSingle
  psLock,       \* who holds _psLock for more than a step
  zeros,        \* blocks of zeros still to feed
  saved,        \* what SetPSIntsAndSpi puts back
  moxpc         \* whether SetPSMox(0) is between its two writes

engineVars == <<psMode, moxpc>>
lockVars == <<psLock, zeros, saved>>
vars == <<calccVars, runcal, engineVars, lockVars>>

Nothing == [runcal |-> FALSE, mancal |-> FALSE, automode |-> FALSE, turnon |-> FALSE]
Free == psLock = "free"

Init ==
  /\ CalccInit
  /\ runcal = FALSE /\ psMode = "off"
  /\ psLock = "free" /\ zeros = 0 /\ saved = Nothing
  /\ moxpc = "rest"

-----------------------------------------------------------------------------

FeedPsFeedbackBlock ==
  /\ Free /\ runcal /\ pscc
  /\ UNCHANGED <<runcal, engineVars, lockVars>>

\* Samples pass through TXA while keyed, and otherwise with the monitor on.
Samples == xiqc /\ UNCHANGED <<runcal, engineVars, lockVars>>

Threads ==
  /\ doPSCalcCorrection \/ doPSTurnoff \/ PSRestoreCorrection
  /\ UNCHANGED <<runcal, engineVars, lockVars>>

KeyDown ==
  /\ ~mox /\ moxpc = "rest"
  /\ mox' = TRUE
  /\ UNCHANGED <<machine, control, solidmox, fit, running, iqcVars, sems,
                 threads, unkeyed, raced, runcal, engineVars, lockVars>>

KeyUp ==
  /\ mox /\ moxpc = "rest"
  /\ mox' = FALSE /\ moxpc' = "clearing" /\ unkeyed' = TRUE
  /\ UNCHANGED <<machine, control, solidmox, fit, running, iqcVars, sems,
                 threads, raced, runcal, psMode, lockVars>>

\* Mutant: SetPSMox(0) clears one flag.
KeyUpKeepsSolid ==
  /\ moxpc = "clearing" /\ moxpc' = "rest"
  /\ UNCHANGED <<calccVars, runcal, psMode, lockVars>>

KeyUpSolid ==
  /\ moxpc = "clearing" /\ moxpc' = "rest"
  /\ solidmox' = FALSE
  /\ UNCHANGED <<machine, control, mox, fit, running, iqcVars, sems, threads,
                 unkeyed, raced, runcal, psMode, lockVars>>

-----------------------------------------------------------------------------

SetPSControl(r, m, a, t) ==
  /\ reset' = r /\ mancal' = m /\ automode' = a /\ turnon' = t

\* What a call of the engine leaves alone when it only asks calcc for something.
OnlyControl == UNCHANGED <<machine, mox, solidmox, fit, running, iqcVars, semCalc,
                           semOff, threads, unkeyed, moxpc, lockVars>>

SetPsControl(mode) ==
  /\ Free /\ OnlyControl
  /\ psMode' = mode
  /\ SetPSControl(mode = "off", mode = "single", mode = "auto", FALSE)
  /\ UNCHANGED <<semRest, runcal, raced>>

Arm ==
  /\ Free /\ OnlyControl
  /\ runcal' = TRUE
  /\ SetPSControl(TRUE, psMode = "single", psMode = "auto", FALSE)
  /\ UNCHANGED <<semRest, psMode, raced>>

\* The request for a reset is overwritten before _psLock is released.  It takes
\* an earlier one with it: the window.
ResetPs ==
  /\ Free /\ OnlyControl
  /\ SetPSControl(FALSE, psMode = "single", psMode = "auto", FALSE)
  /\ raced' = (raced \/ reset)
  /\ UNCHANGED <<semRest, runcal, psMode>>

RestorePsCorrection ==
  /\ Free /\ OnlyControl
  /\ SetPSControl(FALSE, FALSE, FALSE, TRUE)
  /\ semRest' = Post(semRest)
  /\ UNCHANGED <<runcal, psMode, raced>>

\* SetPsEnabled(false): blocks of zeros, then the gate, then the reset.
DisarmBegin ==
  /\ Free
  /\ psLock' = "disarm" /\ zeros' = ZeroBlocks
  /\ UNCHANGED <<calccVars, runcal, engineVars, saved>>

DisarmZero ==
  /\ psLock = "disarm" /\ zeros > 0 /\ zeros' = zeros - 1
  /\ IF runcal THEN pscc ELSE UNCHANGED calccVars
  /\ UNCHANGED <<runcal, engineVars, psLock, saved>>

DisarmEnd ==
  /\ psLock = "disarm" /\ zeros = 0
  /\ psLock' = "free" /\ runcal' = FALSE
  /\ SetPSControl(TRUE, FALSE, FALSE, FALSE)
  /\ UNCHANGED <<machine, mox, solidmox, fit, running, iqcVars, sems, threads,
                 unkeyed, raced, engineVars, zeros, saved>>

-----------------------------------------------------------------------------
(* SetPSIntsAndSpi, under _psLock and never while keyed.                   *)

Calm == atReset /\ ~running /\ ~run

ResizeBegin ==
  /\ Free /\ ~mox
  /\ psLock' = "resize"
  /\ saved' = [runcal |-> runcal, mancal |-> mancal, automode |-> automode,
               turnon |-> turnon]
  /\ SetPSControl(TRUE, FALSE, FALSE, FALSE)
  /\ UNCHANGED <<machine, mox, solidmox, fit, running, iqcVars, sems, threads,
                 unkeyed, raced, runcal, engineVars, zeros>>

Rebuilt ==
  /\ psLock' = "free" /\ saved' = Nothing
  /\ SetPSControl(TRUE, saved.mancal, saved.automode, saved.turnon)
  /\ runcal' = saved.runcal
  /\ dog' = FALSE

ResizeCalm ==
  /\ psLock = "resize" /\ Calm
  /\ Rebuilt
  /\ UNCHANGED <<machine, mox, solidmox, fit, running, run, ist, busy, sems,
                 threads, unkeyed, raced, engineVars, zeros>>

\* 50 ms have passed.  A fit, a turn-off or a restore under way: the window.
ForceShutDown ==
  /\ psLock = "resize" /\ ~Calm
  /\ psLock' = "force" /\ runcal' = FALSE /\ run' = FALSE
  /\ raced' = (raced \/ calcInProgress \/ cpc # "wait" \/ EndPending
                     \/ rpc # "wait" \/ semRest > 0)
  /\ UNCHANGED <<machine, control, mox, solidmox, fit, running, ist, busy, dog,
                 sems, threads, unkeyed, engineVars, zeros, saved>>

ForceDone ==
  /\ psLock = "force"
  /\ st' = "LRESET" /\ bsCount' = 0 /\ running' = FALSE
  /\ busy' = FALSE /\ calcDone' = FALSE
  /\ Rebuilt
  /\ UNCHANGED <<atReset, mox, solidmox, calcInProgress, scOK, run, ist, sems,
                 threads, unkeyed, raced, engineVars, zeros>>

PsLockSteps == DisarmZero \/ DisarmEnd \/ ResizeCalm \/ ForceShutDown \/ ForceDone

Next ==
  \/ FeedPsFeedbackBlock \/ Samples \/ Threads
  \/ KeyDown \/ KeyUp \/ KeyUpSolid
  \/ \E mode \in Modes : SetPsControl(mode)
  \/ Arm \/ ResetPs \/ RestorePsCorrection
  \/ DisarmBegin \/ ResizeBegin \/ PsLockSteps

\* Bound of a run: nothing is claimed of what follows a race window.
BeforeTheWindow == ~raced

Fairness ==
  /\ WF_vars(doPSCalcCorrection /\ UNCHANGED <<runcal, engineVars, lockVars>>)
  /\ WF_vars(doPSTurnoff /\ UNCHANGED <<runcal, engineVars, lockVars>>)
  /\ WF_vars(PSRestoreCorrection /\ UNCHANGED <<runcal, engineVars, lockVars>>)
  /\ WF_vars(PsLockSteps)

Spec == Init /\ [][Next]_vars /\ Fairness

-----------------------------------------------------------------------------
(* Properties.                                                             *)

\* The states are among the known ones, at most two bad fits are on the books,
\* and the semaphores keep their maximum (calcc.c, iqc.c).
PsTypeOK ==
  /\ st \in States /\ bsCount \in 0..2
  /\ {reset, turnon, mancal, automode, mox, solidmox, calcInProgress, calcDone,
      scOK, running, run, busy, dog, atReset, runcal, unkeyed, raced} \subseteq BOOLEAN
  /\ ist \in {"RUN", "BEGIN", "SWAP", "END", "DONE"}
  /\ {semCalc, semOff, semRest} \subseteq 0..SemMax
  /\ cpc \in {"wait", "calc", "lock", "start", "ramp", "done"}
  /\ opc \in {"wait", "lock", "ramp"} /\ rpc \in {"wait", "file", "start", "ramp"}
  /\ psMode \in Modes /\ psLock \in {"free", "disarm", "resize", "force"}
  /\ zeros \in 0..ZeroBlocks /\ moxpc \in {"rest", "clearing"}

AtRest == ~EndPending /\ cpc \notin {"start", "ramp"} /\ rpc \notin {"start", "ramp"}
          /\ psLock # "force"

\* With no ramp under way and none asked for, and no race window hit before, the
\* state machine and the correcting stage agree on whether the signal is
\* predistorted, and the stage is through with its last ramp (calcc.c
\* ctrl.running against iqc.c run).
CorrectionAgrees ==
  AtRest /\ ~raced => (running <=> run) /\ (run => ist = "RUN") /\ ~busy

\* Until a race window is hit, a ramp somebody waits for is carried out, never
\* replaced by another one (cs_SafeToEnd of calcc.c).
OneRamp == [][busy /\ ist' # ist => ~busy' \/ raced']_vars

\* A fit is computed from samples of one key-down (solidmox of calcc.c).
FitFromOneKeyDown == [][st = "MOXCHECK" /\ st' = "LCALC" => ~unkeyed]_vars

\* What OffEnds asks of the world and no thread of the server guarantees: while
\* keyed the radio returns feedback, and something pumps the TX chain.  Mic
\* frames, TUN and two-tone do; CW and a hardware key without a microphone do not.
SignalFlows == WF_vars(mox /\ FeedPsFeedbackBlock) /\ WF_vars(mox /\ Samples)

\* Both modes switched off while keyed, as PsAutoAttenuateService does before it
\* moves the attenuator: if the signal keeps flowing, the correction ends before
\* the next request, the next un-key or a race window.  The state machine gets
\* out of a fit, the ramps are carried out and the turn-off thread gets its turn
\* (IDspEngine SetPsControl, calcc.c LRESET).
OffEnds ==
  SignalFlows =>
    ((reset /\ ~automode /\ ~mancal /\ ~turnon /\ runcal) ~>
      (~run \/ automode \/ mancal \/ turnon \/ ~runcal \/ ~mox \/ raced))
=============================================================================
