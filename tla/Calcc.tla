------------------------------- MODULE Calcc -------------------------------
(***************************************************************************)
(* PureSignal inside WDSP.  pscc takes one block of feedback after the     *)
(* other through the states of calcc.c; a fit is computed by a thread of   *)
(* its own (doPSCalcCorrection), the correction is ended by another        *)
(* (doPSTurnoff) and restored from a file by a third (PSRestoreCorrection).*)
(* All three drive the correcting stage of the TX chain (iqc.c): they ask  *)
(* for a ramp and wait until samples have carried it out.  A block is one  *)
(* step, for pscc holds cs_update; the three threads do not.               *)
(***************************************************************************)
EXTENDS Naturals

CONSTANT SemMax     \* maximum of the semaphores: 1 on Windows

ASSUME SemAssumption == SemMax \in Nat \ {0}

VARIABLES
  st, atReset,            \* ctrl.state; ctrl.current_state = LRESET
  bsCount,                \* ctrl.bs_count: fits that failed in a row
  reset, turnon, mancal, automode,       \* ctrl: what SetPSControl asks for
  mox, solidmox,          \* a->mox, a->solidmox
  calcInProgress, calcDone, scOK,        \* ctrl.calcinprogress, ctrl.calcdone
  running,                \* ctrl.running: the correction is (to be) on
  run, ist, busy,         \* iqc: run, state, busy
  dog,                    \* iqc: dog.count >= 6
  semCalc, semOff, semRest,      \* Sem_CalcCorr, Sem_TurnOff, Sem_RestCorr
  cpc, opc, rpc,          \* where the three threads are
  unkeyed,                \* history: un-keyed since the collection began
  raced                   \* history: one of the race windows has been hit

control == <<reset, turnon, mancal, automode>>
machine == <<st, atReset, bsCount>>
fit == <<calcInProgress, calcDone, scOK>>
iqcVars == <<run, ist, busy, dog>>
sems == <<semCalc, semOff, semRest>>
threads == <<cpc, opc, rpc>>
calccVars == <<machine, control, mox, solidmox, fit, running, iqcVars, sems,
               threads, unkeyed, raced>>

States == {"LRESET", "LWAIT", "LMOXDELAY", "LSETUP", "LCOLLECT", "MOXCHECK",
           "LCALC", "LDELAY", "LSTAYON", "LTURNON"}
Solid == mox /\ solidmox
Post(s) == IF s < SemMax THEN s + 1 ELSE s

CalccInit ==
  /\ st = "LRESET" /\ atReset = TRUE /\ bsCount = 0
  /\ reset = TRUE /\ turnon = FALSE /\ mancal = FALSE /\ automode = FALSE
  /\ mox = FALSE /\ solidmox = FALSE
  /\ calcInProgress = FALSE /\ calcDone = FALSE /\ scOK = FALSE
  /\ running = FALSE
  /\ run = FALSE /\ ist = "RUN" /\ busy = FALSE /\ dog = FALSE
  /\ semCalc = 0 /\ semOff = 0 /\ semRest = 0
  /\ cpc = "wait" /\ opc = "wait" /\ rpc = "wait"
  /\ unkeyed = FALSE /\ raced = FALSE

-----------------------------------------------------------------------------
(* pscc: a block of feedback.                                              *)

\* A block in state s after which the state is next.
Block(s, next) ==
  /\ st = s /\ st' = next /\ atReset' = (s = "LRESET")
  /\ UNCHANGED <<mox, solidmox, scOK, run, ist, busy, semRest, threads, raced>>

\* Mutant: the turn-off is asked for, the note that it is on stays.
LResetKeepsRunning ==
  /\ Block("LRESET", IF turnon THEN "LTURNON"
                     ELSE IF automode \/ mancal THEN "LWAIT" ELSE "LRESET")
  /\ reset' = FALSE /\ bsCount' = 0
  /\ semOff' = IF running /\ ~turnon THEN Post(semOff) ELSE semOff
  /\ UNCHANGED <<turnon, mancal, automode, running, calcInProgress, calcDone,
                 dog, semCalc, unkeyed>>

LReset ==
  /\ Block("LRESET", IF turnon THEN "LTURNON"
                     ELSE IF automode \/ mancal THEN "LWAIT" ELSE "LRESET")
  /\ reset' = FALSE /\ bsCount' = 0
  /\ running' = (running /\ turnon)
  /\ semOff' = IF running /\ ~turnon THEN Post(semOff) ELSE semOff
  /\ UNCHANGED <<turnon, mancal, automode, calcInProgress, calcDone, dog,
                 semCalc, unkeyed>>

\* What reset and turnon do in most states.
Interrupt ==
  /\ st \in {"LWAIT", "LMOXDELAY", "LSETUP", "LCOLLECT", "MOXCHECK", "LDELAY"}
  /\ reset \/ turnon
  /\ Block(st, IF reset THEN "LRESET" ELSE "LTURNON")
  /\ mancal' = (mancal /\ st # "LWAIT")
  /\ UNCHANGED <<reset, turnon, automode, bsCount, calcInProgress, calcDone,
                 running, dog, semCalc, semOff, unkeyed>>

LWait ==
  /\ ~reset /\ ~turnon
  /\ st = "LWAIT" /\ atReset' = FALSE /\ mancal' = FALSE
  /\ st' = IF mox THEN "LMOXDELAY" ELSE "LWAIT"
  /\ solidmox' = (solidmox \/ mox)
  /\ UNCHANGED <<reset, turnon, automode, bsCount, mox, fit, running, iqcVars,
                 sems, threads, unkeyed, raced>>

\* The states that do nothing but move on.
Advance(s, next) ==
  /\ ~reset /\ ~turnon
  /\ Block(s, next)
  /\ UNCHANGED <<control, bsCount, calcInProgress, calcDone, running, dog,
                 semCalc, semOff, unkeyed>>

KeyLost == \E s \in {"LMOXDELAY", "LSETUP", "LCOLLECT", "MOXCHECK"} :
  ~Solid /\ Advance(s, "LWAIT")

\* moxcount, waitcount and the intervals still to fill: either outcome.
NotYet == \/ Solid /\ Advance("LMOXDELAY", "LMOXDELAY")
          \/ Solid /\ ~dog /\ Advance("LCOLLECT", "LCOLLECT")
          \/ Advance("LDELAY", "LDELAY")

LMoxDelay == Solid /\ Advance("LMOXDELAY", "LSETUP")
LCollect == Solid /\ Advance("LCOLLECT", "MOXCHECK")
Watchdog == Solid /\ dog /\ Advance("LCOLLECT", "LRESET")
MoxCheck == Solid /\ Advance("MOXCHECK", "LCALC")

LSetup ==
  /\ ~reset /\ ~turnon /\ Solid
  /\ Block("LSETUP", "LCOLLECT")
  /\ dog' = FALSE /\ unkeyed' = FALSE
  /\ UNCHANGED <<control, bsCount, calcInProgress, calcDone, running, semCalc,
                 semOff>>

LDelay == Advance("LDELAY", IF ~automode THEN "LSTAYON"
                            ELSE IF Solid THEN "LSETUP" ELSE "LWAIT")

\* A fit is asked for once, and waited for.
LCalcAsk ==
  /\ ~calcDone
  /\ Block("LCALC", "LCALC")
  /\ calcInProgress' = TRUE
  /\ semCalc' = IF calcInProgress THEN semCalc ELSE Post(semCalc)
  /\ UNCHANGED <<control, bsCount, calcDone, running, dog, semOff, unkeyed>>

Fitted(bad, next) ==
  /\ calcDone /\ calcDone' = FALSE
  /\ Block("LCALC", next)
  /\ semCalc' = IF calcInProgress THEN semCalc ELSE Post(semCalc)
  /\ bsCount' = bad
  /\ UNCHANGED <<control, running, dog, semOff, unkeyed>>

Retry == IF Solid THEN "LSETUP" ELSE "LWAIT"

\* Mutant: the state machine gives up after the third bad fit.
LCalcTakePatient ==
  /\ calcInProgress' = FALSE
  /\ \/ (reset \/ turnon) /\ Fitted(bsCount, IF reset THEN "LRESET" ELSE "LTURNON")
     \/ ~reset /\ ~turnon /\ scOK /\ Fitted(0, "LDELAY")
     \/ /\ ~reset /\ ~turnon /\ ~scOK
        /\ Fitted(bsCount + 1, IF bsCount + 1 >= 3 THEN "LRESET" ELSE Retry)

\* Mutant: the next fit is taken for one under way.
LCalcTakeHeld ==
  /\ UNCHANGED calcInProgress
  /\ \/ (reset \/ turnon) /\ Fitted(bsCount, IF reset THEN "LRESET" ELSE "LTURNON")
     \/ ~reset /\ ~turnon /\ scOK /\ Fitted(0, "LDELAY")
     \/ /\ ~reset /\ ~turnon /\ ~scOK
        /\ Fitted(bsCount + 1, IF bsCount + 1 >= 2 THEN "LRESET" ELSE Retry)

LCalcTake ==
  /\ calcInProgress' = FALSE
  /\ \/ (reset \/ turnon) /\ Fitted(bsCount, IF reset THEN "LRESET" ELSE "LTURNON")
     \/ ~reset /\ ~turnon /\ scOK /\ Fitted(0, "LDELAY")
     \/ /\ ~reset /\ ~turnon /\ ~scOK
        /\ Fitted(bsCount + 1, IF bsCount + 1 >= 2 THEN "LRESET" ELSE Retry)

LStayOn ==
  /\ Block("LSTAYON", IF reset \/ automode \/ mancal THEN "LRESET" ELSE "LSTAYON")
  /\ UNCHANGED <<control, bsCount, calcInProgress, calcDone, running, dog,
                 semCalc, semOff, unkeyed>>

LTurnOn ==
  /\ Block("LTURNON", "LSTAYON")
  /\ turnon' = FALSE /\ automode' = FALSE
  /\ UNCHANGED <<reset, mancal, bsCount, calcInProgress, calcDone, running, dog,
                 semCalc, semOff, unkeyed>>

pscc ==
  \/ LReset \/ Interrupt \/ LWait \/ KeyLost \/ NotYet
  \/ LMoxDelay \/ LSetup \/ LCollect \/ Watchdog \/ MoxCheck
  \/ LCalcAsk \/ LCalcTake \/ LDelay \/ LStayOn \/ LTurnOn

-----------------------------------------------------------------------------
(* iqc: the correcting stage, driven by the samples of the TX chain.       *)

RampDone ==
  /\ run /\ ist \in {"BEGIN", "SWAP", "END"}
  /\ ist' = IF ist = "END" THEN "DONE" ELSE "RUN"
  /\ busy' = FALSE
  /\ UNCHANGED <<machine, control, mox, solidmox, fit, running, run, dog, sems,
                 threads, unkeyed, raced>>

DogBarks ==
  /\ run /\ ist = "RUN" /\ ~dog /\ dog' = TRUE
  /\ UNCHANGED <<machine, control, mox, solidmox, fit, running, run, ist, busy,
                 sems, threads, unkeyed, raced>>

xiqc == RampDone \/ DogBarks

-----------------------------------------------------------------------------
(* The threads.  The first two hold cs_SafeToEnd through their ramp.       *)

SafeHeld == cpc \in {"start", "ramp"} \/ opc = "ramp"
EndPending == semOff > 0 \/ opc # "wait"

\* SetTXAiqcStart, up to its lock's end, or SetTXAiqcSwap.
Ramp == /\ running' = TRUE /\ busy' = TRUE
        /\ ist' = IF running THEN "SWAP" ELSE "BEGIN"

CalcWake ==
  /\ cpc = "wait" /\ semCalc > 0
  /\ cpc' = "calc" /\ semCalc' = semCalc - 1
  /\ UNCHANGED <<machine, control, mox, solidmox, fit, running, iqcVars, semOff,
                 semRest, opc, rpc, unkeyed, raced>>

\* The fit, good or bad.
Calc ==
  /\ cpc = "calc"
  /\ scOK' \in BOOLEAN
  /\ cpc' = IF scOK' THEN "lock" ELSE "done"
  /\ UNCHANGED <<machine, control, mox, solidmox, calcInProgress, calcDone,
                 running, iqcVars, sems, opc, rpc, unkeyed, raced>>

\* Mutant: without cs_SafeToEnd.
CalcApplyUnlocked ==
  /\ cpc = "lock" /\ Ramp
  /\ cpc' = IF running THEN "ramp" ELSE "start"
  /\ raced' = (raced \/ semOff > 0 \/ opc = "lock" \/ rpc \in {"start", "ramp"})
  /\ UNCHANGED <<machine, control, mox, solidmox, fit, run, dog, sems, opc, rpc,
                 unkeyed>>

\* A turn-off asked for earlier and still to come, or a restore at work, is
\* the window: cs_SafeToEnd keeps neither away.
CalcApply ==
  /\ cpc = "lock" /\ ~SafeHeld /\ Ramp
  /\ cpc' = IF running THEN "ramp" ELSE "start"
  /\ raced' = (raced \/ semOff > 0 \/ opc = "lock" \/ rpc \in {"start", "ramp"})
  /\ UNCHANGED <<machine, control, mox, solidmox, fit, run, dog, sems, opc, rpc,
                 unkeyed>>

CalcRun ==
  /\ cpc = "start" /\ cpc' = "ramp" /\ run' = TRUE
  /\ UNCHANGED <<machine, control, mox, solidmox, fit, running, ist, busy, dog,
                 sems, opc, rpc, unkeyed, raced>>

CalcRamped ==
  /\ cpc = "ramp" /\ ~busy /\ cpc' = "done"
  /\ UNCHANGED <<machine, control, mox, solidmox, fit, running, iqcVars, sems,
                 opc, rpc, unkeyed, raced>>

CalcReport ==
  /\ cpc = "done" /\ cpc' = "wait" /\ calcDone' = TRUE
  /\ UNCHANGED <<machine, control, mox, solidmox, calcInProgress, scOK, running,
                 iqcVars, sems, opc, rpc, unkeyed, raced>>

doPSCalcCorrection == CalcWake \/ Calc \/ CalcApply \/ CalcRun \/ CalcRamped \/ CalcReport

OffWake ==
  /\ opc = "wait" /\ semOff > 0
  /\ opc' = "lock" /\ semOff' = semOff - 1
  /\ UNCHANGED <<machine, control, mox, solidmox, fit, running, iqcVars, semCalc,
                 semRest, cpc, rpc, unkeyed, raced>>

OffApply ==
  /\ opc = "lock" /\ ~SafeHeld
  /\ opc' = "ramp" /\ busy' = TRUE /\ ist' = "END"
  /\ raced' = (raced \/ rpc \in {"start", "ramp"})
  /\ UNCHANGED <<machine, control, mox, solidmox, fit, running, run, dog, sems,
                 cpc, rpc, unkeyed>>

OffRamped ==
  /\ opc = "ramp" /\ ~busy
  /\ opc' = "wait" /\ run' = FALSE
  /\ UNCHANGED <<machine, control, mox, solidmox, fit, running, ist, busy, dog,
                 sems, cpc, rpc, unkeyed, raced>>

doPSTurnoff == OffWake \/ OffApply \/ OffRamped

\* Nothing happens without a readable file.
RestWake ==
  /\ rpc = "wait" /\ semRest > 0
  /\ semRest' = semRest - 1
  /\ rpc' \in {"wait", "file"}
  /\ UNCHANGED <<machine, control, mox, solidmox, fit, running, iqcVars, semCalc,
                 semOff, cpc, opc, unkeyed, raced>>

\* No cs_SafeToEnd here: the other two at work are the window.
RestApply ==
  /\ rpc = "file" /\ Ramp
  /\ rpc' = IF running THEN "ramp" ELSE "start"
  /\ raced' = (raced \/ EndPending \/ cpc \in {"lock", "start", "ramp"})
  /\ UNCHANGED <<machine, control, mox, solidmox, fit, run, dog, sems, cpc, opc,
                 unkeyed>>

RestRun ==
  /\ rpc = "start" /\ rpc' = "ramp" /\ run' = TRUE
  /\ UNCHANGED <<machine, control, mox, solidmox, fit, running, ist, busy, dog,
                 sems, cpc, opc, unkeyed, raced>>

RestRamped ==
  /\ rpc = "ramp" /\ ~busy /\ rpc' = "wait"
  /\ UNCHANGED <<machine, control, mox, solidmox, fit, running, iqcVars, sems,
                 cpc, opc, unkeyed, raced>>

PSRestoreCorrection == RestWake \/ RestApply \/ RestRun \/ RestRamped

=============================================================================
