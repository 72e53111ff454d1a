-------------------------- MODULE PureSignalProofs --------------------------
(***************************************************************************)
(* PureSignal for every maximum of the semaphores, every number of zero     *)
(* blocks and every set of modes: types, whose samples a fit is made of,    *)
(* and, until a race window is hit, who ramps the correcting stage and      *)
(* whether it corrects.                                                    *)
(***************************************************************************)
EXTENDS PureSignal, TLAPS

-----------------------------------------------------------------------------
(* Types.                                                                  *)

\* The truth values: what is asked for, and put aside by SetPSIntsAndSpi; keying
\* and fits; the correcting stage.
AskedOK ==
  /\ reset \in BOOLEAN /\ turnon \in BOOLEAN /\ mancal \in BOOLEAN /\ automode \in BOOLEAN
  /\ saved.mancal \in BOOLEAN /\ saved.automode \in BOOLEAN /\ saved.turnon \in BOOLEAN

KeyedOK ==
  /\ mox \in BOOLEAN /\ solidmox \in BOOLEAN /\ unkeyed \in BOOLEAN /\ atReset \in BOOLEAN
  /\ calcInProgress \in BOOLEAN /\ calcDone \in BOOLEAN /\ scOK \in BOOLEAN

StageOK ==
  /\ running \in BOOLEAN /\ run \in BOOLEAN /\ busy \in BOOLEAN /\ dog \in BOOLEAN
  /\ raced \in BOOLEAN /\ runcal \in BOOLEAN /\ saved.runcal \in BOOLEAN

FlagsOK == AskedOK /\ KeyedOK /\ StageOK

\* Positions of the threads, of the lock and of the correcting stage.
PlacesOK ==
  /\ ist \in {"RUN", "BEGIN", "SWAP", "END", "DONE"}
  /\ semCalc \in 0..SemMax /\ semOff \in 0..SemMax /\ semRest \in 0..SemMax
  /\ cpc \in {"wait", "calc", "lock", "start", "ramp", "done"}
  /\ opc \in {"wait", "lock", "ramp"} /\ rpc \in {"wait", "file", "start", "ramp"}
  /\ psMode \in Modes /\ psLock \in {"free", "disarm", "resize", "force"}
  /\ zeros \in 0..ZeroBlocks /\ moxpc \in {"rest", "clearing"}

\* A second bad fit is on the books only on the way through LRESET.
MachineOK ==
  /\ st \in States /\ bsCount \in 0..2
  /\ st # "LRESET" => bsCount <= 1

TypeInv == FlagsOK /\ PlacesOK /\ MachineOK

LEMMA TypeInvImplies == TypeInv => PsTypeOK
<1> SUFFICES ASSUME TypeInv
             PROVE  PsTypeOK
  OBVIOUS
<1>1. {reset, turnon, mancal, automode, mox, solidmox, calcInProgress, calcDone,
       scOK, running, run, busy, dog, atReset, runcal, unkeyed, raced} \subseteq BOOLEAN
  BY Zenon DEF TypeInv, FlagsOK, AskedOK, KeyedOK, StageOK
<1>2. {semCalc, semOff, semRest} \subseteq 0..SemMax
  BY Zenon DEF TypeInv, PlacesOK
<1> QED
  BY <1>1, <1>2, Zenon DEF TypeInv, PlacesOK, MachineOK, PsTypeOK

LEMMA PostType ==
  ASSUME NEW s \in 0..SemMax
  PROVE  Post(s) \in 0..SemMax
BY SemAssumption, SMT DEF Post

\* What every block of feedback leaves alone.
LEMMA PsccFrame ==
  ASSUME pscc
  PROVE  UNCHANGED <<mox, scOK, run, ist, busy, semRest, threads, raced>>
BY Zenon DEF pscc, LReset, Interrupt, LWait, KeyLost, NotYet, LMoxDelay, LSetup, LCollect,
   Watchdog, MoxCheck, LCalcAsk, LCalcTake, Fitted, LDelay, LStayOn, LTurnOn, Advance,
   Block, fit, iqcVars, sems

LEMMA PsccAsked ==
  ASSUME AskedOK, pscc, UNCHANGED saved
  PROVE  AskedOK'
<1> USE DEF AskedOK, Block, control, fit, iqcVars, sems
<1>1. CASE LReset \/ Interrupt
  BY <1>1, Zenon DEF LReset, Interrupt
<1>2. CASE LWait \/ KeyLost \/ NotYet \/ LMoxDelay \/ LCollect \/ Watchdog \/ MoxCheck \/ LDelay
  BY <1>2, Zenon DEF LWait, KeyLost, NotYet, LMoxDelay, LCollect, Watchdog, MoxCheck, LDelay, Advance
<1>3. CASE LSetup \/ LCalcAsk \/ LStayOn \/ LTurnOn
  BY <1>3, Zenon DEF LSetup, LCalcAsk, LStayOn, LTurnOn
<1>4. CASE LCalcTake
  BY <1>4, Zenon DEF LCalcTake, Fitted
<1> QED
  BY <1>1, <1>2, <1>3, <1>4, Zenon DEF pscc

LEMMA PsccKeyed ==
  ASSUME KeyedOK, pscc, UNCHANGED saved
  PROVE  KeyedOK'
<1> USE DEF KeyedOK, Block, control, fit, iqcVars, sems
<1>1. CASE LReset \/ Interrupt
  BY <1>1, Zenon DEF LReset, Interrupt
<1>2. CASE LWait \/ KeyLost \/ NotYet \/ LMoxDelay \/ LCollect \/ Watchdog \/ MoxCheck \/ LDelay
  BY <1>2, Zenon DEF LWait, KeyLost, NotYet, LMoxDelay, LCollect, Watchdog, MoxCheck, LDelay, Advance
<1>3. CASE LSetup \/ LCalcAsk \/ LStayOn \/ LTurnOn
  BY <1>3, Zenon DEF LSetup, LCalcAsk, LStayOn, LTurnOn
<1>4. CASE LCalcTake
  BY <1>4, Zenon DEF LCalcTake, Fitted
<1> QED
  BY <1>1, <1>2, <1>3, <1>4, Zenon DEF pscc

LEMMA PsccStage ==
  ASSUME StageOK, pscc, UNCHANGED saved, UNCHANGED runcal
  PROVE  StageOK'
<1> USE DEF StageOK, Block, control, fit, iqcVars, sems
<1>1. CASE LReset \/ Interrupt
  BY <1>1, Zenon DEF LReset, Interrupt
<1>2. CASE LWait \/ KeyLost \/ NotYet \/ LMoxDelay \/ LCollect \/ Watchdog \/ MoxCheck \/ LDelay
  BY <1>2, Zenon DEF LWait, KeyLost, NotYet, LMoxDelay, LCollect, Watchdog, MoxCheck, LDelay, Advance
<1>3. CASE LSetup \/ LCalcAsk \/ LStayOn \/ LTurnOn
  BY <1>3, Zenon DEF LSetup, LCalcAsk, LStayOn, LTurnOn
<1>4. CASE LCalcTake
  BY <1>4, Zenon DEF LCalcTake, Fitted
<1> QED
  BY <1>1, <1>2, <1>3, <1>4, Zenon DEF pscc

LEMMA PsccMachine ==
  ASSUME MachineOK, pscc
  PROVE  MachineOK'
<1> USE DEF MachineOK, Block, States, machine
<1>1. CASE LReset \/ Interrupt
  BY <1>1, SMT DEF LReset, Interrupt
<1>2. CASE LWait \/ KeyLost \/ NotYet \/ LMoxDelay \/ LCollect \/ Watchdog \/ MoxCheck \/ LDelay
  BY <1>2, SMT DEF LWait, KeyLost, NotYet, LMoxDelay, LCollect, Watchdog, MoxCheck, LDelay, Advance
<1>3. CASE LSetup \/ LCalcAsk \/ LStayOn \/ LTurnOn
  BY <1>3, SMT DEF LSetup, LCalcAsk, LStayOn, LTurnOn
<1>4. CASE LCalcTake
  BY <1>4, SMT DEF LCalcTake, Fitted, Retry
<1> QED
  BY <1>1, <1>2, <1>3, <1>4, Zenon DEF pscc

LEMMA PsccSems ==
  ASSUME PlacesOK, pscc
  PROVE  semCalc' \in 0..SemMax /\ semOff' \in 0..SemMax
<1> USE PostType DEF PlacesOK, sems
<1>1. CASE LReset \/ Interrupt
  BY <1>1, Zenon DEF LReset, Interrupt
<1>2. CASE LWait \/ KeyLost \/ NotYet \/ LMoxDelay \/ LCollect \/ Watchdog \/ MoxCheck \/ LDelay
  BY <1>2, Zenon DEF LWait, KeyLost, NotYet, LMoxDelay, LCollect, Watchdog, MoxCheck, LDelay, Advance
<1>3. CASE LSetup \/ LCalcAsk \/ LStayOn \/ LTurnOn
  BY <1>3, Zenon DEF LSetup, LCalcAsk, LStayOn, LTurnOn
<1>4. CASE LCalcTake
  BY <1>4, Zenon DEF LCalcTake, Fitted
<1> QED
  BY <1>1, <1>2, <1>3, <1>4, Zenon DEF pscc

LEMMA FeedType ==
  ASSUME TypeInv, FeedPsFeedbackBlock \/ DisarmZero
  PROVE  TypeInv'
<1> USE DEF TypeInv, engineVars, lockVars
<1>1. CASE FeedPsFeedbackBlock
  <2>1. pscc /\ UNCHANGED <<runcal, psMode, moxpc, psLock, zeros, saved>>
    BY <1>1, Zenon DEF FeedPsFeedbackBlock
  <2>2. PlacesOK'
    BY <2>1, PsccFrame, PsccSems, Zenon DEF PlacesOK, threads
  <2> QED
    BY <2>1, <2>2, PsccAsked, PsccKeyed, PsccStage, PsccMachine, Zenon DEF FlagsOK
<1>2. CASE DisarmZero
  <2>1. /\ UNCHANGED <<runcal, psMode, moxpc, psLock, saved>>
        /\ zeros > 0 /\ zeros' = zeros - 1
    BY <1>2, Zenon DEF DisarmZero
  <2>2. zeros' \in 0..ZeroBlocks
    BY <2>1, ZeroAssumption, SMT DEF PlacesOK
  <2>3. CASE pscc
    <3>1. PlacesOK'
      BY <2>1, <2>2, <2>3, PsccFrame, PsccSems, Zenon DEF PlacesOK, threads
    <3> QED
      BY <2>1, <2>3, <3>1, PsccAsked, PsccKeyed, PsccStage, PsccMachine, Zenon DEF FlagsOK
  <2>4. CASE UNCHANGED calccVars
    <3>0. UNCHANGED <<machine, control, mox, solidmox, fit, running, iqcVars, sems,
                      threads, unkeyed, raced>>
      BY <2>4, Zenon DEF calccVars
    <3>1. MachineOK' /\ PlacesOK'
      <4>1. MachineOK'
        BY <3>0, Zenon DEF MachineOK, machine
      <4>2. UNCHANGED <<ist, semCalc, semOff, semRest, cpc, opc, rpc>>
        <5>1. UNCHANGED ist
          BY <3>0, Zenon DEF iqcVars
        <5>2. UNCHANGED <<semCalc, semOff, semRest>>
          BY <3>0, Zenon DEF sems
        <5>3. UNCHANGED <<cpc, opc, rpc>>
          BY <3>0, Zenon DEF threads
        <5> QED
          BY <5>1, <5>2, <5>3
      <4> QED
        BY <2>1, <2>2, <4>1, <4>2, ZenonT(30) DEF PlacesOK
    <3>2. AskedOK'
      BY <2>1, <3>0, Zenon DEF FlagsOK, AskedOK, control
    <3>3. KeyedOK'
      BY <3>0, Zenon DEF FlagsOK, KeyedOK, machine, fit
    <3>4. StageOK'
      BY <2>1, <3>0, Zenon DEF FlagsOK, StageOK, iqcVars
    <3> QED
      BY <3>1, <3>2, <3>3, <3>4, Zenon DEF FlagsOK
  <2> QED
    BY <1>2, <2>3, <2>4, Zenon DEF DisarmZero
<1> QED
  BY <1>1, <1>2

\* Threads and samples.
LEMMA ThreadType ==
  ASSUME TypeInv, Threads \/ Samples
  PROVE  TypeInv'
<1>0. /\ UNCHANGED <<control, machine, mox, solidmox, unkeyed, runcal, saved>>
      /\ (fit' = fit \/ (Threads /\ doPSCalcCorrection))
  BY Zenon
     DEF Threads, Samples, xiqc, doPSCalcCorrection, doPSTurnoff, PSRestoreCorrection, engineVars,
         lockVars, RampDone, DogBarks, CalcWake, Calc, CalcApply, CalcRun, CalcRamped, CalcReport,
         OffWake, OffApply, OffRamped, RestWake, RestApply, RestRun, RestRamped
<1> USE DEF TypeInv, machine, control, fit, iqcVars, sems, threads, engineVars, lockVars,
            Threads, Samples, xiqc, doPSCalcCorrection, doPSTurnoff, PSRestoreCorrection
<1>1. FlagsOK'
  <2>1. AskedOK'
    BY <1>0, Zenon DEF FlagsOK, AskedOK
  <2>2. calcInProgress' \in BOOLEAN /\ calcDone' \in BOOLEAN /\ scOK' \in BOOLEAN
    BY <1>0, Zenon DEF FlagsOK, KeyedOK, CalcWake, Calc, CalcApply, CalcRun, CalcRamped, CalcReport
  <2>4. KeyedOK'
    BY <1>0, <2>2, Zenon DEF FlagsOK, KeyedOK
  <2>3. StageOK'
    BY ZenonT(30) DEF FlagsOK, StageOK, RampDone, DogBarks, Ramp, CalcWake, Calc, CalcApply, CalcRun,
       CalcRamped, CalcReport, OffWake, OffApply, OffRamped, RestWake, RestApply, RestRun, RestRamped
  <2> QED
    BY <2>1, <2>3, <2>4, Zenon DEF FlagsOK
<1>2. MachineOK'
  BY <1>0, Zenon DEF MachineOK
<1>3. PlacesOK'
  <2> USE SemAssumption DEF PlacesOK
  <2>1. CASE Samples
    BY <2>1, SMT DEF RampDone, DogBarks
  <2>2. CASE Threads /\ doPSCalcCorrection
    BY <2>2, SMT DEF Ramp, CalcWake, Calc, CalcApply, CalcRun, CalcRamped, CalcReport
  <2>3. CASE Threads /\ doPSTurnoff
    BY <2>3, SMT DEF OffWake, OffApply, OffRamped
  <2>4. CASE Threads /\ PSRestoreCorrection
    BY <2>4, SMT DEF Ramp, RestWake, RestApply, RestRun, RestRamped
  <2> QED
    BY <2>1, <2>2, <2>3, <2>4, Zenon
<1> QED
  BY <1>1, <1>2, <1>3

\* What SetPSIntsAndSpi puts aside, and what it leaves there.
LEMMA SavedType ==
  ASSUME AskedOK, StageOK, ResizeBegin \/ Rebuilt
  PROVE  /\ saved'.runcal \in BOOLEAN /\ saved'.mancal \in BOOLEAN
         /\ saved'.automode \in BOOLEAN /\ saved'.turnon \in BOOLEAN
<1>1. CASE ResizeBegin
  <2>1. /\ saved'.runcal = runcal /\ saved'.mancal = mancal
        /\ saved'.automode = automode /\ saved'.turnon = turnon
    BY <1>1, Zenon DEF ResizeBegin
  <2> QED
    BY <2>1, Zenon DEF AskedOK, StageOK
<1>2. CASE Rebuilt
  <2>1. /\ saved'.runcal = FALSE /\ saved'.mancal = FALSE
        /\ saved'.automode = FALSE /\ saved'.turnon = FALSE
    BY <1>2, Zenon DEF Rebuilt, Nothing
  <2> QED
    BY <2>1, Zenon
<1> QED
  BY <1>1, <1>2

\* Keying, the engine's calls and the change of resolution.
LEMMA EngineType ==
  ASSUME TypeInv,
         \/ KeyDown \/ KeyUp \/ KeyUpSolid
         \/ \E mode \in Modes : SetPsControl(mode)
         \/ Arm \/ ResetPs \/ RestorePsCorrection
         \/ DisarmBegin \/ DisarmEnd
         \/ ResizeBegin \/ ResizeCalm \/ ForceShutDown \/ ForceDone
  PROVE  TypeInv'
<1> USE DEF TypeInv, machine, control, fit, iqcVars, sems, threads, engineVars, lockVars
<1>1. CASE KeyDown \/ KeyUp \/ KeyUpSolid
  <2>1. FlagsOK'
    <3>1. AskedOK'
      BY <1>1, Zenon DEF FlagsOK, AskedOK, KeyDown, KeyUp, KeyUpSolid
    <3>2. KeyedOK'
      BY <1>1, Zenon DEF FlagsOK, KeyedOK, KeyDown, KeyUp, KeyUpSolid
    <3>3. StageOK'
      BY <1>1, Zenon DEF FlagsOK, StageOK, KeyDown, KeyUp, KeyUpSolid
    <3> QED
      BY <3>1, <3>2, <3>3 DEF FlagsOK
  <2>2. MachineOK' /\ PlacesOK'
    BY <1>1, Zenon DEF KeyDown, KeyUp, KeyUpSolid, MachineOK, PlacesOK
  <2> QED
    BY <2>1, <2>2
<1>2. CASE \/ \E mode \in Modes : SetPsControl(mode)
           \/ Arm \/ ResetPs \/ RestorePsCorrection
  <2> USE DEF SetPsControl, Arm, ResetPs, RestorePsCorrection, OnlyControl, SetPSControl
  <2>1. FlagsOK'
    <3>1. AskedOK'
      BY <1>2, Zenon DEF FlagsOK, AskedOK
    <3>2. KeyedOK'
      <4>1. UNCHANGED <<machine, mox, solidmox, fit, unkeyed>>
        BY <1>2, Zenon DEF OnlyControl
      <4> QED
        BY <4>1, Zenon DEF FlagsOK, KeyedOK
    <3>3. StageOK'
      <4>1. UNCHANGED <<running, iqcVars, saved>>
        BY <1>2, Zenon DEF OnlyControl
      <4>2. raced' \in BOOLEAN /\ runcal' \in BOOLEAN
        BY <1>2, Zenon DEF FlagsOK, StageOK
      <4> QED
        BY <4>1, <4>2, Zenon DEF FlagsOK, StageOK
    <3> QED
      BY <3>1, <3>2, <3>3 DEF FlagsOK
  <2>2. MachineOK'
    BY <1>2, Zenon DEF MachineOK
  <2>3. PlacesOK'
    <3>1. psMode' \in Modes /\ semRest' \in 0..SemMax
      BY <1>2, PostType, Zenon DEF PlacesOK
    <3> QED
      BY <1>2, <3>1, Zenon DEF PlacesOK
  <2> QED
    BY <2>1, <2>2, <2>3
<1>3. CASE DisarmBegin \/ DisarmEnd
  <2> USE DEF DisarmBegin, DisarmEnd, calccVars, SetPSControl
  <2>1. FlagsOK'
    <3>1. AskedOK'
      BY <1>3, Zenon DEF FlagsOK, AskedOK
    <3>2. KeyedOK'
      BY <1>3, Zenon DEF FlagsOK, KeyedOK
    <3>3. StageOK'
      BY <1>3, Zenon DEF FlagsOK, StageOK
    <3> QED
      BY <3>1, <3>2, <3>3 DEF FlagsOK
  <2>2. MachineOK'
    BY <1>3, Zenon DEF MachineOK
  <2>3. PlacesOK'
    BY <1>3, ZeroAssumption, SMT DEF PlacesOK
  <2> QED
    BY <2>1, <2>2, <2>3
<1>4. CASE ResizeBegin \/ ResizeCalm
  <2> USE DEF ResizeBegin, ResizeCalm, SetPSControl, Rebuilt
  <2>1. FlagsOK'
    <3>1. AskedOK'
      BY <1>4, SavedType, Zenon DEF FlagsOK, AskedOK
    <3>2. KeyedOK'
      BY <1>4, Zenon DEF FlagsOK, KeyedOK
    <3>3. StageOK'
      BY <1>4, SavedType, ZenonT(30) DEF FlagsOK, StageOK
    <3> QED
      BY <3>1, <3>2, <3>3 DEF FlagsOK
  <2>2. MachineOK' /\ PlacesOK'
    BY <1>4, Zenon DEF MachineOK, PlacesOK
  <2> QED
    BY <2>1, <2>2
<1>5. CASE ForceShutDown \/ ForceDone
  <2> USE DEF ForceShutDown, ForceDone, SetPSControl, Rebuilt
  <2>1. FlagsOK'
    <3>1. AskedOK'
      BY <1>5, SavedType, Zenon DEF FlagsOK, AskedOK
    <3>2. KeyedOK'
      BY <1>5, Zenon DEF FlagsOK, KeyedOK
    <3>3. StageOK'
      BY <1>5, SavedType, Zenon DEF FlagsOK, StageOK
    <3> QED
      BY <3>1, <3>2, <3>3 DEF FlagsOK
  <2>2. MachineOK' /\ PlacesOK'
    BY <1>5, SMT DEF MachineOK, PlacesOK, States
  <2> QED
    BY <2>1, <2>2
<1> QED
  BY <1>1, <1>2, <1>3, <1>4, <1>5, Zenon

LEMMA TypeInvInit == Init => TypeInv
<1> SUFFICES ASSUME Init
             PROVE  TypeInv
  OBVIOUS
<1>1. FlagsOK
  BY Zenon DEF Init, CalccInit, FlagsOK, AskedOK, KeyedOK, StageOK, Nothing
<1>2. MachineOK /\ PlacesOK
  BY SemAssumption, ZeroAssumption, ModesAssumption, SMT
     DEF Init, CalccInit, MachineOK, PlacesOK, States
<1> QED
  BY <1>1, <1>2 DEF TypeInv

LEMMA TypeInvStep == TypeInv /\ [Next]_vars => TypeInv'
<1>1. TypeInv /\ UNCHANGED vars => TypeInv'
  <2> USE DEF vars, calccVars, machine, control, fit, iqcVars, sems, threads, engineVars, lockVars
  <2>1. MachineOK /\ PlacesOK /\ UNCHANGED vars => MachineOK' /\ PlacesOK'
    BY Zenon DEF MachineOK, PlacesOK
  <2>2. AskedOK /\ UNCHANGED vars => AskedOK'
    BY Zenon DEF AskedOK
  <2>3. KeyedOK /\ UNCHANGED vars => KeyedOK'
    BY Zenon DEF KeyedOK
  <2>4. StageOK /\ UNCHANGED vars => StageOK'
    BY Zenon DEF StageOK
  <2> QED
    BY <2>1, <2>2, <2>3, <2>4, Zenon DEF TypeInv, FlagsOK
<1> QED
  BY <1>1, FeedType, ThreadType, EngineType, Zenon DEF Next, PsLockSteps

\* The state machine, its flags, threads and semaphores keep their types for
\* every maximum of the semaphores, and no third bad fit gets on the books.
THEOREM TypeCorrect == Spec => []PsTypeOK
BY TypeInvInit, TypeInvStep, TypeInvImplies, PTL DEF Spec

-----------------------------------------------------------------------------
(* Samples of one key-down.  While samples are collected, solidmox stays    *)
(* up after an un-key only until SetPSMox(0) has cleared it, and mox is     *)
(* down meanwhile.                                                         *)

CollectInv ==
  /\ moxpc = "clearing" => ~mox
  /\ st \in {"LCOLLECT", "MOXCHECK"} /\ unkeyed /\ solidmox => moxpc = "clearing"

\* Only LSETUP leads to the collection of samples.
LEMMA PsccCollects ==
  ASSUME CollectInv, pscc, UNCHANGED moxpc
  PROVE  CollectInv'
<1> USE DEF CollectInv, Block
<1>1. CASE LReset \/ Interrupt \/ LCalcTake \/ LCalcAsk \/ LStayOn \/ LTurnOn
  BY <1>1, SMT DEF LReset, Interrupt, LCalcTake, Fitted, Retry, LCalcAsk, LStayOn, LTurnOn
<1>2. CASE KeyLost \/ NotYet \/ LMoxDelay \/ LCollect \/ Watchdog \/ MoxCheck \/ LDelay
  BY <1>2, SMT DEF KeyLost, NotYet, LMoxDelay, LCollect, Watchdog, MoxCheck, LDelay, Advance
<1>3. CASE LSetup
  BY <1>3, SMT DEF LSetup
<1>4. CASE LWait
  BY <1>4, SMT DEF LWait
<1> QED
  BY <1>1, <1>2, <1>3, <1>4, Zenon DEF pscc

LEMMA CollectStep ==
  ASSUME TypeInv, CollectInv, [Next]_vars
  PROVE  CollectInv'
<1> USE DEF machine, control, fit, iqcVars, sems, threads, engineVars, lockVars
<1>1. ASSUME UNCHANGED <<st, mox, solidmox, unkeyed, moxpc>>
      PROVE  CollectInv'
  BY <1>1, Zenon DEF CollectInv
<1>2. CASE UNCHANGED vars
  BY <1>1, <1>2, Zenon DEF vars, calccVars
<1>3. CASE FeedPsFeedbackBlock
  BY <1>3, PsccCollects, Zenon DEF FeedPsFeedbackBlock
<1>4. CASE Samples \/ Threads
  BY <1>1, <1>4, Zenon DEF Samples, xiqc, RampDone, DogBarks, Threads, doPSCalcCorrection,
     CalcWake, Calc, CalcApply, CalcRun, CalcRamped, CalcReport, doPSTurnoff, OffWake,
     OffApply, OffRamped, PSRestoreCorrection, RestWake, RestApply, RestRun, RestRamped
<1>5. CASE KeyDown \/ KeyUp \/ KeyUpSolid
  BY <1>5, SMT DEF KeyDown, KeyUp, KeyUpSolid, CollectInv
<1>6. CASE \/ \E mode \in Modes : SetPsControl(mode)
           \/ Arm \/ ResetPs \/ RestorePsCorrection
  BY <1>1, <1>6, Zenon DEF SetPsControl, Arm, ResetPs, RestorePsCorrection, OnlyControl
<1>7. CASE DisarmBegin \/ DisarmEnd \/ ResizeBegin \/ ResizeCalm \/ ForceShutDown
  BY <1>1, <1>7, Zenon DEF DisarmBegin, DisarmEnd, ResizeBegin, ResizeCalm, ForceShutDown, calccVars
<1>8. CASE DisarmZero
  BY <1>1, <1>8, PsccCollects, Zenon DEF DisarmZero, calccVars
<1>9. CASE ForceDone
  BY <1>9, SMT DEF ForceDone, CollectInv
<1> QED
  BY <1>2, <1>3, <1>4, <1>5, <1>6, <1>7, <1>8, <1>9, Zenon DEF Next, PsLockSteps

\* Only MOXCHECK hands samples to a fit, and not without MOX.
LEMMA FitIsKeyed ==
  ASSUME CollectInv, [Next]_vars, st = "MOXCHECK", st' = "LCALC"
  PROVE  ~unkeyed
<1> USE DEF machine, control, fit, iqcVars, sems, threads, engineVars, lockVars
<1>1. pscc
  <2>1. st' # st
    OBVIOUS
  <2>2. ~ UNCHANGED vars
    BY <2>1, Zenon DEF vars, calccVars
  <2>3. ~ (Samples \/ Threads)
    BY <2>1, Zenon DEF Samples, xiqc, RampDone, DogBarks, Threads, doPSCalcCorrection,
       CalcWake, Calc, CalcApply, CalcRun, CalcRamped, CalcReport, doPSTurnoff, OffWake,
       OffApply, OffRamped, PSRestoreCorrection, RestWake, RestApply, RestRun, RestRamped
  <2>4. ~ (KeyDown \/ KeyUp \/ KeyUpSolid)
    BY <2>1, Zenon DEF KeyDown, KeyUp, KeyUpSolid
  <2>5. ~ (\/ \E mode \in Modes : SetPsControl(mode)
           \/ Arm \/ ResetPs \/ RestorePsCorrection)
    BY <2>1, Zenon DEF SetPsControl, Arm, ResetPs, RestorePsCorrection, OnlyControl
  <2>6. ~ (DisarmBegin \/ DisarmEnd \/ ResizeBegin \/ ResizeCalm \/ ForceShutDown)
    BY <2>1, Zenon DEF DisarmBegin, DisarmEnd, ResizeBegin, ResizeCalm, ForceShutDown, calccVars
  <2>7. ~ForceDone
    BY SMT DEF ForceDone
  <2>8. DisarmZero => pscc
    BY <2>1, Zenon DEF DisarmZero, calccVars
  <2> QED
    BY <2>2, <2>3, <2>4, <2>5, <2>6, <2>7, <2>8, Zenon
       DEF Next, PsLockSteps, FeedPsFeedbackBlock
<1>2. Solid
  <2>1. CASE MoxCheck
    BY <2>1, Zenon DEF MoxCheck
  <2>2. CASE KeyLost \/ NotYet \/ LMoxDelay \/ LCollect \/ Watchdog \/ LDelay
    BY <2>2, SMT DEF KeyLost, NotYet, LMoxDelay, LCollect, Watchdog, LDelay, Advance, Block
  <2>3. CASE LReset \/ Interrupt \/ LWait \/ LSetup \/ LCalcAsk \/ LCalcTake \/ LStayOn \/ LTurnOn
    BY <2>3, SMT DEF LReset, Interrupt, LWait, LSetup, LCalcAsk, LCalcTake, Fitted, LStayOn,
                     LTurnOn, Block
  <2> QED
    BY <1>1, <2>1, <2>2, <2>3, Zenon DEF pscc
<1> QED
  BY <1>2, SMT DEF Solid, CollectInv

\* A fit is computed from the samples of one key-down, in every interleaving of
\* feedback, keying and calls, race windows included.
THEOREM OneKeyDown == Spec => FitFromOneKeyDown
<1>1. Init => CollectInv
  BY SMT DEF Init, CalccInit, CollectInv
<1>2. CollectInv /\ [Next]_vars => [st = "MOXCHECK" /\ st' = "LCALC" => ~unkeyed]_vars
  BY FitIsKeyed
<1> QED
  BY <1>1, <1>2, TypeInvInit, TypeInvStep, CollectStep, PTL DEF Spec, FitFromOneKeyDown

-----------------------------------------------------------------------------
(* The correcting stage, as long as no race window has been hit.           *)

Starting == cpc = "start" \/ rpc = "start"
Ramping == cpc = "ramp" \/ rpc = "ramp"
Ending == opc = "ramp"

\* One fit at a time: whoever has been asked for one has not reported it.
FitInv ==
  /\ semCalc > 0 \/ cpc # "wait" \/ calcDone => calcInProgress
  /\ semCalc \in {0, 1}
  /\ semCalc = 1 => cpc = "wait" /\ ~calcDone
  /\ cpc # "wait" => ~calcDone

\* One turn-off at a time, and the state machine has noted it.
EndInv ==
  /\ semOff \in {0, 1}
  /\ semOff = 1 => opc = "wait"
  /\ EndPending => ~running

\* One ramp at a time, and the stage is where its owner is.
OwnerInv ==
  /\ ~(cpc \in {"start", "ramp"} /\ rpc \in {"start", "ramp"})
  /\ Ending => ~Starting /\ ~Ramping

StartInv ==
  /\ Starting => ~run /\ busy /\ ist = "BEGIN"
  /\ Ramping => run
  /\ Ramping /\ busy => ist \in {"BEGIN", "SWAP"}
  /\ Ramping /\ ~busy => ist = "RUN"

FinishInv ==
  /\ Ending => run
  /\ Ending /\ busy => ist = "END"
  /\ Ending /\ ~busy => ist = "DONE"

\* What running says of the stage.
TruthInv ==
  /\ Starting \/ Ramping => (running <=> ~EndPending)
  /\ ~Starting /\ ~Ramping /\ ~Ending => ~busy /\ (run => ist = "RUN")
  /\ ~Starting /\ ~Ramping /\ EndPending /\ psLock # "force" => run
  /\ ~Starting /\ ~Ramping /\ ~EndPending /\ psLock # "force" => (running <=> run)

\* A forced shutdown outside the windows finds nothing under way.
ForceInv ==
  psLock = "force" => /\ ~run /\ ~calcInProgress /\ ~EndPending
                      /\ cpc = "wait" /\ rpc = "wait" /\ semRest = 0

StageInv == ~raced => /\ FitInv /\ EndInv /\ OwnerInv /\ StartInv
                      /\ FinishInv /\ TruthInv /\ ForceInv

stageVars == <<run, ist, busy, running, semCalc, semOff, semRest, cpc, opc, rpc,
               calcInProgress, calcDone, psLock, raced>>

LEMMA StageStable ==
  ASSUME StageInv, UNCHANGED stageVars
  PROVE  StageInv'
<1> USE DEF stageVars
<1>1. (FitInv => FitInv') /\ (EndInv => EndInv') /\ (OwnerInv => OwnerInv')
  BY Zenon DEF FitInv, EndInv, OwnerInv, EndPending, Starting, Ramping, Ending
<1>2. (StartInv => StartInv') /\ (FinishInv => FinishInv')
  BY Zenon DEF StartInv, FinishInv, Starting, Ramping, Ending
<1>3. (TruthInv => TruthInv') /\ (ForceInv => ForceInv')
  BY Zenon DEF TruthInv, ForceInv, EndPending, Starting, Ramping, Ending
<1> QED
  BY <1>1, <1>2, <1>3, Zenon DEF StageInv

\* What a block of feedback can change of the stage.
LEMMA PsccEffect ==
  ASSUME pscc
  PROVE  \/ UNCHANGED <<running, semOff, semCalc, calcInProgress, calcDone>>
         \/ /\ running' = (running /\ turnon)
            /\ semOff' = IF running /\ ~turnon THEN Post(semOff) ELSE semOff
            /\ UNCHANGED <<semCalc, calcInProgress, calcDone>>
         \/ /\ ~calcDone /\ calcInProgress' = TRUE
            /\ semCalc' = IF calcInProgress THEN semCalc ELSE Post(semCalc)
            /\ UNCHANGED <<running, semOff, calcDone>>
         \/ /\ calcDone /\ calcDone' = FALSE /\ calcInProgress' = FALSE
            /\ semCalc' = IF calcInProgress THEN semCalc ELSE Post(semCalc)
            /\ UNCHANGED <<running, semOff>>
<1> USE DEF sems, fit
<1>1. CASE LReset
  BY <1>1, Zenon DEF LReset
<1>2. CASE \/ Interrupt \/ LWait \/ KeyLost \/ NotYet \/ LMoxDelay \/ LCollect
           \/ Watchdog \/ MoxCheck \/ LDelay
  BY <1>2, Zenon DEF Interrupt, LWait, KeyLost, NotYet, LMoxDelay, LCollect, Watchdog,
     MoxCheck, LDelay, Advance
<1>3. CASE LSetup \/ LStayOn \/ LTurnOn
  BY <1>3, Zenon DEF LSetup, LStayOn, LTurnOn
<1>4. CASE LCalcAsk
  BY <1>4, Zenon DEF LCalcAsk
<1>5. CASE LCalcTake
  BY <1>5, Zenon DEF LCalcTake, Fitted
<1> QED
  BY <1>1, <1>2, <1>3, <1>4, <1>5, Zenon DEF pscc

\* Posting an idle semaphore, and one that holds a post already.
LEMMA PostBinary == Post(0) = 1
BY SemAssumption, SMT DEF Post

LEMMA PsccStageInv ==
  ASSUME TypeInv, StageInv, pscc, UNCHANGED psLock, psLock # "force"
  PROVE  StageInv'
<1> SUFFICES ASSUME ~raced'
             PROVE  StageInv'
  BY DEF StageInv
<1>1. UNCHANGED <<run, ist, busy, semRest, cpc, opc, rpc, raced, psLock>>
  BY PsccFrame DEF threads
<1>2. FitInv /\ EndInv /\ OwnerInv /\ StartInv /\ FinishInv /\ TruthInv /\ ForceInv
  BY <1>1 DEF StageInv
<1>3. CASE UNCHANGED <<running, semOff, semCalc, calcInProgress, calcDone>>
  BY <1>1, <1>3, StageStable, Zenon DEF stageVars
<1>4. CASE /\ running' = (running /\ turnon)
           /\ semOff' = IF running /\ ~turnon THEN Post(semOff) ELSE semOff
           /\ UNCHANGED <<semCalc, calcInProgress, calcDone>>
  <2>1. running \in BOOLEAN /\ turnon \in BOOLEAN
    BY DEF TypeInv, FlagsOK, AskedOK, StageOK
  <2>2. CASE running /\ ~turnon
    <3>1. semOff = 0 /\ opc = "wait" /\ semOff' = 1 /\ running' = FALSE
      <4>1. ~EndPending
        BY <1>2, <2>2, Zenon DEF EndInv
      <4>2. semOff = 0 /\ opc = "wait"
        BY <1>2, <4>1, SMT DEF EndInv, EndPending
      <4>3. semOff' = Post(semOff) /\ running' = FALSE
        BY <1>4, <2>2, Zenon
      <4> QED
        BY <4>2, <4>3, PostBinary, Zenon
    <3>2. ~EndPending /\ EndPending'
      BY <1>1, <3>1, SMT DEF EndPending
    <3>3. FitInv' /\ OwnerInv' /\ StartInv' /\ FinishInv'
      BY <1>1, <1>2, <1>4, Zenon DEF FitInv, OwnerInv, StartInv, FinishInv, Starting, Ramping, Ending
    <3>4. EndInv'
      BY <1>1, <3>1, SMT DEF EndInv
    <3>5. TruthInv'
      BY <1>1, <1>2, <2>2, <3>1, <3>2, Zenon DEF TruthInv, Starting, Ramping, Ending
    <3>6. ForceInv'
      BY <1>1, Zenon DEF ForceInv
    <3> QED
      BY <3>3, <3>4, <3>5, <3>6, Zenon DEF StageInv
  <2>3. CASE ~(running /\ ~turnon)
    <3>1. running' = running /\ semOff' = semOff
      BY <1>4, <2>1, <2>3, Zenon
    <3> QED
      BY <1>1, <1>4, <3>1, StageStable, Zenon DEF stageVars
  <2> QED
    BY <2>2, <2>3
<1>5. CASE \/ /\ ~calcDone /\ calcInProgress' = TRUE
              /\ semCalc' = IF calcInProgress THEN semCalc ELSE Post(semCalc)
              /\ UNCHANGED <<running, semOff, calcDone>>
           \/ /\ calcDone /\ calcDone' = FALSE /\ calcInProgress' = FALSE
              /\ semCalc' = IF calcInProgress THEN semCalc ELSE Post(semCalc)
              /\ UNCHANGED <<running, semOff>>
  <2>1. EndInv' /\ OwnerInv' /\ StartInv' /\ FinishInv' /\ TruthInv' /\ ForceInv'
    <3>1. UNCHANGED <<running, semOff>>
      BY <1>5
    <3>2. EndInv' /\ OwnerInv'
      BY <1>1, <1>2, <3>1, Zenon DEF EndInv, OwnerInv, EndPending, Starting, Ramping, Ending
    <3>3. StartInv' /\ FinishInv'
      BY <1>1, <1>2, <3>1, Zenon DEF StartInv, FinishInv, Starting, Ramping, Ending
    <3>4. TruthInv' /\ ForceInv'
      BY <1>1, <1>2, <3>1, Zenon DEF TruthInv, ForceInv, EndPending, Starting, Ramping, Ending
    <3> QED
      BY <3>2, <3>3, <3>4
  <2>2. FitInv'
    <3>1. CASE ~calcDone /\ calcInProgress' = TRUE
      BY <1>1, <1>2, <1>5, <3>1, PostBinary, SMT DEF FitInv
    <3>2. CASE calcDone /\ calcDone' = FALSE
      BY <1>1, <1>2, <1>5, <3>2, SMT DEF FitInv
    <3> QED
      BY <1>5, <3>1, <3>2
  <2> QED
    BY <2>1, <2>2, Zenon DEF StageInv
<1> QED
  BY <1>3, <1>4, <1>5, PsccEffect, Zenon

\* The thread of the fit.
LEMMA CalcStage ==
  ASSUME TypeInv, StageInv, doPSCalcCorrection, UNCHANGED psLock
  PROVE  StageInv'
<1> SUFFICES ASSUME ~raced'
             PROVE  StageInv'
  BY DEF StageInv
<1> USE DEF sems, fit, iqcVars
<1>1. ~raced
  BY Zenon DEF doPSCalcCorrection, CalcWake, Calc, CalcApply, CalcRun, CalcRamped, CalcReport
<1>2. FitInv /\ EndInv /\ OwnerInv /\ StartInv /\ FinishInv /\ TruthInv /\ ForceInv
  BY <1>1 DEF StageInv
<1>3. cpc # "wait" \/ semCalc > 0
  BY SMT DEF doPSCalcCorrection, CalcWake, Calc, CalcApply, CalcRun, CalcRamped, CalcReport
<1>4. psLock # "force"
  BY <1>2, <1>3, Zenon DEF ForceInv, FitInv
<1>5. ForceInv'
  BY <1>4, Zenon DEF ForceInv
<1>6. CASE CalcWake \/ Calc \/ CalcReport
  <2>1. UNCHANGED <<run, ist, busy, running, semOff, semRest, opc, rpc>>
    BY <1>6, Zenon DEF CalcWake, Calc, CalcReport
  <2>2. FitInv'
    BY <1>2, <1>6, SMT DEF CalcWake, Calc, CalcReport, FitInv
  <2>3. EndInv' /\ FinishInv'
    BY <1>2, <2>1, Zenon DEF EndInv, FinishInv, EndPending, Ending
  <2>4. UNCHANGED <<Starting, Ramping, Ending, EndPending, cpc \in {"start", "ramp"}>>
    BY <1>6, <2>1, SMT DEF CalcWake, Calc, CalcReport, Starting, Ramping, Ending, EndPending
  <2>5. OwnerInv' /\ StartInv' /\ TruthInv'
    BY <1>2, <2>1, <2>4, Zenon DEF OwnerInv, StartInv, TruthInv
  <2> QED
    BY <1>5, <2>2, <2>3, <2>5, Zenon DEF StageInv
<1>7. CASE CalcApply
  <2>1. /\ cpc = "lock" /\ cpc' = IF running THEN "ramp" ELSE "start"
        /\ running' = TRUE /\ busy' = TRUE /\ ist' = IF running THEN "SWAP" ELSE "BEGIN"
        /\ UNCHANGED <<run, semOff, semRest, semCalc, opc, rpc, calcInProgress, calcDone>>
    BY <1>7, Zenon DEF CalcApply, Ramp
  <2>2. opc = "wait" /\ ~(semOff > 0) /\ rpc \notin {"start", "ramp"}
    <3>1. ~(semOff > 0) /\ opc # "lock" /\ rpc \notin {"start", "ramp"} /\ opc # "ramp"
      BY <1>7, Zenon DEF CalcApply, SafeHeld
    <3>2. opc \in {"wait", "lock", "ramp"}
      BY DEF TypeInv, PlacesOK
    <3> QED
      BY <3>1, <3>2, Zenon
  <2>3. ~EndPending /\ ~Starting /\ ~Ramping /\ ~Ending
    BY <2>1, <2>2, SMT DEF EndPending, Starting, Ramping, Ending
  <2>4. running <=> run
    BY <1>2, <1>4, <2>3, Zenon DEF TruthInv
  <2>5. ~EndPending' /\ ~Ending' /\ (Starting' <=> ~running) /\ (Ramping' <=> running)
    BY <2>1, <2>2, SMT DEF EndPending, Starting, Ramping, Ending
  <2>6. FitInv' /\ OwnerInv' /\ EndInv'
    <3>1. cpc' \in {"ramp", "start"}
      BY <2>1
    <3>2. FitInv' /\ OwnerInv'
      BY <1>2, <2>1, <2>2, <2>5, <3>1, SMT DEF FitInv, OwnerInv
    <3>3. EndInv'
      BY <1>2, <2>1, <2>5, Zenon DEF EndInv
    <3> QED
      BY <3>2, <3>3
  <2>7. StartInv' /\ FinishInv' /\ TruthInv'
    BY <2>1, <2>4, <2>5, Zenon DEF StartInv, FinishInv, TruthInv
  <2> QED
    BY <1>5, <2>6, <2>7, Zenon DEF StageInv
<1>8. CASE CalcRun \/ CalcRamped
  <2>1. UNCHANGED <<ist, busy, running, semOff, semRest, semCalc, opc, rpc, calcInProgress, calcDone>>
    BY <1>8, Zenon DEF CalcRun, CalcRamped
  <2>2. rpc \notin {"start", "ramp"} /\ ~Ending /\ (Starting \/ Ramping)
    BY <1>2, <1>8, Zenon DEF CalcRun, CalcRamped, OwnerInv, Starting, Ramping
  <2>3. FitInv' /\ OwnerInv' /\ EndInv'
    BY <1>2, <1>8, <2>1, <2>2, SMT DEF CalcRun, CalcRamped, FitInv, OwnerInv, EndInv,
       EndPending, Starting, Ramping, Ending
  <2>4. (EndPending' <=> EndPending) /\ ~Ending'
    BY <2>1, <2>2, Zenon DEF EndPending, Ending
  <2>5. CASE CalcRun
    <3>1. /\ Starting /\ ~Starting' /\ Ramping' /\ run' = TRUE
      BY <2>1, <2>2, <2>5, SMT DEF CalcRun, Starting, Ramping
    <3> QED
      BY <1>2, <1>5, <2>1, <2>3, <2>4, <3>1, Zenon DEF StartInv, FinishInv, TruthInv, StageInv
  <2>6. CASE CalcRamped
    <3>1. /\ Ramping /\ ~Starting' /\ ~Ramping' /\ UNCHANGED run /\ ~busy
      BY <2>1, <2>2, <2>6, SMT DEF CalcRamped, Starting, Ramping
    <3>2. run /\ ist = "RUN" /\ (running <=> ~EndPending)
      BY <1>2, <3>1, Zenon DEF StartInv, TruthInv
    <3> QED
      BY <1>5, <2>1, <2>3, <2>4, <3>1, <3>2, Zenon DEF StartInv, FinishInv, TruthInv, StageInv
  <2> QED
    BY <1>8, <2>5, <2>6
<1> QED
  BY <1>6, <1>7, <1>8, Zenon DEF doPSCalcCorrection

\* The thread of the turn-off.
LEMMA OffStage ==
  ASSUME TypeInv, StageInv, doPSTurnoff, UNCHANGED psLock
  PROVE  StageInv'
<1> SUFFICES ASSUME ~raced'
             PROVE  StageInv'
  BY DEF StageInv
<1> USE DEF sems, fit, iqcVars
<1>1. ~raced
  BY Zenon DEF doPSTurnoff, OffWake, OffApply, OffRamped
<1>2. FitInv /\ EndInv /\ OwnerInv /\ StartInv /\ FinishInv /\ TruthInv /\ ForceInv
  BY <1>1 DEF StageInv
<1>3. EndPending
  BY SMT DEF doPSTurnoff, OffWake, OffApply, OffRamped, EndPending
<1>4. psLock # "force" /\ ~running
  BY <1>2, <1>3, Zenon DEF ForceInv, EndInv
<1>5. /\ UNCHANGED <<running, semRest, semCalc, cpc, rpc, calcInProgress, calcDone>>
      /\ UNCHANGED <<Starting, Ramping>>
  BY Zenon DEF doPSTurnoff, OffWake, OffApply, OffRamped, Starting, Ramping
<1>6. ForceInv' /\ FitInv'
  BY <1>2, <1>4, <1>5, Zenon DEF ForceInv, FitInv
<1>7. CASE OffWake
  <2>1. UNCHANGED <<run, ist, busy>> /\ opc = "wait" /\ opc' = "lock"
    BY <1>7, Zenon DEF OffWake
  <2>2. EndPending' /\ UNCHANGED Ending /\ ~Ending
    BY <2>1, SMT DEF EndPending, Ending
  <2>3. EndInv'
    BY <1>2, <1>4, <1>5, <1>7, SMT DEF OffWake, EndInv
  <2> QED
    BY <1>2, <1>3, <1>4, <1>5, <1>6, <2>1, <2>2, <2>3, Zenon
       DEF OwnerInv, StartInv, FinishInv, TruthInv, StageInv
<1>8. CASE OffApply
  <2>1. /\ UNCHANGED <<run, semOff>> /\ opc = "lock" /\ opc' = "ramp"
        /\ busy' = TRUE /\ ist' = "END"
    BY <1>8, Zenon DEF OffApply
  <2>2. ~Starting /\ ~Ramping /\ ~Ending
    <3>1. rpc \notin {"start", "ramp"} /\ cpc \notin {"start", "ramp"} /\ opc # "ramp"
      BY <1>8, Zenon DEF OffApply, SafeHeld
    <3> QED
      BY <3>1, SMT DEF Starting, Ramping, Ending
  <2>3. run /\ EndPending' /\ Ending'
    BY <1>2, <1>3, <1>4, <2>1, <2>2, SMT DEF TruthInv, EndPending, Ending
  <2>4. EndInv'
    BY <1>2, <1>4, <1>5, <2>1, SMT DEF EndInv
  <2>5. OwnerInv'
    BY <1>2, <1>5, <2>2, Zenon DEF OwnerInv, Starting, Ramping
  <2> QED
    BY <1>4, <1>5, <1>6, <2>1, <2>2, <2>3, <2>4, <2>5, Zenon
       DEF StartInv, FinishInv, TruthInv, StageInv
<1>9. CASE OffRamped
  <2>1. /\ UNCHANGED <<ist, busy, semOff>> /\ opc = "ramp" /\ opc' = "wait"
        /\ run' = FALSE /\ ~busy
    BY <1>9, Zenon DEF OffRamped
  <2>2. ~Starting /\ ~Ramping
    BY <1>2, <2>1, Zenon DEF OwnerInv, Ending
  <2>3. ~EndPending' /\ ~Ending'
    <3>1. semOff = 0
      BY <1>2, <2>1, SMT DEF EndInv
    <3> QED
      BY <2>1, <3>1, SMT DEF EndPending, Ending
  <2>4. EndInv'
    BY <1>2, <1>4, <1>5, <2>1, <2>3, SMT DEF EndInv
  <2>5. OwnerInv'
    BY <1>2, <1>5, <2>2, <2>3, Zenon DEF OwnerInv
  <2> QED
    BY <1>4, <1>5, <1>6, <2>1, <2>2, <2>3, <2>4, <2>5, Zenon
       DEF StartInv, FinishInv, TruthInv, StageInv
<1> QED
  BY <1>7, <1>8, <1>9, Zenon DEF doPSTurnoff

\* The thread of the restore.
LEMMA RestStage ==
  ASSUME TypeInv, StageInv, PSRestoreCorrection, UNCHANGED psLock
  PROVE  StageInv'
<1> SUFFICES ASSUME ~raced'
             PROVE  StageInv'
  BY DEF StageInv
<1> USE DEF sems, fit, iqcVars
<1>1. ~raced
  BY Zenon DEF PSRestoreCorrection, RestWake, RestApply, RestRun, RestRamped
<1>2. FitInv /\ EndInv /\ OwnerInv /\ StartInv /\ FinishInv /\ TruthInv /\ ForceInv
  BY <1>1 DEF StageInv
<1>3. psLock # "force"
  <2>1. rpc # "wait" \/ semRest > 0
    BY SMT DEF PSRestoreCorrection, RestWake, RestApply, RestRun, RestRamped
  <2>2. psLock = "force" => rpc = "wait" /\ semRest = 0
    BY <1>2, Zenon DEF ForceInv
  <2> QED
    BY <2>1, <2>2, SMT
<1>4. ForceInv'
  BY <1>3, Zenon DEF ForceInv
<1>5. UNCHANGED <<semCalc, semOff, cpc, opc, calcInProgress, calcDone>>
  BY Zenon DEF PSRestoreCorrection, RestWake, RestApply, RestRun, RestRamped
<1>6. /\ FitInv' /\ (EndPending' <=> EndPending) /\ (Ending' <=> Ending)
      /\ (~running' \/ ~EndPending => EndInv')
  BY <1>2, <1>5, Zenon DEF FitInv, EndInv, EndPending, Ending
<1>7. CASE RestWake
  <2>1. UNCHANGED <<run, ist, busy, running>>
    BY <1>7, Zenon DEF RestWake
  <2>2. (Starting' <=> Starting) /\ (Ramping' <=> Ramping) /\ rpc' \notin {"start", "ramp"}
    BY <1>5, <1>7, SMT DEF RestWake, Starting, Ramping
  <2>3. EndInv' /\ OwnerInv'
    BY <1>2, <1>5, <1>6, <2>1, <2>2, Zenon DEF EndInv, OwnerInv
  <2>4. StartInv' /\ FinishInv' /\ TruthInv'
    BY <1>2, <1>6, <2>1, <2>2, Zenon DEF StartInv, FinishInv, TruthInv
  <2> QED
    BY <1>4, <1>6, <2>3, <2>4, Zenon DEF StageInv
<1>8. CASE RestApply
  <2>1. /\ rpc = "file" /\ rpc' = IF running THEN "ramp" ELSE "start"
        /\ running' = TRUE /\ busy' = TRUE /\ ist' = IF running THEN "SWAP" ELSE "BEGIN"
        /\ UNCHANGED run
    BY <1>8, Zenon DEF RestApply, Ramp
  <2>2. ~EndPending /\ cpc \notin {"start", "ramp"}
    BY <1>8, Zenon DEF RestApply
  <2>3. ~Starting /\ ~Ramping /\ ~Ending
    BY <2>1, <2>2, SMT DEF EndPending, Starting, Ramping, Ending
  <2>4. running <=> run
    BY <1>2, <1>3, <2>2, <2>3, Zenon DEF TruthInv
  <2>5. (Starting' <=> ~running) /\ (Ramping' <=> running) /\ cpc' \notin {"start", "ramp"}
    BY <1>5, <2>1, <2>2, SMT DEF Starting, Ramping
  <2>6. OwnerInv' /\ EndInv'
    BY <1>6, <2>2, <2>3, <2>5, Zenon DEF OwnerInv
  <2>7. StartInv' /\ FinishInv' /\ TruthInv'
    BY <1>6, <2>1, <2>2, <2>3, <2>4, <2>5, Zenon DEF StartInv, FinishInv, TruthInv
  <2> QED
    BY <1>4, <1>6, <2>6, <2>7, Zenon DEF StageInv
<1>9. CASE RestRun \/ RestRamped
  <2>1. UNCHANGED <<ist, busy, running>> /\ rpc \in {"start", "ramp"}
    BY <1>9, Zenon DEF RestRun, RestRamped
  <2>2. cpc \notin {"start", "ramp"} /\ ~Ending
    <3>1. Starting \/ Ramping
      BY <2>1, SMT DEF Starting, Ramping
    <3> QED
      BY <1>2, <2>1, <3>1, Zenon DEF OwnerInv
  <2>3. OwnerInv' /\ EndInv'
    BY <1>2, <1>5, <1>6, <2>1, <2>2, Zenon DEF EndInv, OwnerInv
  <2>4. CASE RestRun
    <3>1. Starting /\ ~Starting' /\ Ramping' /\ run' = TRUE
      BY <1>5, <2>2, <2>4, SMT DEF RestRun, Starting, Ramping
    <3>2. busy /\ ist = "BEGIN" /\ (running <=> ~EndPending)
      BY <1>2, <3>1, Zenon DEF StartInv, TruthInv
    <3> QED
      BY <1>4, <1>6, <2>1, <2>2, <2>3, <3>1, <3>2, Zenon DEF StartInv, FinishInv, TruthInv, StageInv
  <2>5. CASE RestRamped
    <3>1. Ramping /\ ~Starting' /\ ~Ramping' /\ UNCHANGED run /\ ~busy
      BY <1>5, <2>2, <2>5, SMT DEF RestRamped, Starting, Ramping
    <3>2. run /\ ist = "RUN" /\ (running <=> ~EndPending)
      BY <1>2, <3>1, Zenon DEF StartInv, TruthInv
    <3> QED
      BY <1>4, <1>6, <2>1, <2>2, <2>3, <3>1, <3>2, Zenon DEF StartInv, FinishInv, TruthInv, StageInv
  <2> QED
    BY <1>9, <2>4, <2>5
<1> QED
  BY <1>7, <1>8, <1>9, Zenon DEF PSRestoreCorrection

\* Samples end a ramp.
LEMMA SamplesStage ==
  ASSUME TypeInv, StageInv, xiqc, UNCHANGED psLock
  PROVE  StageInv'
<1> USE DEF sems, fit, iqcVars, threads
<1>1. CASE DogBarks
  BY <1>1, StageStable, Zenon DEF DogBarks, stageVars
<1>2. CASE RampDone
  <2> SUFFICES ASSUME ~raced'
               PROVE  StageInv'
    BY DEF StageInv
  <2>1. /\ run /\ ist \in {"BEGIN", "SWAP", "END"} /\ busy' = FALSE
        /\ ist' = IF ist = "END" THEN "DONE" ELSE "RUN"
    BY <1>2, Zenon DEF RampDone
  <2>2. UNCHANGED <<raced, run, running, semOff, semRest, semCalc, cpc, opc, rpc,
                    calcInProgress, calcDone>>
    BY <1>2, Zenon DEF RampDone
  <2>3. FitInv /\ EndInv /\ OwnerInv /\ StartInv /\ FinishInv /\ TruthInv /\ ForceInv
    BY <2>2 DEF StageInv
  <2>4. /\ (Starting' <=> Starting) /\ (Ramping' <=> Ramping) /\ (Ending' <=> Ending)
        /\ (EndPending' <=> EndPending)
    BY <2>2, Zenon DEF Starting, Ramping, Ending, EndPending
  <2>5. FitInv' /\ EndInv' /\ OwnerInv' /\ ForceInv'
    BY <2>2, <2>3, <2>4, Zenon DEF FitInv, EndInv, OwnerInv, ForceInv
  <2>6. ~Starting /\ (Ramping => ist # "END") /\ (Ending => ist = "END")
    <3>1. ist # "RUN" /\ ist # "DONE"
      BY <2>1, SMT
    <3>2. ~Starting /\ (Ending => ist = "END")
      BY <2>1, <2>3, <3>1, Zenon DEF StartInv, FinishInv
    <3>3. Ramping => ist \in {"BEGIN", "SWAP"}
      BY <2>3, <3>1, Zenon DEF StartInv
    <3> QED
      BY <3>2, <3>3, SMT
  <2>7. Ramping \/ Ending
    <3>1. ist # "RUN"
      BY <2>1, SMT
    <3> QED
      BY <2>1, <2>3, <2>6, <3>1, Zenon DEF TruthInv
  <2>8. StartInv' /\ FinishInv' /\ TruthInv'
    BY <2>1, <2>2, <2>3, <2>4, <2>6, <2>7, Zenon DEF StartInv, FinishInv, TruthInv
  <2> QED
    BY <2>5, <2>8, Zenon DEF StageInv
<1> QED
  BY <1>1, <1>2 DEF xiqc

\* _psLock changes hands, and perhaps a restore is asked for.
LEMMA HandsStage ==
  ASSUME StageInv, psLock # "force", psLock' # "force",
         UNCHANGED <<run, ist, busy, running, semCalc, semOff, threads, calcInProgress, calcDone>>,
         ~raced' => ~raced
  PROVE  StageInv'
<1> SUFFICES ASSUME ~raced'
             PROVE  StageInv'
  BY DEF StageInv
<1> USE DEF threads
<1>1. FitInv /\ EndInv /\ OwnerInv /\ StartInv /\ FinishInv /\ TruthInv
  BY DEF StageInv
<1>2. /\ (Starting' <=> Starting) /\ (Ramping' <=> Ramping) /\ (Ending' <=> Ending)
      /\ (EndPending' <=> EndPending)
  BY Zenon DEF Starting, Ramping, Ending, EndPending
<1>3. FitInv' /\ EndInv' /\ OwnerInv'
  BY <1>1, <1>2, Zenon DEF FitInv, EndInv, OwnerInv
<1>4. StartInv' /\ FinishInv' /\ TruthInv' /\ ForceInv'
  BY <1>1, <1>2, Zenon DEF StartInv, FinishInv, TruthInv, ForceInv
<1> QED
  BY <1>3, <1>4, Zenon DEF StageInv

\* The shutdown that does not wait for samples, and what it leaves.
LEMMA ForceStage ==
  ASSUME TypeInv, StageInv, ForceShutDown \/ ForceDone
  PROVE  StageInv'
<1> SUFFICES ASSUME ~raced'
             PROVE  StageInv'
  BY DEF StageInv
<1> USE DEF threads, sems, fit
<1>1. ~raced
  BY Zenon DEF ForceShutDown, ForceDone
<1>2. FitInv /\ EndInv /\ OwnerInv /\ StartInv /\ FinishInv /\ TruthInv /\ ForceInv
  BY <1>1 DEF StageInv
<1>4. UNCHANGED <<cpc, opc, rpc, semCalc, semOff, semRest, calcInProgress>>
  BY Zenon DEF ForceShutDown, ForceDone
<1>5. ~calcInProgress /\ cpc = "wait" /\ ~EndPending /\ rpc = "wait" /\ semRest = 0
  <2>1. CASE ForceShutDown
    <3>1. ~calcInProgress /\ cpc = "wait" /\ ~EndPending /\ rpc = "wait" /\ ~(semRest > 0)
      BY <2>1, Zenon DEF ForceShutDown
    <3>2. semRest \in 0..SemMax
      BY DEF TypeInv, PlacesOK
    <3>3. semRest = 0
      BY <3>1, <3>2, SemAssumption, SMT
    <3> QED
      BY <3>1, <3>3
  <2>2. CASE ForceDone
    BY <1>2, <2>2, Zenon DEF ForceDone, ForceInv
  <2> QED
    BY <2>1, <2>2
<1>6. ~Starting /\ ~Ramping /\ ~Ending /\ ~Starting' /\ ~Ramping' /\ ~Ending' /\ ~EndPending'
  BY <1>4, <1>5, SMT DEF Starting, Ramping, Ending, EndPending
<1>7. OwnerInv' /\ EndInv' /\ StartInv' /\ FinishInv'
  BY <1>2, <1>4, <1>5, <1>6, Zenon DEF OwnerInv, EndInv, StartInv, FinishInv
<1>8. CASE ForceShutDown
  <2>1. UNCHANGED <<busy, ist, running, calcDone>> /\ run' = FALSE /\ psLock' = "force"
    BY <1>8, Zenon DEF ForceShutDown
  <2>2. FitInv'
    BY <1>2, <1>4, <2>1, Zenon DEF FitInv
  <2>3. ~busy
    BY <1>2, <1>6, Zenon DEF TruthInv
  <2>4. TruthInv' /\ ForceInv'
    BY <1>4, <1>5, <1>6, <2>1, <2>3, Zenon DEF TruthInv, ForceInv
  <2> QED
    BY <1>7, <2>2, <2>4, Zenon DEF StageInv
<1>9. CASE ForceDone
  <2>1. /\ UNCHANGED <<run, ist>> /\ busy' = FALSE /\ running' = FALSE /\ calcDone' = FALSE
        /\ psLock = "force" /\ psLock' = "free"
    BY <1>9, Zenon DEF ForceDone, Rebuilt
  <2>2. ~run
    BY <1>2, <2>1, Zenon DEF ForceInv
  <2>3. FitInv'
    BY <1>2, <1>4, <2>1, Zenon DEF FitInv
  <2>4. TruthInv'
    BY <1>6, <2>1, <2>2, Zenon DEF TruthInv
  <2>5. ForceInv'
    BY <2>1, SMT DEF ForceInv
  <2> QED
    BY <1>7, <2>3, <2>4, <2>5, Zenon DEF StageInv
<1> QED
  BY <1>8, <1>9

LEMMA StageInit == Init => StageInv
BY SMT DEF Init, CalccInit, StageInv, FitInv, EndInv, OwnerInv, StartInv, FinishInv,
   TruthInv, ForceInv, EndPending, Starting, Ramping, Ending

LEMMA StageStep ==
  ASSUME TypeInv, StageInv, [Next]_vars
  PROVE  StageInv'
<1> USE DEF fit, iqcVars, sems, threads, engineVars, lockVars
<1>1. CASE UNCHANGED vars
  BY <1>1, StageStable, Zenon DEF vars, calccVars, stageVars
<1>2. CASE FeedPsFeedbackBlock
  <2>1. pscc /\ psLock = "free" /\ UNCHANGED psLock
    BY <1>2, Zenon DEF FeedPsFeedbackBlock, Free
  <2>2. psLock # "force"
    BY <2>1, SMT
  <2> QED
    BY <2>1, <2>2, PsccStageInv
<1>3. CASE Samples
  BY <1>3, SamplesStage DEF Samples
<1>4. CASE Threads
  BY <1>4, CalcStage, OffStage, RestStage DEF Threads
<1>5. CASE KeyDown \/ KeyUp \/ KeyUpSolid
  BY <1>5, StageStable, Zenon DEF KeyDown, KeyUp, KeyUpSolid, stageVars
<1>6. CASE (\E mode \in Modes : SetPsControl(mode)) \/ Arm
  BY <1>6, StageStable, Zenon DEF SetPsControl, Arm, OnlyControl, stageVars
<1>7. CASE ResetPs \/ RestorePsCorrection
  <2>1. /\ psLock = "free" /\ psLock' = psLock
        /\ UNCHANGED <<run, ist, busy, running, semCalc, semOff, threads, calcInProgress, calcDone>>
    BY <1>7, Zenon DEF ResetPs, RestorePsCorrection, OnlyControl, Free
  <2>3. ~raced' => ~raced
    BY <1>7, Zenon DEF ResetPs, RestorePsCorrection
  <2>2. psLock # "force" /\ psLock' # "force"
    BY <2>1, SMT
  <2> QED
    BY <2>1, <2>2, <2>3, HandsStage
<1>8. CASE DisarmBegin \/ DisarmEnd \/ ResizeBegin \/ ResizeCalm
  <2>1. /\ psLock \in {"free", "disarm", "resize"} /\ psLock' \in {"free", "disarm", "resize"}
        /\ UNCHANGED <<run, ist, busy, running, semCalc, semOff, threads, calcInProgress, calcDone, raced>>
    BY <1>8, Zenon DEF DisarmBegin, DisarmEnd, ResizeBegin, ResizeCalm, Rebuilt, Free, calccVars
  <2>2. psLock # "force" /\ psLock' # "force"
    BY <2>1, SMT
  <2> QED
    BY <2>1, <2>2, HandsStage
<1>9. CASE DisarmZero
  <2>1. psLock = "disarm" /\ UNCHANGED psLock /\ (pscc \/ UNCHANGED calccVars)
    BY <1>9, Zenon DEF DisarmZero
  <2>2. psLock # "force"
    BY <2>1, SMT
  <2>3. CASE pscc
    BY <2>1, <2>2, <2>3, PsccStageInv
  <2>4. CASE UNCHANGED calccVars
    BY <2>1, <2>4, StageStable, Zenon DEF calccVars, stageVars
  <2> QED
    BY <2>1, <2>3, <2>4
<1>10. CASE ForceShutDown \/ ForceDone
  BY <1>10, ForceStage
<1> QED
  BY <1>1, <1>2, <1>3, <1>4, <1>5, <1>6, <1>7, <1>8, <1>9, <1>10, Zenon DEF Next, PsLockSteps

\* At rest and outside the race windows the state machine and the stage agree.
THEOREM Agreement == Spec => []CorrectionAgrees
<1>1. StageInv => CorrectionAgrees
  <2> SUFFICES ASSUME StageInv, AtRest, ~raced
               PROVE  (running <=> run) /\ (run => ist = "RUN") /\ ~busy
    BY DEF CorrectionAgrees
  <2>1. ~Starting /\ ~Ramping /\ ~Ending
    <3>1. /\ cpc \notin {"start", "ramp"} /\ rpc \notin {"start", "ramp"} /\ opc = "wait"
      BY Zenon DEF AtRest, EndPending
    <3> QED
      BY <3>1, SMT DEF Starting, Ramping, Ending
  <2> QED
    BY <2>1, Zenon DEF AtRest, StageInv, TruthInv
<1> QED
  BY <1>1, TypeInvInit, TypeInvStep, StageInit, StageStep, PTL DEF Spec

-----------------------------------------------------------------------------
(* Ramps are not replaced.                                                 *)

\* Who moves the stage: samples, and a thread that begins a ramp.
LEMMA StageMoves ==
  ASSUME [Next]_vars, ist' # ist
  PROVE  RampDone \/ CalcApply \/ OffApply \/ RestApply
<1> USE DEF iqcVars
<1>1. ~ UNCHANGED vars
  BY Zenon DEF vars, calccVars
<1>2. ~pscc
  BY PsccFrame
<1>3. Samples => RampDone
  BY Zenon DEF Samples, xiqc, DogBarks
<1>4. Threads => CalcApply \/ OffApply \/ RestApply
  BY Zenon DEF Threads, doPSCalcCorrection, CalcWake, Calc, CalcRun, CalcRamped, CalcReport,
     doPSTurnoff, OffWake, OffRamped, PSRestoreCorrection, RestWake, RestRun, RestRamped
<1>5. ~(KeyDown \/ KeyUp \/ KeyUpSolid)
  BY Zenon DEF KeyDown, KeyUp, KeyUpSolid
<1>6. ~(\/ \E mode \in Modes : SetPsControl(mode)
        \/ Arm \/ ResetPs \/ RestorePsCorrection)
  BY Zenon DEF SetPsControl, Arm, ResetPs, RestorePsCorrection, OnlyControl
<1>7. ~(DisarmBegin \/ DisarmEnd \/ ResizeBegin \/ ResizeCalm \/ ForceShutDown \/ ForceDone)
  BY Zenon DEF DisarmBegin, DisarmEnd, ResizeBegin, ResizeCalm, ForceShutDown, ForceDone, calccVars
<1>8. ~DisarmZero
  BY <1>2, Zenon DEF DisarmZero, calccVars
<1> QED
  BY <1>1, <1>2, <1>3, <1>4, <1>5, <1>6, <1>7, <1>8, Zenon
     DEF Next, PsLockSteps, FeedPsFeedbackBlock

\* A ramp begins on a stage that is at rest, or a window is marked.
LEMMA RampsAlone ==
  ASSUME TypeInv, StageInv, CalcApply \/ OffApply \/ RestApply, ~raced'
  PROVE  ~busy
<1>1. ~raced
  BY Zenon DEF CalcApply, OffApply, RestApply
<1>2. TruthInv
  BY <1>1 DEF StageInv
<1>3. ~Starting /\ ~Ramping /\ ~Ending
  <2>1. rpc \notin {"start", "ramp"} /\ cpc \notin {"start", "ramp"} /\ opc # "ramp"
    <3>1. CASE CalcApply
      BY <3>1, Zenon DEF CalcApply, SafeHeld
    <3>2. CASE OffApply
      BY <3>2, Zenon DEF OffApply, SafeHeld
    <3>3. CASE RestApply
      <4>1. rpc = "file" /\ cpc \notin {"start", "ramp"} /\ opc = "wait"
        BY <3>3, Zenon DEF RestApply, EndPending
      <4> QED
        BY <4>1, SMT
    <3> QED
      BY <3>1, <3>2, <3>3
  <2> QED
    BY <2>1, SMT DEF Starting, Ramping, Ending
<1> QED
  BY <1>2, <1>3, Zenon DEF TruthInv

\* No ramp that somebody waits for is replaced by another, outside the windows.
THEOREM RampsCarriedOut == Spec => OneRamp
<1>1. TypeInv /\ StageInv /\ [Next]_vars => [busy /\ ist' # ist => ~busy' \/ raced']_vars
  <2> SUFFICES ASSUME TypeInv, StageInv, [Next]_vars, busy, ist' # ist, ~raced'
               PROVE  ~busy'
    OBVIOUS
  <2>1. RampDone
    BY StageMoves, RampsAlone, Zenon
  <2> QED
    BY <2>1, Zenon DEF RampDone
<1> QED
  BY <1>1, TypeInvInit, TypeInvStep, StageInit, StageStep, PTL DEF Spec, OneRamp
=============================================================================
