--------------------------- MODULE TxKeyingProofs ---------------------------
(***************************************************************************)
(* TxKeying for every set of callers, operations and sources: types, the   *)
(* flag invariant and the owner of MOX.  For one caller, whatever it asks  *)
(* and whatever the link does: the agreement of the lines with the flags.  *)
(***************************************************************************)
EXTENDS TxKeying, TLAPS

LEMMA WhenSeq ==
  ASSUME NEW b \in BOOLEAN, NEW S, NEW s \in Seq(S)
  PROVE  When(b, s) \in Seq(S)
BY DEF When

LEMMA ConcatSeq ==
  ASSUME NEW S, NEW s \in Seq(S), NEW t \in Seq(S)
  PROVE  s \o t \in Seq(S)
OBVIOUS

\* Every single effect the code emits is one of the typed effects.
LEMMA FxType ==
  ASSUME NEW on \in BOOLEAN, NEW tun \in BOOLEAN
  PROVE  /\ PipelineSetMox(on) \in Seq(Effects)
         /\ PipelineSetTxTune(on) \in Seq(Effects)
         /\ RadioSetMox(on) \in Seq(Effects)
         /\ NotifyTunActive(on) \in Seq(Effects)
         /\ Show(on, tun) \in Seq(Effects)
         /\ <<Fx("raise", on)>> \in Seq(Effects)
         /\ <<Fx("twoTone", on)>> \in Seq(Effects)
         /\ <<Fx("generator", on)>> \in Seq(Effects)
         /\ <<Fx("generator", on), Fx("twoTone", on)>> \in Seq(Effects)
BY DEF PipelineSetMox, PipelineSetTxTune, RadioSetMox, NotifyTunActive, Show,
       Fx, Effects, Lines

LEMMA RaiseType ==
  ASSUME TypeOK, NEW active \in BOOLEAN
  PROVE  Raise(active) \in Seq(Effects)
<1>1. <<Fx("raise", active)>> \in Seq(Effects)
  BY FxType
<1> QED
  BY <1>1 DEF Raise, When, TypeOK

LEMMA MoxEffectsType ==
  ASSUME TypeOK, NEW on \in BOOLEAN
  PROVE  MoxEffects(on) \in Seq(Effects)
<1>1. Raise(on \/ tunOn) \in Seq(Effects)
  BY RaiseType DEF TypeOK
<1>2. When(tunOn /\ on, PipelineSetTxTune(FALSE)) \in Seq(Effects)
  BY FxType, WhenSeq DEF TypeOK
<1>3. /\ PipelineSetMox(on) \in Seq(Effects)
      /\ RadioSetMox(on) \in Seq(Effects)
      /\ NotifyTunActive(FALSE) \in Seq(Effects)
      /\ Show(on, FALSE) \in Seq(Effects)
  BY FxType
<1> QED
  BY <1>1, <1>2, <1>3, ConcatSeq DEF MoxEffects

LEMMA TunEffectsType ==
  ASSUME TypeOK, NEW on \in BOOLEAN
  PROVE  TunEffects(on) \in Seq(Effects)
<1>1. Raise(on \/ moxOn) \in Seq(Effects)
  BY RaiseType DEF TypeOK
<1>2. PipelineSetMox(FALSE) \o RadioSetMox(FALSE) \in Seq(Effects)
  BY FxType, ConcatSeq
<1>3. When(moxOn /\ on, PipelineSetMox(FALSE) \o RadioSetMox(FALSE))
        \in Seq(Effects)
  BY <1>2, WhenSeq DEF TypeOK
<1>4. /\ PipelineSetMox(on) \in Seq(Effects)
      /\ RadioSetMox(on) \in Seq(Effects)
      /\ PipelineSetTxTune(on) \in Seq(Effects)
      /\ NotifyTunActive(on) \in Seq(Effects)
      /\ Show(FALSE, on) \in Seq(Effects)
  BY FxType
<1> QED
  BY <1>1, <1>3, <1>4, ConcatSeq DEF TunEffects

LEMMA TwoToneEffectsType ==
  ASSUME TypeOK
  PROVE  TwoToneOnEffects \in Seq(Effects) /\ TwoToneOffEffects \in Seq(Effects)
<1>1. Raise(TRUE) \in Seq(Effects) /\ Raise(tunOn) \in Seq(Effects)
  BY RaiseType DEF TypeOK
<1>2. When(tunOn, PipelineSetTxTune(FALSE)) \in Seq(Effects)
  BY FxType, WhenSeq DEF TypeOK
<1>3. /\ PipelineSetMox(TRUE) \in Seq(Effects)
      /\ PipelineSetMox(FALSE) \in Seq(Effects)
      /\ RadioSetMox(TRUE) \in Seq(Effects)
      /\ RadioSetMox(FALSE) \in Seq(Effects)
      /\ NotifyTunActive(FALSE) \in Seq(Effects)
      /\ Show(TRUE, FALSE) \in Seq(Effects)
      /\ Show(FALSE, FALSE) \in Seq(Effects)
      /\ <<Fx("twoTone", FALSE)>> \in Seq(Effects)
      /\ <<Fx("generator", FALSE)>> \in Seq(Effects)
      /\ <<Fx("generator", TRUE), Fx("twoTone", TRUE)>> \in Seq(Effects)
  BY FxType
<1>4. TwoToneOnEffects \in Seq(Effects)
  BY <1>1, <1>2, <1>3, ConcatSeq DEF TwoToneOnEffects
<1>5. TwoToneOffEffects \in Seq(Effects)
  BY <1>1, <1>3, ConcatSeq DEF TwoToneOffEffects
<1> QED
  BY <1>4, <1>5

LEMMA TripEffectsType ==
  ASSUME TypeOK
  PROVE  TripEffects \in Seq(Effects)
<1>1. Raise(FALSE) \in Seq(Effects)
  BY RaiseType
<1>2. When(tunOn, PipelineSetTxTune(FALSE)) \in Seq(Effects)
  BY FxType, WhenSeq DEF TypeOK
<1>3. /\ PipelineSetMox(FALSE) \in Seq(Effects)
      /\ RadioSetMox(FALSE) \in Seq(Effects)
      /\ NotifyTunActive(FALSE) \in Seq(Effects)
      /\ Show(FALSE, FALSE) \in Seq(Effects)
  BY FxType
<1> DEFINE down == PipelineSetMox(FALSE) \o RadioSetMox(FALSE)
                     \o When(tunOn, PipelineSetTxTune(FALSE))
                     \o NotifyTunActive(FALSE) \o Show(FALSE, FALSE)
<1>4. down \in Seq(Effects)
  BY <1>2, <1>3, ConcatSeq
<1>5. When(moxOn \/ tunOn, down) \in Seq(Effects)
  <2> HIDE DEF down
  <2> QED
    BY <1>4, WhenSeq DEF TypeOK
<1> QED
  BY <1>1, <1>5, ConcatSeq DEF TripEffects

-----------------------------------------------------------------------------
\* A call that leaves the lock section keeps the types of all but the flags.
LEMMA ReturnType ==
  ASSUME TypeOK, NEW c \in Callers, call[c] # NoCall,
         NEW r \in {"ok", "fail"}, NEW e \in Seq(Effects), Return(c, r, e)
  PROVE  /\ call' \in [Callers -> Calls \cup {NoCall}]
         /\ ret' \in [Callers -> {"ok", "fail"}]
         /\ todo' \in [Callers -> Seq(Effects)]
         /\ hw' \in [Lines -> BOOLEAN]
         /\ shown' \in [mox: BOOLEAN, tun: BOOLEAN]
         /\ heard' \in BOOLEAN /\ link' \in Stages
         /\ lastOp' \in AllOps \cup {"none"} /\ upset' \in BOOLEAN
         /\ torn' \subseteq Callers
<1>1. call[c] \in Calls
  BY DEF TypeOK
<1>2. call[c].op \in AllOps
  BY <1>1 DEF Calls
<1> QED
  BY <1>2 DEF TypeOK, Return, outside, history

LEMMA LockType ==
  ASSUME TypeOK, NEW c \in Callers, Lock(c)
  PROVE  TypeOK'
<1>1. call[c] # NoCall
  <2>1. call[c].op \in AllOps
    BY DEF Lock, MoxNoOp, MoxForeign, MoxKey, MoxUnkey, TunNoOp, TunKey,
           TunUnkey, TwoToneArm, TwoToneDisarm, Trip, AllOps
  <2> QED
    BY <2>1 DEF AllOps, NoCall
<1>2. call[c] \in Calls
  BY <1>1 DEF TypeOK
<1>3. call[c].source \in Sources
  BY <1>2 DEF Calls
<1>4. << >> \in Seq(Effects)
  OBVIOUS
<1>5. CASE MoxNoOp(c)
  BY <1>1, <1>4, <1>5, ReturnType DEF MoxNoOp, TypeOK, flags
<1>6. CASE MoxForeign(c)
  BY <1>1, <1>4, <1>6, ReturnType DEF MoxForeign, TypeOK, flags
<1>7. CASE MoxKey(c)
  <2>1. MoxEffects(TRUE) \in Seq(Effects)
    BY MoxEffectsType
  <2> QED
    BY <1>1, <1>3, <1>7, <2>1, ReturnType
    DEF MoxKey, TypeOK, SetFlags, Stamps
<1>8. CASE MoxUnkey(c)
  <2>1. MoxEffects(FALSE) \in Seq(Effects)
    BY MoxEffectsType
  <2> QED
    BY <1>1, <1>8, <2>1, ReturnType DEF MoxUnkey, TypeOK, SetFlags, Stamps
<1>9. CASE TunNoOp(c)
  BY <1>1, <1>4, <1>9, ReturnType DEF TunNoOp, TypeOK, flags
<1>10. CASE TunKey(c)
  <2>1. TunEffects(TRUE) \in Seq(Effects)
    BY TunEffectsType
  <2> QED
    BY <1>1, <1>10, <2>1, ReturnType DEF TunKey, TypeOK, SetFlags, Stamps
<1>11. CASE TunUnkey(c)
  <2>1. TunEffects(FALSE) \in Seq(Effects)
    BY TunEffectsType
  <2> QED
    BY <1>1, <1>11, <2>1, ReturnType DEF TunUnkey, TypeOK, SetFlags, Stamps
<1>12. CASE TwoToneArm(c)
  BY <1>1, <1>12, TwoToneEffectsType, SourcesAssumption, ReturnType
  DEF TwoToneArm, TypeOK, SetFlags, Stamps
<1>13. CASE TwoToneDisarm(c)
  BY <1>1, <1>13, TwoToneEffectsType, ReturnType
  DEF TwoToneDisarm, TypeOK, SetFlags, Stamps
<1>14. CASE Trip(c)
  BY <1>1, <1>14, TripEffectsType, ReturnType
  DEF Trip, TypeOK, SetFlags, Stamps
<1> QED
  BY <1>5, <1>6, <1>7, <1>8, <1>9, <1>10, <1>11, <1>12, <1>13, <1>14 DEF Lock

LEMMA EffectType ==
  ASSUME TypeOK, NEW c \in Callers, Effect(c)
  PROVE  TypeOK'
<1>1. todo[c] \in Seq(Effects) /\ todo[c] # << >>
  BY DEF TypeOK, Effect, Drive, RaiseTxActiveChanged, BroadcastMoxState
<1>2. Head(todo[c]) \in Effects /\ Tail(todo[c]) \in Seq(Effects)
  BY <1>1
<1>3. Next1(c).on \in BOOLEAN /\ Next1(c).tun \in BOOLEAN
  BY <1>2 DEF Next1, Effects
<1>4. CASE Drive(c)
  BY <1>2, <1>3, <1>4 DEF Drive, Done1, TypeOK, flags, history
<1>5. CASE RaiseTxActiveChanged(c)
  BY <1>2, <1>3, <1>5 DEF RaiseTxActiveChanged, Done1, TypeOK, flags, history
<1>6. CASE BroadcastMoxState(c)
  BY <1>2, <1>3, <1>6 DEF BroadcastMoxState, Done1, TypeOK, flags, history
<1> QED
  BY <1>4, <1>5, <1>6 DEF Effect

\* What a step of the link may change: the stage, the bits of what it replaces
\* or tears down, and the histories.
LEMMA LinkFacts ==
  ASSUME LinkStep
  PROVE  /\ UNCHANGED <<flags, call, ret, todo, shown, heard, lastOp>>
         /\ upset' = (upset \/ moxOn \/ tunOn \/ ~Applied)
         /\ torn' = {c \in Callers : todo[c] # << >>}
         /\ link' \in Stages
         /\ \E cleared \in {{}, Engine, Wire} :
               /\ hw' = [l \in Lines |-> hw[l] /\ l \notin cleared]
               /\ Wired' /\ ~Wired => cleared = Wire
<1> DEFINE Made(from, to, cleared) ==
             /\ Move(from, to, cleared)
             /\ to \in Stages /\ cleared \in {{}, Engine, Wire}
             /\ to \in {"p1opening", "p1settling", "p1told", "p1up", "p2wired", "p2up"} =>
                  \/ cleared = Wire
                  \/ from \in {"p1opening", "p1settling", "p1told", "p1up", "p2wired", "p2up"}
<1>1. PICK from, to, cleared : Made(from, to, cleared)
  <2>1. CASE P1Open \/ P1Swap \/ P1Tell \/ P1Up \/ P1Drop \/ P1Detach \/ P1Untell \/ P1Close
    BY <2>1, SMT DEF P1Open, P1Swap, P1Tell, P1Up, P1Drop, P1Detach, P1Untell, P1Close, Stages
  <2>2. CASE P1Fail
    BY <2>2, SMT DEF P1Fail, Stages
  <2>3. CASE P2Swap \/ P2Attach \/ P2Up \/ P2Drop \/ P2Stop \/ P2Detach \/ P2Down
    BY <2>3, SMT DEF P2Swap, P2Attach, P2Up, P2Drop, P2Stop, P2Detach, P2Down, Stages
  <2> QED
    BY <2>1, <2>2, <2>3, Zenon DEF LinkStep, P1Step, P2Step
<1>2. /\ UNCHANGED <<flags, call, ret, todo, shown, heard, lastOp>>
      /\ upset' = (upset \/ moxOn \/ tunOn \/ ~Applied)
      /\ torn' = {c \in Callers : todo[c] # << >>}
      /\ hw' = [l \in Lines |-> hw[l] /\ l \notin cleared]
      /\ link = from /\ link' = to
  BY <1>1, Zenon DEF Move
<1>3. Wired' /\ ~Wired => cleared = Wire
  BY <1>1, <1>2, Zenon DEF Wired
<1> QED
  BY <1>1, <1>2, <1>3, Zenon

\* The lines after a step of the link.
LEMMA LinkLines ==
  ASSUME TypeOK, LinkStep
  PROVE  /\ hw' \in [Lines -> BOOLEAN]
         /\ \A l \in Lines : hw'[l] = hw[l] \/ (l \in Engine \cup Wire /\ hw'[l] = FALSE)
         /\ Wired' /\ ~Wired => hw'["wireMox"] = FALSE
<1>1. PICK cleared \in {{}, Engine, Wire} :
         /\ hw' = [l \in Lines |-> hw[l] /\ l \notin cleared]
         /\ Wired' /\ ~Wired => cleared = Wire
  BY LinkFacts
<1>2. hw \in [Lines -> BOOLEAN] /\ "wireMox" \in Lines
  BY DEF TypeOK, Lines
<1>3. ASSUME NEW l \in Lines
      PROVE  hw'[l] \in BOOLEAN /\ (hw'[l] = hw[l] \/ (l \in Engine \cup Wire /\ hw'[l] = FALSE))
  <2>1. hw'[l] = (hw[l] /\ l \notin cleared) /\ hw[l] \in BOOLEAN
    BY <1>1, <1>2
  <2>2. l \in cleared => l \in Engine \cup Wire
    BY <1>1
  <2> QED
    BY <2>1, <2>2
<1>4. Wired' /\ ~Wired => hw'["wireMox"] = FALSE
  <2>1. hw'["wireMox"] = (hw["wireMox"] /\ "wireMox" \notin cleared)
    BY <1>1, <1>2
  <2> QED
    BY <1>1, <2>1 DEF Wire
<1> QED
  BY <1>1, <1>3, <1>4

\* Types are kept by every step of every thread and of the link.
THEOREM TypeCorrect == Spec => []TypeOK
<1>1. Init => TypeOK
  <2> SUFFICES ASSUME Init PROVE TypeOK
    OBVIOUS
  <2>1. todo \in [Callers -> Seq(Effects)]
    <3>1. << >> \in Seq(Effects)
      OBVIOUS
    <3> QED
      BY <3>1 DEF Init
  <2>2. hw \in [Lines -> BOOLEAN] /\ shown \in [mox: BOOLEAN, tun: BOOLEAN]
    BY DEF Init
  <2>3. /\ call \in [Callers -> Calls \cup {NoCall}]
        /\ ret \in [Callers -> {"ok", "fail"}]
    BY DEF Init
  <2> QED
    BY <2>1, <2>2, <2>3 DEF Init, TypeOK, Stamps, Stages
<1>2. TypeOK /\ [Next]_vars => TypeOK'
  <2> SUFFICES ASSUME TypeOK, [Next]_vars PROVE TypeOK'
    OBVIOUS
  <2>1. ASSUME NEW c \in Callers, NEW k \in Request, Enter(c, k) PROVE TypeOK'
    BY <2>1 DEF Enter, TypeOK, flags, outside, history, Request
  <2>2. ASSUME NEW c \in Callers, NEW k \in Request, Refuse(c, k) PROVE TypeOK'
    BY <2>2 DEF Refuse, TypeOK, flags, outside, history
  <2>3. ASSUME NEW c \in Callers, Lock(c) PROVE TypeOK'
    BY <2>3, LockType
  <2>4. ASSUME NEW c \in Callers, Effect(c) PROVE TypeOK'
    BY <2>4, EffectType
  <2>5. CASE LinkStep
    <3>1. hw' \in [Lines -> BOOLEAN] /\ link' \in Stages
      BY <2>5, LinkFacts, LinkLines
    <3>2. /\ UNCHANGED <<flags, call, ret, todo, shown, heard, lastOp>>
          /\ upset' \in BOOLEAN /\ torn' \subseteq Callers
      BY <2>5, LinkFacts
    <3> QED
      BY <3>1, <3>2 DEF TypeOK, flags
  <2>6. CASE UNCHANGED vars
    BY <2>6 DEF vars, flags, outside, history, TypeOK
  <2> QED
    BY <2>1, <2>2, <2>3, <2>4, <2>5, <2>6 DEF Next, Thread
<1> QED
  BY <1>1, <1>2, PTL DEF Spec

-----------------------------------------------------------------------------
\* The flags move only in a lock section; each of those keeps KeyInv.
LEMMA LockKeyInv ==
  ASSUME TypeOK, KeyInv, NEW c \in Callers, Lock(c)
  PROVE  KeyInv'
<1> USE SourcesAssumption
<1> USE DEF KeyInv, MutualExclusion, OwnerIffMox, WatchdogArmed, EdgeDetector,
            SetFlags
<1>1. CASE UNCHANGED flags
  BY <1>1 DEF flags
<1>2. CASE MoxKey(c)
  <2>1. call[c] \in Calls
    BY <1>2 DEF MoxKey, TypeOK, NoCall
  <2>2. call[c].source # "none"
    BY <2>1 DEF Calls
  <2> QED
    BY <1>2, <2>2 DEF MoxKey
<1>3. CASE MoxUnkey(c)
  BY <1>3 DEF MoxUnkey, TypeOK
<1>4. CASE TunKey(c)
  BY <1>4 DEF TunKey
<1>5. CASE TunUnkey(c)
  BY <1>5 DEF TunUnkey, TypeOK
<1>6. CASE TwoToneArm(c)
  BY <1>6 DEF TwoToneArm
<1>7. CASE TwoToneDisarm(c)
  BY <1>7 DEF TwoToneDisarm, TypeOK
<1>8. CASE Trip(c)
  BY <1>8 DEF Trip
<1> QED
  BY <1>1, <1>2, <1>3, <1>4, <1>5, <1>6, <1>7, <1>8
  DEF Lock, MoxNoOp, MoxForeign, TunNoOp

\* Mutual exclusion, ownership, the watchdog's start times and the edge
\* detector hold for any number of threads calling TxService concurrently.
THEOREM KeyingSafe == Spec => []KeyInv
<1>1. Init => KeyInv
  BY DEF Init, KeyInv, MutualExclusion, OwnerIffMox, WatchdogArmed, EdgeDetector
<1>2. TypeOK /\ KeyInv /\ [Next]_vars => KeyInv'
  <2> SUFFICES ASSUME TypeOK, KeyInv, [Next]_vars PROVE KeyInv'
    OBVIOUS
  <2>1. ASSUME NEW c \in Callers, Lock(c) PROVE KeyInv'
    BY <2>1, LockKeyInv
  <2>2. CASE UNCHANGED flags
    BY <2>2 DEF flags, KeyInv, MutualExclusion, OwnerIffMox, WatchdogArmed,
                EdgeDetector
  <2>3. LinkStep => UNCHANGED flags
    BY LinkFacts
  <2> QED
    BY <2>1, <2>2, <2>3
    DEF Next, Thread, Enter, Refuse, Effect, Drive, RaiseTxActiveChanged,
        BroadcastMoxState, Done1, vars
<1> QED
  BY <1>1, <1>2, TypeCorrect, PTL DEF Spec

-----------------------------------------------------------------------------
\* What NoForeignTakeover allows a single step to do to the owner.
Takeover(s) ==
  /\ owner' \in {"none", "UI"}
  /\ \E c \in Callers :
       /\ call[c] # NoCall /\ call'[c] = NoCall
       /\ call[c].op = "mox" => call[c].source \in {s, "UI"}

\* The paths through the lock that take MOX from its owner.
LEMMA LockTakeover ==
  ASSUME TypeOK, KeyInv, NEW c \in Callers, Lock(c),
         NEW s \in Sources \ {"UI"}, owner = s, owner' # s
  PROVE  Takeover(s)
<1>1. s # "none" /\ moxOn
  BY SourcesAssumption DEF KeyInv, OwnerIffMox
<1>2. SUFFICES /\ owner' \in {"none", "UI"}
               /\ call[c] # NoCall /\ call'[c] = NoCall
               /\ call[c].op = "mox" => call[c].source \in {s, "UI"}
  BY <1>2 DEF Takeover
<1>3. call[c] \in Calls \cup {NoCall}
  BY DEF TypeOK
<1>4. PICK r, e : Return(c, r, e)
  BY DEF Lock, MoxNoOp, MoxForeign, MoxKey, MoxUnkey, TunNoOp, TunKey,
         TunUnkey, TwoToneArm, TwoToneDisarm, Trip
<1>5. call'[c] = NoCall
  BY <1>4 DEF Return, TypeOK
<1>6. ASSUME UNCHANGED flags PROVE FALSE
  BY <1>6 DEF flags
<1>7. CASE MoxKey(c)
  BY <1>1, <1>7 DEF MoxKey, TypeOK
<1>8. CASE MoxUnkey(c)
  <2>1. owner' = "none" /\ call[c].op = "mox"
    BY <1>8 DEF MoxUnkey, SetFlags
  <2>2. call[c].source \in {s, "UI"}
    BY <1>1, <1>8 DEF MoxUnkey, ForeignDrop
  <2> QED
    BY <1>5, <2>1, <2>2 DEF NoCall
<1>9. CASE TunKey(c)
  BY <1>5, <1>9 DEF TunKey, SetFlags, NoCall
<1>10. CASE TunUnkey(c)
  BY <1>10 DEF TunUnkey, SetFlags
<1>11. CASE TwoToneArm(c)
  BY <1>5, <1>11 DEF TwoToneArm, SetFlags, NoCall
<1>12. CASE TwoToneDisarm(c)
  BY <1>5, <1>12 DEF TwoToneDisarm, SetFlags, NoCall
<1>13. CASE Trip(c)
  BY <1>5, <1>13 DEF Trip, SetFlags, NoCall
<1> QED
  BY <1>6, <1>7, <1>8, <1>9, <1>10, <1>11, <1>12, <1>13
  DEF Lock, MoxNoOp, MoxForeign, TunNoOp

\* For any number of threads, MOX leaves a source only by its own release, the
\* operator's, TUN, two-tone or a trip, and never passes to another source.
THEOREM OwnerKept == Spec => NoForeignTakeover
<1>1. ASSUME TypeOK, KeyInv, [Next]_vars, NEW s \in Sources \ {"UI"},
             owner = s, owner' # s
      PROVE  Takeover(s)
  <2>1. ASSUME NEW c \in Callers, Lock(c) PROVE Takeover(s)
    BY <1>1, <2>1, LockTakeover
  <2>2. CASE UNCHANGED flags
    BY <1>1, <2>2 DEF flags
  <2>3. LinkStep => UNCHANGED flags
    BY LinkFacts
  <2> QED
    BY <1>1, <2>1, <2>2, <2>3
    DEF Next, Thread, Enter, Refuse, Effect, Drive, RaiseTxActiveChanged,
        BroadcastMoxState, Done1, vars
<1>2. TypeOK /\ KeyInv /\ [Next]_vars
        => [\A s \in Sources \ {"UI"} :
              owner = s /\ owner' # s => Takeover(s)]_vars
  BY <1>1
<1> QED
  BY <1>2, TypeCorrect, KeyingSafe, PTL DEF Spec, NoForeignTakeover, Takeover
-----------------------------------------------------------------------------
(* What a list of effects does: the last word it says on a line, if any.   *)

\* The last effect on x in s, and that there is none.
Says(s, x, on, tun) ==
  \E i \in DOMAIN s : /\ s[i].fx = x /\ s[i].on = on /\ s[i].tun = tun
                      /\ \A j \in DOMAIN s : j > i => s[j].fx # x
Lacks(s, x) == \A i \in DOMAIN s : s[i].fx # x

LEMMA Indices ==
  ASSUME NEW S, NEW s \in Seq(S), NEW t \in Seq(S)
  PROVE  /\ \A i \in DOMAIN s : i \in DOMAIN (s \o t) /\ (s \o t)[i] = s[i]
         /\ \A i \in DOMAIN t : Len(s) + i \in DOMAIN (s \o t) /\ (s \o t)[Len(s) + i] = t[i]
         /\ \A i \in DOMAIN (s \o t) : i \in DOMAIN s \/ (i > Len(s) /\ i - Len(s) \in DOMAIN t)
BY SMT

LEMMA Pair == ASSUME NEW S, NEW a \in S, NEW b \in S PROVE <<a, b>> = <<a>> \o <<b>>
<1> DEFINE s == <<a, b>>
           t == <<a>> \o <<b>>
<1>1. s \in Seq(S) /\ t \in Seq(S) /\ Len(s) = 2 /\ Len(t) = 2
  BY SMT
<1>2. s[1] = a /\ s[2] = b
  BY SMT
<1>3. t[1] = a /\ t[2] = b
  BY SMT
<1> HIDE DEF s, t
<1>4. \A i \in 1..2 : s[i] = t[i]
  BY <1>2, <1>3, SMT
<1>5. s = t
  BY <1>1, <1>4, SMT
<1> QED
  BY <1>5 DEF s, t

LEMMA LastWord ==
  ASSUME NEW S, NEW s \in Seq(S), NEW t \in Seq(S), NEW x, NEW on, NEW tun
  PROVE  /\ Says(t, x, on, tun) => Says(s \o t, x, on, tun)
         /\ Says(s, x, on, tun) /\ Lacks(t, x) => Says(s \o t, x, on, tun)
         /\ Lacks(s, x) /\ Lacks(t, x) => Lacks(s \o t, x)
<1>1. ASSUME Says(t, x, on, tun) PROVE Says(s \o t, x, on, tun)
  <2>1. PICK i \in DOMAIN t : /\ t[i].fx = x /\ t[i].on = on /\ t[i].tun = tun
                              /\ \A j \in DOMAIN t : j > i => t[j].fx # x
    BY <1>1 DEF Says
  <2>2. Len(s) + i \in DOMAIN (s \o t) /\ (s \o t)[Len(s) + i] = t[i]
    BY Indices
  <2>3. ASSUME NEW j \in DOMAIN (s \o t), j > Len(s) + i PROVE (s \o t)[j].fx # x
    <3>1. j - Len(s) \in DOMAIN t /\ j - Len(s) > i /\ (s \o t)[j] = t[j - Len(s)]
      BY <2>3, SMT
    <3> QED
      BY <2>1, <3>1
  <2> QED
    BY <2>1, <2>2, <2>3, Zenon DEF Says
<1>2. ASSUME Says(s, x, on, tun), Lacks(t, x) PROVE Says(s \o t, x, on, tun)
  <2>1. PICK i \in DOMAIN s : /\ s[i].fx = x /\ s[i].on = on /\ s[i].tun = tun
                              /\ \A j \in DOMAIN s : j > i => s[j].fx # x
    BY <1>2 DEF Says
  <2>2. i \in DOMAIN (s \o t) /\ (s \o t)[i] = s[i]
    BY Indices
  <2>3. ASSUME NEW j \in DOMAIN (s \o t), j > i PROVE (s \o t)[j].fx # x
    <3>1. CASE j \in DOMAIN s
      BY <2>1, <2>3, <3>1, Indices
    <3>2. CASE j \notin DOMAIN s
      <4>1. j - Len(s) \in DOMAIN t /\ (s \o t)[j] = t[j - Len(s)]
        BY <3>2, SMT
      <4> QED
        BY <1>2, <4>1 DEF Lacks
    <3> QED
      BY <3>1, <3>2
  <2> QED
    BY <2>1, <2>2, <2>3, Zenon DEF Says
<1>3. ASSUME Lacks(s, x), Lacks(t, x) PROVE Lacks(s \o t, x)
  <2> SUFFICES ASSUME NEW j \in DOMAIN (s \o t) PROVE (s \o t)[j].fx # x
    BY DEF Lacks
  <2>1. CASE j \in DOMAIN s
    BY <1>3, <2>1, Indices DEF Lacks
  <2>2. CASE j \notin DOMAIN s
    <3>1. j - Len(s) \in DOMAIN t /\ (s \o t)[j] = t[j - Len(s)]
      BY <2>2, SMT
    <3> QED
      BY <1>3, <3>1 DEF Lacks
  <2> QED
    BY <2>1, <2>2
<1> QED
  BY <1>1, <1>2, <1>3

LEMMA FirstOff ==
  ASSUME NEW S, NEW s \in Seq(S), s # << >>, NEW x, NEW on, NEW tun
  PROVE  /\ Lacks(s, x) => Head(s).fx # x /\ Lacks(Tail(s), x)
         /\ Says(s, x, on, tun) => \/ Says(Tail(s), x, on, tun)
                                   \/ /\ Head(s).fx = x /\ Head(s).on = on /\ Head(s).tun = tun
                                      /\ Lacks(Tail(s), x)
<1>1. /\ Head(s) = s[1] /\ 1 \in DOMAIN s
      /\ \A i \in DOMAIN Tail(s) : i + 1 \in DOMAIN s /\ Tail(s)[i] = s[i + 1]
      /\ \A i \in DOMAIN s : i = 1 \/ (i - 1 \in DOMAIN Tail(s) /\ Tail(s)[i - 1] = s[i])
      /\ DOMAIN s \subseteq Nat /\ DOMAIN Tail(s) \subseteq Nat
  <2>1. Len(s) \in Nat /\ Len(s) > 0 /\ DOMAIN s = 1..Len(s)
    BY SMT
  <2>2. DOMAIN Tail(s) = 1..(Len(s) - 1) /\ \A i \in 1..(Len(s) - 1) : Tail(s)[i] = s[i + 1]
    BY SMT
  <2>3. Head(s) = s[1]
    BY SMT
  <2> QED
    <3>1. \A i \in DOMAIN s : i = 1 \/ (i - 1 \in DOMAIN Tail(s) /\ Tail(s)[i - 1] = s[i])
      <4> SUFFICES ASSUME NEW i \in 1..Len(s), i # 1
                   PROVE  i - 1 \in 1..(Len(s) - 1) /\ Tail(s)[i - 1] = s[i]
        BY <2>1, <2>2, Zenon
      <4>1. i - 1 \in 1..(Len(s) - 1) /\ (i - 1) + 1 = i
        BY <2>1, SMT
      <4> QED
        BY <2>2, <4>1, Zenon
    <3>2. /\ \A i \in 1..(Len(s) - 1) : i + 1 \in 1..Len(s)
          /\ 1 \in 1..Len(s) /\ 1..Len(s) \subseteq Nat /\ 1..(Len(s) - 1) \subseteq Nat
      BY <2>1, SMT
    <3> QED
      BY <2>1, <2>2, <2>3, <3>1, <3>2, Zenon
<1>2. ASSUME Lacks(s, x) PROVE Head(s).fx # x /\ Lacks(Tail(s), x)
  BY <1>1, <1>2, ZenonT(30) DEF Lacks
<1>3. ASSUME NEW i \in DOMAIN s, s[i].fx = x, s[i].on = on, s[i].tun = tun,
             \A j \in DOMAIN s : j > i => s[j].fx # x
      PROVE  \/ Says(Tail(s), x, on, tun)
             \/ /\ Head(s).fx = x /\ Head(s).on = on /\ Head(s).tun = tun
                /\ Lacks(Tail(s), x)
  <2>1. CASE i = 1
    <3>1. ASSUME NEW j \in DOMAIN Tail(s) PROVE Tail(s)[j].fx # x
      <4>1. j + 1 \in DOMAIN s /\ j + 1 > i /\ Tail(s)[j] = s[j + 1]
        BY <2>1, <3>1, SMT
      <4> QED
        BY <1>3, <4>1
    <3> QED
      BY <1>1, <1>3, <2>1, <3>1 DEF Lacks
  <2>2. CASE i # 1
    <3>1. i - 1 \in DOMAIN Tail(s) /\ Tail(s)[i - 1] = s[i]
      BY <1>1, <2>2
    <3>2. ASSUME NEW j \in DOMAIN Tail(s), j > i - 1 PROVE Tail(s)[j].fx # x
      <4>1. j + 1 \in DOMAIN s /\ j + 1 > i /\ Tail(s)[j] = s[j + 1]
        BY <3>2, SMT
      <4> QED
        BY <1>3, <4>1
    <3> QED
      BY <1>3, <3>1, <3>2, Zenon DEF Says
  <2> QED
    BY <2>1, <2>2
<1> QED
  BY <1>2, <1>3, Zenon DEF Says

\* One effect says its own line and mentions no other.
LEMMA OneEffect ==
  ASSUME NEW e \in Effects, NEW x
  PROVE  /\ Says(<<e>>, e.fx, e.on, e.tun)
         /\ x # e.fx => Lacks(<<e>>, x)
BY SMT DEF Says, Lacks

LEMMA OneFx ==
  ASSUME NEW on \in BOOLEAN, NEW f \in Lines \cup {"raise"}, NEW x
  PROVE  /\ <<Fx(f, on)>> \in Seq(Effects)
         /\ Says(<<Fx(f, on)>>, f, on, FALSE)
         /\ x # f => Lacks(<<Fx(f, on)>>, x)
<1>1. Fx(f, on) \in Effects /\ Fx(f, on).fx = f /\ Fx(f, on).on = on /\ Fx(f, on).tun = FALSE
  BY DEF Fx, Effects
<1>2. <<Fx(f, on)>> \in Seq(Effects)
  BY <1>1, SMT
<1> QED
  BY <1>1, <1>2, OneEffect, Zenon

\* What each piece of a list of effects says, and what it does not mention.
LEMMA Pieces ==
  ASSUME NEW on \in BOOLEAN, NEW tun \in BOOLEAN, NEW x \in Lines \cup {"raise", "show"}
  PROVE  /\ Says(PipelineSetMox(on), "engineMox", on, FALSE)
         /\ x # "engineMox" => Lacks(PipelineSetMox(on), x)
         /\ Says(PipelineSetTxTune(on), "engineTune", on, FALSE)
         /\ x # "engineTune" => Lacks(PipelineSetTxTune(on), x)
         /\ Says(NotifyTunActive(on), "tuneDrive", on, FALSE)
         /\ x # "tuneDrive" => Lacks(NotifyTunActive(on), x)
         /\ Says(RadioSetMox(on), "radioMox", on, FALSE)
         /\ Says(RadioSetMox(on), "wireMox", on, FALSE)
         /\ x \notin {"radioMox", "wireMox"} => Lacks(RadioSetMox(on), x)
         /\ Says(Show(on, tun), "show", on, tun)
         /\ x # "show" => Lacks(Show(on, tun), x)
         /\ Says(<<Fx("raise", on)>>, "raise", on, FALSE)
         /\ x # "raise" => Lacks(<<Fx("raise", on)>>, x)
         /\ Lacks(<< >>, x)
<1>4. {"engineMox", "engineTune", "tuneDrive", "radioMox", "wireMox", "raise"} \subseteq Lines \cup {"raise"}
  BY SMT DEF Lines
<1>5. /\ Says(PipelineSetMox(on), "engineMox", on, FALSE)
      /\ x # "engineMox" => Lacks(PipelineSetMox(on), x)
      /\ Says(PipelineSetTxTune(on), "engineTune", on, FALSE)
      /\ x # "engineTune" => Lacks(PipelineSetTxTune(on), x)
      /\ Says(NotifyTunActive(on), "tuneDrive", on, FALSE)
      /\ x # "tuneDrive" => Lacks(NotifyTunActive(on), x)
      /\ Says(<<Fx("raise", on)>>, "raise", on, FALSE)
      /\ x # "raise" => Lacks(<<Fx("raise", on)>>, x)
  BY OneFx, <1>4, Zenon DEF PipelineSetMox, PipelineSetTxTune, NotifyTunActive
<1>6. /\ Says(RadioSetMox(on), "radioMox", on, FALSE)
      /\ Says(RadioSetMox(on), "wireMox", on, FALSE)
      /\ x \notin {"radioMox", "wireMox"} => Lacks(RadioSetMox(on), x)
  <2> DEFINE s == <<Fx("radioMox", on)>>
             t == <<Fx("wireMox", on)>>
  <2>1. Fx("radioMox", on) \in Effects /\ Fx("wireMox", on) \in Effects
    BY SMT DEF Fx, Effects, Lines
  <2>2. RadioSetMox(on) = s \o t
    BY <2>1, Pair DEF RadioSetMox
  <2>3. /\ s \in Seq(Effects) /\ t \in Seq(Effects)
        /\ Says(s, "radioMox", on, FALSE) /\ Says(t, "wireMox", on, FALSE)
        /\ x # "radioMox" => Lacks(s, x)
        /\ x # "wireMox" => Lacks(t, x)
    BY OneFx, <1>4, Zenon
  <2>4. "radioMox" # "wireMox"
    BY SMT
  <2>5. Lacks(t, "radioMox")
    BY OneFx, <1>4, <2>4, Zenon
  <2> HIDE DEF s, t
  <2>6. Says(s \o t, "radioMox", on, FALSE)
    BY <2>3, <2>5, LastWord
  <2>7. Says(s \o t, "wireMox", on, FALSE)
    BY <2>3, LastWord
  <2>8. ASSUME x \notin {"radioMox", "wireMox"} PROVE Lacks(s \o t, x)
    <3>1. Lacks(s, x) /\ Lacks(t, x)
      BY <2>3, <2>8, SMT
    <3> QED
      BY <2>3, <3>1, LastWord
  <2> QED
    BY <2>2, <2>6, <2>7, <2>8
<1>7. Says(Show(on, tun), "show", on, tun) /\ (x # "show" => Lacks(Show(on, tun), x))
  <2> DEFINE e == [fx |-> "show", on |-> on, tun |-> tun]
  <2>1. e \in Effects /\ e.fx = "show" /\ e.on = on /\ e.tun = tun /\ Show(on, tun) = <<e>>
    BY DEF Effects, Show
  <2> HIDE DEF e
  <2> QED
    BY <2>1, OneEffect, Zenon
<1>8. Lacks(<< >>, x)
  BY SMT DEF Lacks
<1> QED
  BY <1>5, <1>6, <1>7, <1>8

-----------------------------------------------------------------------------
(* What a list leaves each line at, piece by piece.                        *)

\* s leaves the line x, that reads a, at b once it has been applied.
Told(s, x, a, b) == Says(s, x, b, FALSE) \/ (Lacks(s, x) /\ a = b)

LEMMA Join ==
  ASSUME NEW S, NEW s \in Seq(S), NEW t \in Seq(S), NEW x, NEW a, NEW b, NEW d,
         Told(s, x, a, b), Told(t, x, b, d)
  PROVE  Told(s \o t, x, a, d)
BY LastWord, Zenon DEF Told

LEMMA Join5 ==
  ASSUME NEW S, NEW s1 \in Seq(S), NEW s2 \in Seq(S), NEW s3 \in Seq(S), NEW s4 \in Seq(S),
         NEW s5 \in Seq(S), NEW x, NEW a, NEW a1, NEW a2, NEW a3, NEW a4, NEW a5,
         Told(s1, x, a, a1), Told(s2, x, a1, a2), Told(s3, x, a2, a3), Told(s4, x, a3, a4),
         Told(s5, x, a4, a5)
  PROVE  Told(s1 \o s2 \o s3 \o s4 \o s5, x, a, a5)
<1>1. s1 \o s2 \in Seq(S) /\ Told(s1 \o s2, x, a, a2)
  BY Join, ConcatSeq
<1>2. s1 \o s2 \o s3 \in Seq(S) /\ Told(s1 \o s2 \o s3, x, a, a3)
  BY <1>1, Join, ConcatSeq
<1>3. s1 \o s2 \o s3 \o s4 \in Seq(S) /\ Told(s1 \o s2 \o s3 \o s4, x, a, a4)
  BY <1>2, Join, ConcatSeq
<1> QED
  BY <1>3, Join

LEMMA Join6 ==
  ASSUME NEW S, NEW s1 \in Seq(S), NEW s2 \in Seq(S), NEW s3 \in Seq(S), NEW s4 \in Seq(S),
         NEW s5 \in Seq(S), NEW s6 \in Seq(S), NEW x,
         NEW a, NEW a1, NEW a2, NEW a3, NEW a4, NEW a5, NEW a6,
         Told(s1, x, a, a1), Told(s2, x, a1, a2), Told(s3, x, a2, a3), Told(s4, x, a3, a4),
         Told(s5, x, a4, a5), Told(s6, x, a5, a6)
  PROVE  Told(s1 \o s2 \o s3 \o s4 \o s5 \o s6, x, a, a6)
<1>1. s1 \o s2 \o s3 \o s4 \in Seq(S) /\ s1 \o s2 \o s3 \o s4 \o s5 \in Seq(S)
  BY ConcatSeq
<1>2. Told(s1 \o s2 \o s3 \o s4 \o s5, x, a, a5)
  BY Join5
<1> QED
  BY <1>1, <1>2, Join

Words == Lines \cup {"raise"}

\* What the pieces do to a line x that reads a.
LEMMA PieceTold ==
  ASSUME NEW on \in BOOLEAN, NEW tun \in BOOLEAN, NEW x \in Words, NEW a
  PROVE  /\ Told(PipelineSetMox(on), x, a, IF x = "engineMox" THEN on ELSE a)
         /\ Told(PipelineSetTxTune(on), x, a, IF x = "engineTune" THEN on ELSE a)
         /\ Told(NotifyTunActive(on), x, a, IF x = "tuneDrive" THEN on ELSE a)
         /\ Told(RadioSetMox(on), x, a, IF x \in {"radioMox", "wireMox"} THEN on ELSE a)
         /\ Told(Show(on, tun), x, a, a)
         /\ Told(<<Fx("raise", on)>>, x, a, IF x = "raise" THEN on ELSE a)
         /\ Told(<< >>, x, a, a)
<1>1. x \in Lines \cup {"raise", "show"} /\ x # "show"
  BY SMT DEF Words, Lines
<1> QED
  BY <1>1, Pieces, Zenon DEF Told

LEMMA WhenTold ==
  ASSUME NEW p \in BOOLEAN, NEW s, NEW x \in Words, NEW a, NEW b, Told(s, x, a, b)
  PROVE  Told(When(p, s), x, a, IF p THEN b ELSE a)
<1>1. Told(<< >>, x, a, a)
  BY PieceTold
<1> QED
  BY <1>1, Zenon DEF When

\* An event that repeats the last one is not raised.
LEMMA RaiseTold ==
  ASSUME TypeOK, NEW active \in BOOLEAN, NEW x \in Words, NEW a, x = "raise" => a = lastFired
  PROVE  Told(Raise(active), x, a, IF x = "raise" THEN active ELSE a)
<1>1. (active # lastFired) \in BOOLEAN
  OBVIOUS
<1>2. Told(Raise(active), x, a,
           IF active # lastFired THEN IF x = "raise" THEN active ELSE a ELSE a)
  BY <1>1, PieceTold, WhenTold DEF Raise
<1> QED
  BY <1>2

-----------------------------------------------------------------------------
(* The lists of TxService.                                                 *)

\* What a line x that reads a is to read under the flags on and tun.
Goal(x, a, on, tun) ==
  IF x = "raise" THEN on \/ tun
  ELSE IF x \in {"engineMox", "radioMox", "wireMox"} THEN on \/ tun
  ELSE IF x \in {"engineTune", "tuneDrive"} THEN tun ELSE a

\* A line that agrees with the flags where an effect list may leave it alone.
Agrees(x, a) ==
  x \in {"raise", "engineTune"} \/ ~OnAir => a = Goal(x, a, moxOn, tunOn)

LEMMA WordKinds ==
  ASSUME NEW x \in Words
  PROVE  \/ x = "raise" /\ x \notin {"engineMox", "radioMox", "wireMox", "engineTune", "tuneDrive"}
         \/ x \in {"engineMox", "radioMox", "wireMox"} /\ x \notin {"raise", "engineTune", "tuneDrive"}
         \/ x \in {"engineTune", "tuneDrive"} /\ x \notin {"raise", "engineMox", "radioMox", "wireMox"}
         \/ x \in {"twoTone", "generator"}
              /\ x \notin {"raise", "engineMox", "radioMox", "wireMox", "engineTune", "tuneDrive"}
BY SMT DEF Words, Lines

LEMMA FlagTypes ==
  ASSUME TypeOK, KeyInv
  PROVE  /\ moxOn \in BOOLEAN /\ tunOn \in BOOLEAN /\ lastFired = (moxOn \/ tunOn)
         /\ ~(moxOn /\ tunOn) /\ OnAir \in BOOLEAN /\ (OnAir <=> moxOn \/ tunOn)
BY DEF TypeOK, KeyInv, EdgeDetector, MutualExclusion, OnAir

LEMMA RaiseKnown ==
  ASSUME TypeOK, KeyInv, NEW x, NEW a, Agrees(x, a), x = "raise"
  PROVE  a = lastFired
<1>1. a = (moxOn \/ tunOn)
  BY Zenon DEF Agrees, Goal
<1> QED
  BY <1>1, FlagTypes

LEMMA MoxTold ==
  ASSUME TypeOK, KeyInv, NEW on \in BOOLEAN, ~on => ~tunOn,
         NEW x \in Words, NEW a \in BOOLEAN, Agrees(x, a)
  PROVE  Told(MoxEffects(on), x, a, Goal(x, a, on, FALSE))
<1> DEFINE a1 == IF x = "raise" THEN on ELSE a
           a2 == IF tunOn /\ on THEN IF x = "engineTune" THEN FALSE ELSE a1 ELSE a1
           a3 == IF x = "engineMox" THEN on ELSE a2
           a4 == IF x \in {"radioMox", "wireMox"} THEN on ELSE a3
           a5 == IF x = "tuneDrive" THEN FALSE ELSE a4
<1>1. (on \/ tunOn) = on /\ (tunOn /\ on) \in BOOLEAN
  BY FlagTypes
<1>2. x = "raise" => a = lastFired
  BY RaiseKnown
<1>3. Told(Raise(on), x, a, a1) /\ Raise(on) \in Seq(Effects)
  BY <1>2, RaiseTold, RaiseType
<1>4. /\ Told(When(tunOn /\ on, PipelineSetTxTune(FALSE)), x, a1, a2)
      /\ When(tunOn /\ on, PipelineSetTxTune(FALSE)) \in Seq(Effects)
  BY <1>1, PieceTold, WhenTold, FxType, WhenSeq
<1>5. Told(PipelineSetMox(on), x, a2, a3) /\ PipelineSetMox(on) \in Seq(Effects)
  BY PieceTold, FxType
<1>6. Told(RadioSetMox(on), x, a3, a4) /\ RadioSetMox(on) \in Seq(Effects)
  BY PieceTold, FxType
<1>7. Told(NotifyTunActive(FALSE), x, a4, a5) /\ NotifyTunActive(FALSE) \in Seq(Effects)
  BY PieceTold, FxType
<1>8. Told(Show(on, FALSE), x, a5, a5) /\ Show(on, FALSE) \in Seq(Effects)
  BY PieceTold, FxType
<1>9. a5 = Goal(x, a, on, FALSE)
  BY FlagTypes, WordKinds, Zenon DEF Goal, Agrees
<1>10. MoxEffects(on) = Raise(on) \o When(tunOn /\ on, PipelineSetTxTune(FALSE)) \o PipelineSetMox(on)
                          \o RadioSetMox(on) \o NotifyTunActive(FALSE) \o Show(on, FALSE)
  BY <1>1, Zenon DEF MoxEffects
<1> HIDE DEF a1, a2, a3, a4, a5
<1>11. Told(Raise(on) \o When(tunOn /\ on, PipelineSetTxTune(FALSE)) \o PipelineSetMox(on)
              \o RadioSetMox(on) \o NotifyTunActive(FALSE) \o Show(on, FALSE), x, a, a5)
  BY <1>3, <1>4, <1>5, <1>6, <1>7, <1>8, Join6, Zenon
<1>12. Told(MoxEffects(on), x, a, a5)
  BY <1>10, <1>11, ZenonT(30)
<1> QED
  BY <1>9, <1>12, ZenonT(30)

LEMMA TunTold ==
  ASSUME TypeOK, KeyInv, NEW on \in BOOLEAN, ~on => ~moxOn,
         NEW x \in Words, NEW a \in BOOLEAN, Agrees(x, a)
  PROVE  Told(TunEffects(on), x, a, Goal(x, a, FALSE, on))
<1> DEFINE a1 == IF x = "raise" THEN on ELSE a
           b1 == IF x = "engineMox" THEN FALSE ELSE a1
           b2 == IF x \in {"radioMox", "wireMox"} THEN FALSE ELSE b1
           a2 == IF moxOn /\ on THEN b2 ELSE a1
           a3 == IF x = "engineMox" THEN on ELSE a2
           a4 == IF x \in {"radioMox", "wireMox"} THEN on ELSE a3
           a5 == IF x = "engineTune" THEN on ELSE a4
           a6 == IF x = "tuneDrive" THEN on ELSE a5
           drop == PipelineSetMox(FALSE) \o RadioSetMox(FALSE)
<1>1. (on \/ moxOn) = on /\ (moxOn /\ on) \in BOOLEAN
  BY FlagTypes
<1>2. x = "raise" => a = lastFired
  BY RaiseKnown
<1>3. Told(Raise(on), x, a, a1) /\ Raise(on) \in Seq(Effects)
  BY <1>2, RaiseTold, RaiseType
<1>4. Told(When(moxOn /\ on, drop), x, a1, a2) /\ When(moxOn /\ on, drop) \in Seq(Effects)
  <2>1. Told(PipelineSetMox(FALSE), x, a1, b1) /\ Told(RadioSetMox(FALSE), x, b1, b2)
    BY PieceTold
  <2>2. PipelineSetMox(FALSE) \in Seq(Effects) /\ RadioSetMox(FALSE) \in Seq(Effects)
    BY FxType
  <2> HIDE DEF a1, b1, b2
  <2>3. Told(drop, x, a1, b2) /\ drop \in Seq(Effects)
    BY <2>1, <2>2, Join, ConcatSeq
  <2> HIDE DEF drop
  <2> QED
    BY <1>1, <2>3, WhenTold, WhenSeq
<1>5. Told(PipelineSetMox(on), x, a2, a3) /\ PipelineSetMox(on) \in Seq(Effects)
  BY PieceTold, FxType
<1>6. Told(RadioSetMox(on), x, a3, a4) /\ RadioSetMox(on) \in Seq(Effects)
  BY PieceTold, FxType
<1>7. Told(PipelineSetTxTune(on), x, a4, a5) /\ PipelineSetTxTune(on) \in Seq(Effects)
  BY PieceTold, FxType
<1>8. Told(NotifyTunActive(on), x, a5, a6) /\ NotifyTunActive(on) \in Seq(Effects)
  BY PieceTold, FxType
<1>9. Told(Show(FALSE, on), x, a6, a6) /\ Show(FALSE, on) \in Seq(Effects)
  BY PieceTold, FxType
<1>10. a6 = Goal(x, a, FALSE, on)
  BY FlagTypes, WordKinds, Zenon DEF Goal, Agrees
<1>11. TunEffects(on) = Raise(on) \o When(moxOn /\ on, drop) \o PipelineSetMox(on) \o RadioSetMox(on)
                          \o PipelineSetTxTune(on) \o NotifyTunActive(on) \o Show(FALSE, on)
  BY <1>1, Zenon DEF TunEffects
<1> HIDE DEF a1, b1, b2, a2, a3, a4, a5, a6, drop
<1>12. Told(Raise(on) \o When(moxOn /\ on, drop) \o PipelineSetMox(on) \o RadioSetMox(on)
              \o PipelineSetTxTune(on) \o NotifyTunActive(on), x, a, a6)
  BY <1>3, <1>4, <1>5, <1>6, <1>7, <1>8, Join6, ZenonT(30)
<1>13. Raise(on) \o When(moxOn /\ on, drop) \o PipelineSetMox(on) \o RadioSetMox(on)
              \o PipelineSetTxTune(on) \o NotifyTunActive(on) \in Seq(Effects)
  BY <1>3, <1>4, <1>5, <1>6, <1>7, <1>8, ConcatSeq
<1> QED
  BY <1>9, <1>10, <1>11, <1>12, <1>13, Join, Zenon

LEMMA TripTold ==
  ASSUME TypeOK, KeyInv, NEW x \in Words, NEW a \in BOOLEAN, Agrees(x, a)
  PROVE  Told(TripEffects, x, a, Goal(x, a, FALSE, FALSE))
<1> DEFINE a1 == IF x = "engineMox" THEN FALSE ELSE a
           a2 == IF x \in {"radioMox", "wireMox"} THEN FALSE ELSE a1
           a3 == IF tunOn THEN IF x = "engineTune" THEN FALSE ELSE a2 ELSE a2
           a4 == IF x = "tuneDrive" THEN FALSE ELSE a3
           a5 == IF moxOn \/ tunOn THEN a4 ELSE a
           a6 == IF x = "raise" THEN FALSE ELSE a5
           down == PipelineSetMox(FALSE) \o RadioSetMox(FALSE)
                     \o When(tunOn, PipelineSetTxTune(FALSE))
                     \o NotifyTunActive(FALSE) \o Show(FALSE, FALSE)
<1>1. tunOn \in BOOLEAN /\ (moxOn \/ tunOn) \in BOOLEAN
  BY FlagTypes
<1>2. Told(PipelineSetMox(FALSE), x, a, a1) /\ PipelineSetMox(FALSE) \in Seq(Effects)
  BY PieceTold, FxType
<1>3. Told(RadioSetMox(FALSE), x, a1, a2) /\ RadioSetMox(FALSE) \in Seq(Effects)
  BY PieceTold, FxType
<1>4. /\ Told(When(tunOn, PipelineSetTxTune(FALSE)), x, a2, a3)
      /\ When(tunOn, PipelineSetTxTune(FALSE)) \in Seq(Effects)
  BY <1>1, PieceTold, WhenTold, FxType, WhenSeq
<1>5. Told(NotifyTunActive(FALSE), x, a3, a4) /\ NotifyTunActive(FALSE) \in Seq(Effects)
  BY PieceTold, FxType
<1>6. Told(Show(FALSE, FALSE), x, a4, a4) /\ Show(FALSE, FALSE) \in Seq(Effects)
  BY PieceTold, FxType
<1>7. x = "raise" => a5 = lastFired
  BY FlagTypes, WordKinds, Zenon DEF Agrees, Goal
<1>8. Told(Raise(FALSE), x, a5, a6) /\ Raise(FALSE) \in Seq(Effects)
  BY <1>7, RaiseTold, RaiseType
<1>9. a6 = Goal(x, a, FALSE, FALSE)
  BY FlagTypes, WordKinds, Zenon DEF Goal, Agrees
<1>10. Told(down, x, a, a4) /\ down \in Seq(Effects)
  <2> HIDE DEF a1, a2, a3, a4
  <2> QED
    BY <1>2, <1>3, <1>4, <1>5, <1>6, Join5, ConcatSeq
<1>11. TripEffects = When(moxOn \/ tunOn, down) \o Raise(FALSE)
  BY DEF TripEffects
<1> HIDE DEF down, a1, a2, a3, a4
<1>12. Told(When(moxOn \/ tunOn, down), x, a, a5) /\ When(moxOn \/ tunOn, down) \in Seq(Effects)
  BY <1>1, <1>10, WhenTold, WhenSeq
<1> HIDE DEF a5, a6
<1> QED
  BY <1>8, <1>9, <1>11, <1>12, Join, Zenon

LEMMA TestTold ==
  ASSUME NEW on \in BOOLEAN, NEW x \in {"raise", "wireMox"}, NEW a
  PROVE  /\ Told(<<Fx("twoTone", on)>>, x, a, a) /\ Told(<<Fx("generator", on)>>, x, a, a)
         /\ Told(<<Fx("generator", on), Fx("twoTone", on)>>, x, a, a)
<1> DEFINE s == <<Fx("generator", on)>>
           t == <<Fx("twoTone", on)>>
<1>1. "generator" \in Lines \cup {"raise"} /\ "twoTone" \in Lines \cup {"raise"}
  BY SMT DEF Lines
<1>2. x # "generator" /\ x # "twoTone"
  BY SMT
<1>3. s \in Seq(Effects) /\ t \in Seq(Effects) /\ Lacks(s, x) /\ Lacks(t, x)
  BY <1>1, <1>2, OneFx, Zenon
<1>4. Fx("generator", on) \in Effects /\ Fx("twoTone", on) \in Effects
  BY SMT DEF Fx, Effects, Lines
<1>5. <<Fx("generator", on), Fx("twoTone", on)>> = s \o t
  BY <1>4, Pair
<1> HIDE DEF s, t
<1>6. Told(s, x, a, a) /\ Told(t, x, a, a)
  BY <1>3 DEF Told
<1>7. Told(s \o t, x, a, a)
  BY <1>3, <1>6, Join
<1> QED
  BY <1>5, <1>6, <1>7 DEF s, t

LEMMA TwoToneTold ==
  ASSUME TypeOK, KeyInv, NEW x \in {"raise", "wireMox"}, NEW a \in BOOLEAN,
         x = "raise" => a = lastFired
  PROVE  /\ Told(TwoToneOnEffects, x, a, TRUE)
         /\ Told(TwoToneOffEffects, x, a, IF x = "raise" THEN tunOn ELSE FALSE)
<1>1. x \in Words /\ tunOn \in BOOLEAN
  BY FlagTypes, SMT DEF Words, Lines
<1>2. /\ x # "engineTune" /\ x # "engineMox" /\ x # "tuneDrive"
      /\ x = "raise" => x \notin {"radioMox", "wireMox"}
      /\ x # "raise" => x \in {"radioMox", "wireMox"}
  BY SMT
<1>3. ASSUME NEW b \in BOOLEAN
      PROVE  /\ Told(Raise(b), x, a, IF x = "raise" THEN b ELSE a) /\ Raise(b) \in Seq(Effects)
  BY <1>1, RaiseTold, RaiseType
<1>4. ASSUME NEW on \in BOOLEAN, NEW b
      PROVE  /\ Told(PipelineSetTxTune(on), x, b, b) /\ PipelineSetTxTune(on) \in Seq(Effects)
             /\ Told(PipelineSetMox(on), x, b, b) /\ PipelineSetMox(on) \in Seq(Effects)
             /\ Told(NotifyTunActive(on), x, b, b) /\ NotifyTunActive(on) \in Seq(Effects)
             /\ Told(Show(on, FALSE), x, b, b) /\ Show(on, FALSE) \in Seq(Effects)
             /\ Told(RadioSetMox(on), x, b, IF x = "raise" THEN b ELSE on)
             /\ RadioSetMox(on) \in Seq(Effects)
  <2>1. /\ Told(PipelineSetTxTune(on), x, b, b) /\ Told(PipelineSetMox(on), x, b, b)
        /\ Told(NotifyTunActive(on), x, b, b) /\ Told(Show(on, FALSE), x, b, b)
    BY <1>1, <1>2, PieceTold
  <2>2. Told(RadioSetMox(on), x, b, IF x \in {"radioMox", "wireMox"} THEN on ELSE b)
    BY <1>1, PieceTold
  <2> QED
    BY <1>2, <2>1, <2>2, FxType
<1>5. /\ Told(<<Fx("twoTone", FALSE)>>, x, IF x = "raise" THEN tunOn ELSE a, IF x = "raise" THEN tunOn ELSE a)
      /\ \A b : /\ Told(<<Fx("generator", FALSE)>>, x, b, b)
                /\ Told(<<Fx("generator", TRUE), Fx("twoTone", TRUE)>>, x, b, b)
      /\ <<Fx("twoTone", FALSE)>> \in Seq(Effects) /\ <<Fx("generator", FALSE)>> \in Seq(Effects)
      /\ <<Fx("generator", TRUE), Fx("twoTone", TRUE)>> \in Seq(Effects)
  BY TestTold, FxType
<1>6. Told(TwoToneOnEffects, x, a, TRUE)
  <2> DEFINE a1 == IF x = "raise" THEN TRUE ELSE a
             a2 == IF x = "raise" THEN a1 ELSE TRUE
             p1 == Raise(TRUE)
             p2 == When(tunOn, PipelineSetTxTune(FALSE))
             p3 == <<Fx("generator", TRUE), Fx("twoTone", TRUE)>>
             p4 == PipelineSetMox(TRUE)
             p5 == RadioSetMox(TRUE)
             p6 == NotifyTunActive(FALSE)
             p7 == Show(TRUE, FALSE)
  <2>1. /\ p1 \in Seq(Effects) /\ p3 \in Seq(Effects) /\ p4 \in Seq(Effects) /\ p5 \in Seq(Effects)
        /\ p6 \in Seq(Effects) /\ p7 \in Seq(Effects)
    BY <1>3, <1>4, <1>5
  <2>2. p2 \in Seq(Effects) /\ Told(p2, x, a1, a1)
    BY <1>1, <1>4, WhenTold, WhenSeq
  <2>3. Told(p1, x, a, a1)
    BY <1>3
  <2>4. Told(p3, x, a1, a1)
    BY <1>5
  <2>5. Told(p4, x, a1, a1) /\ Told(p5, x, a1, a2) /\ Told(p6, x, a2, a2) /\ Told(p7, x, a2, a2)
    BY <1>4
  <2>6. a2 = TRUE
    BY Zenon
  <2>7. TwoToneOnEffects = p1 \o p2 \o p3 \o p4 \o p5 \o p6 \o p7
    BY DEF TwoToneOnEffects
  <2> HIDE DEF a1, a2, p1, p2, p3, p4, p5, p6, p7
  <2>8. Told(p1 \o p2 \o p3 \o p4 \o p5 \o p6, x, a, a2)
    BY <2>1, <2>2, <2>3, <2>4, <2>5, Join6, Zenon
  <2>9. p1 \o p2 \o p3 \o p4 \o p5 \o p6 \in Seq(Effects)
    BY <2>1, <2>2, ConcatSeq
  <2> QED
    BY <2>1, <2>5, <2>6, <2>7, <2>8, <2>9, Join, Zenon
<1>7. Told(TwoToneOffEffects, x, a, IF x = "raise" THEN tunOn ELSE FALSE)
  <2> DEFINE a1 == IF x = "raise" THEN tunOn ELSE a
             a2 == IF x = "raise" THEN a1 ELSE FALSE
             p1 == Raise(tunOn)
             p2 == <<Fx("twoTone", FALSE)>>
             p3 == PipelineSetMox(FALSE)
             p4 == RadioSetMox(FALSE)
             p5 == <<Fx("generator", FALSE)>>
             p6 == Show(FALSE, FALSE)
  <2>1. /\ p1 \in Seq(Effects) /\ p2 \in Seq(Effects) /\ p3 \in Seq(Effects) /\ p4 \in Seq(Effects)
        /\ p5 \in Seq(Effects) /\ p6 \in Seq(Effects)
    BY <1>1, <1>3, <1>4, <1>5
  <2>2. Told(p1, x, a, a1)
    BY <1>1, <1>3
  <2>3. Told(p2, x, a1, a1) /\ Told(p5, x, a2, a2)
    BY <1>5
  <2>4. Told(p3, x, a1, a1) /\ Told(p4, x, a1, a2) /\ Told(p6, x, a2, a2)
    BY <1>4
  <2>5. a2 = IF x = "raise" THEN tunOn ELSE FALSE
    BY Zenon
  <2>6. TwoToneOffEffects = p1 \o p2 \o p3 \o p4 \o p5 \o p6
    BY DEF TwoToneOffEffects
  <2> HIDE DEF a1, a2, p1, p2, p3, p4, p5, p6
  <2>7. Told(p1 \o p2 \o p3 \o p4 \o p5 \o p6, x, a, a2)
    BY <2>1, <2>2, <2>3, <2>4, Join6, Zenon
  <2> QED
    BY <2>5, <2>6, <2>7
<1> QED
  BY <1>6, <1>7

LEMMA CallTypes == ASSUME TypeOK, NEW c \in Callers PROVE call[c] \in Calls \cup {NoCall} /\ call[c].on \in BOOLEAN
<1>1. call[c] \in Calls \/ call[c] = NoCall
  BY DEF TypeOK
<1>2. NoCall.on = FALSE /\ \A k \in Calls : k.on \in BOOLEAN
  BY DEF NoCall, Calls
<1> QED
  BY <1>1, <1>2

\* What every critical section leaves to be done about the event and the carrier.
LEMMA LockTells ==
  ASSUME TypeOK, KeyInv, NEW c \in Callers, Lock(c)
  PROVE  /\ Told(todo'[c], "raise", lastFired, lastFired')
         /\ \A b \in BOOLEAN : ~OnAir' /\ (OnAir \/ ~b) => Told(todo'[c], "wireMox", b, FALSE)
         /\ upset' \/ \A x \in Words, a \in BOOLEAN :
              a = Goal(x, a, moxOn, tunOn) => Told(todo'[c], x, a, Goal(x, a, moxOn', tunOn'))
<1> DEFINE Tells(e) ==
             /\ Told(e, "raise", lastFired, lastFired')
             /\ \A b \in BOOLEAN : ~OnAir' /\ (OnAir \/ ~b) => Told(e, "wireMox", b, FALSE)
             /\ upset' \/ \A x \in Words, a \in BOOLEAN :
                  a = Goal(x, a, moxOn, tunOn) => Told(e, x, a, Goal(x, a, moxOn', tunOn'))
<1> SUFFICES Tells(todo'[c])
  OBVIOUS
<1>1. "raise" \in Words /\ "wireMox" \in Words
  BY SMT DEF Words, Lines
<1>2. ASSUME NEW r, NEW e, Return(c, r, e) PROVE todo'[c] = e /\ upset' = (upset \/ call[c].op = "twotone")
  BY <1>2, Zenon DEF Return, TypeOK
<1>3. /\ lastFired \in BOOLEAN
      /\ \A a, on, tun : Goal("raise", a, on, tun) = (on \/ tun)
      /\ \A a, on, tun : Goal("wireMox", a, on, tun) = (on \/ tun)
  <2>1. "wireMox" # "raise"
    BY SMT
  <2> QED
    BY <2>1, Zenon DEF Goal, TypeOK
<1>4. ASSUME NEW on \in BOOLEAN, NEW tun \in BOOLEAN, NEW e, moxOn' = on, tunOn' = tun,
             lastFired' = (on \/ tun),
             \A x \in Words, a \in BOOLEAN : Agrees(x, a) => Told(e, x, a, Goal(x, a, on, tun))
      PROVE  Tells(e)
  <2>1. Agrees("raise", lastFired)
    <3>1. Goal("raise", lastFired, moxOn, tunOn) = lastFired
      BY <1>3, FlagTypes
    <3> QED
      BY <3>1 DEF Agrees
  <2>2. Told(e, "raise", lastFired, lastFired')
    <3>1. Told(e, "raise", lastFired, Goal("raise", lastFired, on, tun))
      BY <1>1, <1>3, <1>4, <2>1
    <3>2. Goal("raise", lastFired, on, tun) = lastFired'
      BY <1>3, <1>4
    <3> QED
      BY <3>1, <3>2
  <2>3. ASSUME NEW b \in BOOLEAN, ~OnAir', OnAir \/ ~b PROVE Told(e, "wireMox", b, FALSE)
    <3>1. (on \/ tun) = FALSE
      BY <1>4, <2>3 DEF OnAir
    <3>2. "wireMox" \notin {"raise", "engineTune"}
      BY SMT
    <3>3. Agrees("wireMox", b)
      <4>1. ASSUME ~OnAir PROVE b = Goal("wireMox", b, moxOn, tunOn)
        <5>1. b = FALSE /\ (moxOn \/ tunOn) = FALSE
          BY <2>3, <4>1, FlagTypes
        <5>2. Goal("wireMox", b, moxOn, tunOn) = (moxOn \/ tunOn)
          BY <1>3
        <5> QED
          BY <5>1, <5>2
      <4> QED
        BY <3>2, <4>1, Zenon DEF Agrees
    <3>4. Told(e, "wireMox", b, Goal("wireMox", b, on, tun))
      BY <1>1, <1>4, <3>3
    <3>5. Goal("wireMox", b, on, tun) = FALSE
      BY <1>3, <3>1
    <3> QED
      BY <3>4, <3>5
  <2>4. ASSUME NEW x \in Words, NEW a \in BOOLEAN, a = Goal(x, a, moxOn, tunOn)
        PROVE  Told(e, x, a, Goal(x, a, moxOn', tunOn'))
    BY <1>4, <2>4, Zenon DEF Agrees
  <2> QED
    BY <2>2, <2>3, <2>4
<1>5. ASSUME UNCHANGED flags, todo'[c] = << >> PROVE Tells(todo'[c])
  <2>1. \A x \in Words : \A a : Told(todo'[c], x, a, a)
    BY <1>5, PieceTold
  <2>2. UNCHANGED <<moxOn, tunOn, lastFired>> /\ OnAir' = OnAir
    BY <1>5 DEF flags, OnAir
  <2> QED
    BY <1>1, <1>3, <2>1, <2>2, Zenon
<1>6. CASE MoxNoOp(c) \/ MoxForeign(c) \/ TunNoOp(c)
  BY <1>2, <1>5, <1>6, Zenon DEF MoxNoOp, MoxForeign, TunNoOp
<1>7. CASE MoxKey(c)
  <2>1. /\ moxOn' = TRUE /\ tunOn' = FALSE /\ lastFired' = (TRUE \/ FALSE)
        /\ todo'[c] = MoxEffects(TRUE)
    BY <1>2, <1>7, Zenon DEF MoxKey, SetFlags
  <2>2. \A x \in Words, a \in BOOLEAN : Agrees(x, a) => Told(MoxEffects(TRUE), x, a, Goal(x, a, TRUE, FALSE))
    BY MoxTold
  <2> HIDE DEF Tells
  <2> QED
    BY <1>4, <2>1, <2>2
<1>8. CASE MoxUnkey(c)
  <2>1. moxOn /\ ~tunOn
    <3>1. call[c].on \in BOOLEAN
      BY CallTypes
    <3> QED
      BY <1>8, <3>1, FlagTypes DEF MoxUnkey
  <2>2. moxOn' = FALSE /\ tunOn' = tunOn /\ lastFired' = (FALSE \/ tunOn) /\ todo'[c] = MoxEffects(FALSE)
    BY <1>2, <1>8, Zenon DEF MoxUnkey, SetFlags
  <2>3. tunOn' = FALSE /\ lastFired' = (FALSE \/ FALSE)
    BY <2>1, <2>2, FlagTypes
  <2>4. \A x \in Words, a \in BOOLEAN : Agrees(x, a) => Told(MoxEffects(FALSE), x, a, Goal(x, a, FALSE, FALSE))
    BY <2>1, MoxTold
  <2> HIDE DEF Tells
  <2> QED
    BY <1>4, <2>2, <2>3, <2>4
<1>9. CASE TunKey(c)
  <2>1. /\ moxOn' = FALSE /\ tunOn' = TRUE /\ lastFired' = (FALSE \/ TRUE)
        /\ todo'[c] = TunEffects(TRUE)
    BY <1>2, <1>9, Zenon DEF TunKey, SetFlags
  <2>2. \A x \in Words, a \in BOOLEAN : Agrees(x, a) => Told(TunEffects(TRUE), x, a, Goal(x, a, FALSE, TRUE))
    BY TunTold
  <2> HIDE DEF Tells
  <2> QED
    BY <1>4, <2>1, <2>2
<1>10. CASE TunUnkey(c)
  <2>1. tunOn /\ ~moxOn
    <3>1. call[c].on \in BOOLEAN
      BY CallTypes
    <3> QED
      BY <1>10, <3>1, FlagTypes DEF TunUnkey
  <2>2. moxOn' = moxOn /\ tunOn' = FALSE /\ lastFired' = (moxOn \/ FALSE) /\ todo'[c] = TunEffects(FALSE)
    BY <1>2, <1>10, Zenon DEF TunUnkey, SetFlags
  <2>3. moxOn' = FALSE /\ lastFired' = (FALSE \/ FALSE)
    BY <2>1, <2>2, FlagTypes
  <2>4. \A x \in Words, a \in BOOLEAN : Agrees(x, a) => Told(TunEffects(FALSE), x, a, Goal(x, a, FALSE, FALSE))
    BY <2>1, TunTold
  <2> HIDE DEF Tells
  <2> QED
    BY <1>4, <2>2, <2>3, <2>4
<1>11. CASE Trip(c)
  <2>1. /\ moxOn' = FALSE /\ tunOn' = FALSE /\ lastFired' = (FALSE \/ FALSE)
        /\ todo'[c] = TripEffects
    BY <1>2, <1>11, Zenon DEF Trip, SetFlags
  <2>2. \A x \in Words, a \in BOOLEAN : Agrees(x, a) => Told(TripEffects, x, a, Goal(x, a, FALSE, FALSE))
    BY TripTold
  <2> HIDE DEF Tells
  <2> QED
    BY <1>4, <2>1, <2>2
<1>12. CASE TwoToneArm(c)
  <2>1. /\ todo'[c] = TwoToneOnEffects /\ moxOn' = TRUE /\ lastFired' = TRUE /\ upset' = TRUE
    BY <1>2, <1>12, Zenon DEF TwoToneArm, SetFlags
  <2>2. Told(todo'[c], "raise", lastFired, TRUE) /\ OnAir'
    BY <1>3, <2>1, TwoToneTold DEF OnAir
  <2> QED
    BY <2>1, <2>2
<1>13. CASE TwoToneDisarm(c)
  <2>1. /\ todo'[c] = TwoToneOffEffects /\ lastFired' = tunOn /\ upset' = TRUE
    BY <1>2, <1>13, FlagTypes, Zenon DEF TwoToneDisarm, SetFlags
  <2>2. "wireMox" # "raise"
    BY SMT
  <2>3. Told(todo'[c], "raise", lastFired, tunOn) /\ \A b \in BOOLEAN : Told(todo'[c], "wireMox", b, FALSE)
    BY <1>3, <2>1, <2>2, TwoToneTold, Zenon
  <2> QED
    BY <2>1, <2>3
<1> QED
  BY <1>6, <1>7, <1>8, <1>9, <1>10, <1>11, <1>12, <1>13, Zenon DEF Lock

-----------------------------------------------------------------------------
\* A thread waits for its call, or applies the effects of its last one.
CallsApart == \A c \in Callers : call[c] # NoCall => todo[c] = << >>

LEMMA LockReturns ==
  ASSUME TypeOK, NEW c \in Callers, Lock(c)
  PROVE  /\ call[c] # NoCall /\ call'[c] = NoCall
         /\ \A d \in Callers \ {c} : call'[d] = call[d] /\ todo'[d] = todo[d] /\ ret'[d] = ret[d]
         /\ UNCHANGED <<outside, link>> /\ (upset => upset')
         /\ call[c].op \in AllOps
<1>1. PICK r, e : Return(c, r, e)
  BY Zenon DEF Lock, MoxNoOp, MoxForeign, MoxKey, MoxUnkey, TunNoOp, TunKey, TunUnkey, TwoToneArm,
     TwoToneDisarm, Trip
<1>2. call[c].op \in AllOps
  BY Zenon DEF Lock, MoxNoOp, MoxForeign, MoxKey, MoxUnkey, TunNoOp, TunKey, TunUnkey, TwoToneArm,
     TwoToneDisarm, Trip, AllOps
<1>3. call[c] # NoCall
  BY <1>2, SMT DEF AllOps, NoCall
<1>4. /\ call'[c] = NoCall
      /\ \A d \in Callers \ {c} : call'[d] = call[d] /\ todo'[d] = todo[d] /\ ret'[d] = ret[d]
  BY <1>1, Zenon DEF Return, TypeOK
<1>5. UNCHANGED <<outside, link>> /\ (upset => upset')
  BY <1>1, Zenon DEF Return
<1> QED
  BY <1>2, <1>3, <1>4, <1>5

LEMMA EffectPops ==
  ASSUME TypeOK, NEW c \in Callers, Effect(c)
  PROVE  /\ todo[c] \in Seq(Effects) /\ todo[c] # << >> /\ todo'[c] = Tail(todo[c])
         /\ \A d \in Callers \ {c} : todo'[d] = todo[d]
         /\ UNCHANGED <<flags, call, ret, link, history>>
<1>1. todo[c] # << >> /\ Done1(c)
  BY Zenon DEF Effect, Drive, RaiseTxActiveChanged, BroadcastMoxState
<1>2. /\ todo' = [todo EXCEPT ![c] = Tail(todo[c])]
      /\ UNCHANGED <<flags, call, ret, link, history>>
  BY <1>1 DEF Done1
<1> QED
  BY <1>1, <1>2, Zenon DEF TypeOK

LEMMA EnterIs ==
  ASSUME TypeOK, NEW c \in Callers, NEW k \in Request, Enter(c, k)
  PROVE  /\ Idle(c) /\ call'[c] = k /\ k # NoCall /\ ret'[c] = "ok"
         /\ \A d \in Callers \ {c} : call'[d] = call[d] /\ ret'[d] = ret[d]
         /\ UNCHANGED <<flags, todo>>
<1>1. k # NoCall
  BY SMT DEF Request, Calls, AllOps, NoCall
<1> QED
  BY <1>1, Zenon DEF Enter, TypeOK

LEMMA ApartStep == ASSUME TypeOK, CallsApart, [Next]_vars PROVE CallsApart'
<1>1. ASSUME NEW c \in Callers, NEW k \in Request, Enter(c, k) \/ Refuse(c, k)
      PROVE  CallsApart'
  <2>1. /\ todo' = todo /\ todo[c] = << >>
        /\ \A d \in Callers \ {c} : call'[d] = call[d]
    BY <1>1, Zenon DEF Enter, Refuse, Idle, TypeOK
  <2> QED
    BY <2>1, Zenon DEF CallsApart
<1>2. ASSUME NEW c \in Callers, Lock(c) PROVE CallsApart'
  BY <1>2, LockReturns, Zenon DEF CallsApart
<1>3. ASSUME NEW c \in Callers, Effect(c) PROVE CallsApart'
  BY <1>3, EffectPops, Zenon DEF CallsApart
<1>4. CASE LinkStep \/ UNCHANGED vars
  <2>1. UNCHANGED <<call, todo>>
    BY <1>4, LinkFacts, Zenon DEF vars
  <2> QED
    BY <2>1, Zenon DEF CallsApart
<1> QED
  BY <1>1, <1>2, <1>3, <1>4, Zenon DEF Next, Thread

LEMMA CallsStayApart == Spec => []CallsApart
<1>1. Init => CallsApart
  BY Zenon DEF Init, CallsApart
<1> QED
  BY <1>1, ApartStep, TypeCorrect, PTL DEF Spec

-----------------------------------------------------------------------------
\* The value that a word stands for.
Reads(x) == IF x = "raise" THEN heard ELSE hw[x]

\* Applying an effect keeps every promise of the list it is taken from.
LEMMA EffectKeeps ==
  ASSUME TypeOK, NEW c \in Callers, Effect(c), NEW x \in Words, NEW v \in BOOLEAN
  PROVE  /\ x # "wireMox" /\ Told(todo[c], x, Reads(x), v) => Told(todo'[c], x, Reads(x)', v)
         /\ Says(todo[c], "wireMox", v, FALSE) => \/ Says(todo'[c], "wireMox", v, FALSE)
                                                  \/ /\ Lacks(todo'[c], "wireMox")
                                                     /\ Wired => hw'["wireMox"] = v
         /\ ~Wired => hw'["wireMox"] = hw["wireMox"]
         /\ Lacks(todo[c], "wireMox") => Lacks(todo'[c], "wireMox") /\ hw'["wireMox"] = hw["wireMox"]
<1> DEFINE e == Head(todo[c])
<1>1. /\ todo[c] \in Seq(Effects) /\ todo[c] # << >> /\ todo'[c] = Tail(todo[c])
  BY EffectPops
<1>2. e \in Effects /\ e.on \in BOOLEAN
  <2>1. e \in Effects
    BY <1>1
  <2> QED
    BY <2>1 DEF Effects
<1>3. \/ /\ e.fx \in Lines /\ heard' = heard
         /\ e.fx = "wireMox" /\ ~Wired => hw' = hw
         /\ ~(e.fx = "wireMox" /\ ~Wired) => hw' = [hw EXCEPT ![e.fx] = e.on]
      \/ e.fx = "raise" /\ heard' = e.on /\ hw' = hw
      \/ e.fx = "show" /\ heard' = heard /\ hw' = hw
  BY Zenon DEF Effect, Drive, RaiseTxActiveChanged, BroadcastMoxState, Next1
<1>4. "raise" \notin Lines /\ "show" \notin Lines /\ "wireMox" \in Lines /\ "raise" # "show"
      /\ x # "show" /\ (x # "raise" => x \in Lines)
  BY SMT DEF Words, Lines
<1>5. DOMAIN hw = Lines
  BY DEF TypeOK
<1>6. e.fx # x => Reads(x)' = Reads(x)
  <2>1. CASE x = "raise"
    BY <1>3, <2>1, Zenon DEF Reads
  <2>2. CASE x # "raise"
    <3>1. e.fx # x => hw'[x] = hw[x]
      BY <1>3, <1>4, <1>5, <2>2, Zenon
    <3> QED
      BY <2>2, <3>1, Zenon DEF Reads
  <2> QED
    BY <2>1, <2>2
<1>7. e.fx = x /\ x # "wireMox" => Reads(x)' = e.on
  <2>1. CASE x = "raise"
    BY <1>3, <1>4, <2>1, Zenon DEF Reads
  <2>2. CASE x # "raise"
    BY <1>2, <1>3, <1>4, <1>5, <2>2, SMT DEF Reads
  <2> QED
    BY <2>1, <2>2
<1>8. /\ e.fx = "wireMox" => hw'["wireMox"] = IF Wired THEN e.on ELSE hw["wireMox"]
      /\ e.fx # "wireMox" => hw'["wireMox"] = hw["wireMox"]
  BY <1>2, <1>3, <1>4, <1>5, SMT DEF TypeOK
<1> HIDE DEF e
<1>9. ASSUME NEW y
      PROVE  /\ Lacks(todo[c], y) => e.fx # y /\ Lacks(todo'[c], y)
             /\ Says(todo[c], y, v, FALSE) => \/ Says(todo'[c], y, v, FALSE)
                                              \/ e.fx = y /\ e.on = v /\ Lacks(todo'[c], y)
  <2> DEFINE s == todo[c]
  <2>1. /\ Lacks(s, y) => Head(s).fx # y /\ Lacks(Tail(s), y)
        /\ Says(s, y, v, FALSE) => \/ Says(Tail(s), y, v, FALSE)
                                   \/ /\ Head(s).fx = y /\ Head(s).on = v /\ Head(s).tun = FALSE
                                      /\ Lacks(Tail(s), y)
    <3>1. s \in Seq(Effects) /\ s # << >>
      BY <1>1
    <3> HIDE DEF s
    <3> QED
      BY <3>1, FirstOff
  <2> QED
    BY <1>1, <2>1 DEF e
<1>10. x # "wireMox" /\ Told(todo[c], x, Reads(x), v) => Told(todo'[c], x, Reads(x)', v)
  BY <1>6, <1>7, <1>9, Zenon DEF Told
<1>11. Says(todo[c], "wireMox", v, FALSE) => \/ Says(todo'[c], "wireMox", v, FALSE)
                                             \/ /\ Lacks(todo'[c], "wireMox")
                                                /\ Wired => hw'["wireMox"] = v
  BY <1>8, <1>9
<1>12. Lacks(todo[c], "wireMox") => Lacks(todo'[c], "wireMox") /\ hw'["wireMox"] = hw["wireMox"]
  BY <1>8, <1>9
<1>13. ~Wired => hw'["wireMox"] = hw["wireMox"]
  BY <1>8
<1> QED
  BY <1>10, <1>11, <1>12, <1>13

-----------------------------------------------------------------------------
\* What the list of thread d still owes the lines, the wire and the UI.
Driven == {"raise", "engineMox", "radioMox", "engineTune", "tuneDrive"}
OwesLines(d) ==
  \A x \in Driven : Told(todo[d], x, Reads(x), Goal(x, Reads(x), moxOn, tunOn))
OwesWire(d) ==
  /\ ~Wired => hw["wireMox"] = FALSE
  /\ \/ Says(todo[d], "wireMox", OnAir, FALSE)
     \/ Lacks(todo[d], "wireMox") /\ (Wired => hw["wireMox"] = OnAir)
OwesShow(d) ==
  \/ Says(todo[d], "show", moxOn, tunOn)
  \/ Lacks(todo[d], "show") /\ shown = [mox |-> moxOn, tun |-> tunOn]

Owes(d) == OwesLines(d) /\ OwesWire(d) /\ OwesShow(d)

LEMMA DrivenWords ==
  /\ \A x \in Driven : x \in Words /\ x # "wireMox"
                       /\ (x = "raise" \/ x \in {"engineMox", "radioMox"} \/ x \in {"engineTune", "tuneDrive"})
  /\ "raise" \in Words /\ "wireMox" \in Words /\ "wireMox" # "raise" /\ "show" # "raise"
BY SMT DEF Driven, Words, Lines

LEMMA ReadsBoolean == ASSUME TypeOK, NEW x \in Words PROVE Reads(x) \in BOOLEAN
<1>1. x = "raise" \/ x \in Lines
  BY DEF Words
<1>2. heard \in BOOLEAN /\ \A l \in Lines : hw[l] \in BOOLEAN
  BY DEF TypeOK
<1> QED
  BY <1>1, <1>2, Zenon DEF Reads

\* On the lines that the flags drive the goal does not depend on the reading.
LEMMA GoalIs ==
  ASSUME NEW a, NEW b, NEW on \in BOOLEAN, NEW tun \in BOOLEAN
  PROVE  /\ \A x \in Driven : Goal(x, a, on, tun) = Goal(x, b, on, tun) /\ Goal(x, a, on, tun) \in BOOLEAN
         /\ Goal("raise", a, on, tun) = (on \/ tun) /\ Goal("wireMox", a, on, tun) = (on \/ tun)
<1>1. Goal("raise", a, on, tun) = (on \/ tun) /\ Goal("wireMox", a, on, tun) = (on \/ tun)
  BY DrivenWords, Zenon DEF Goal
<1>2. ASSUME NEW x \in Driven
      PROVE  Goal(x, a, on, tun) = Goal(x, b, on, tun) /\ Goal(x, a, on, tun) \in BOOLEAN
  <2>1. CASE x = "raise"
    <3>1. Goal(x, a, on, tun) = (on \/ tun) /\ Goal(x, b, on, tun) = (on \/ tun)
      BY <2>1, Zenon DEF Goal
    <3> QED
      BY <3>1
  <2>2. CASE x # "raise" /\ x \in {"engineMox", "radioMox"}
    <3>1. Goal(x, a, on, tun) = (on \/ tun) /\ Goal(x, b, on, tun) = (on \/ tun)
      BY <2>2, Zenon DEF Goal
    <3> QED
      BY <3>1
  <2>3. CASE x # "raise" /\ x \in {"engineTune", "tuneDrive"}
    <3>1. x \notin {"engineMox", "radioMox", "wireMox"}
      BY <2>3, SMT
    <3>2. Goal(x, a, on, tun) = tun /\ Goal(x, b, on, tun) = tun
      BY <2>3, <3>1, Zenon DEF Goal
    <3> QED
      BY <3>2
  <2> QED
    BY <2>1, <2>2, <2>3, DrivenWords, Zenon
<1> QED
  BY <1>1, <1>2

LEMMA OwesEffect ==
  ASSUME TypeOK, NEW d \in Callers, Effect(d), Owes(d)
  PROVE  Owes(d)'
<1>1. UNCHANGED <<moxOn, tunOn, link>> /\ OnAir' = OnAir /\ Wired' = Wired
  <2>1. UNCHANGED <<flags, link>>
    BY EffectPops
  <2> QED
    BY <2>1 DEF flags, OnAir, Wired
<1>2. moxOn \in BOOLEAN /\ tunOn \in BOOLEAN /\ OnAir \in BOOLEAN
  BY DEF TypeOK, OnAir
<1>3. OwesLines(d)'
  <2> SUFFICES ASSUME NEW x \in Driven
               PROVE  Told(todo'[d], x, Reads(x)', Goal(x, Reads(x)', moxOn', tunOn'))
    BY Zenon DEF OwesLines
  <2> DEFINE v == Goal(x, Reads(x), moxOn, tunOn)
  <2>1. v \in BOOLEAN /\ Goal(x, Reads(x)', moxOn', tunOn') = v
    <3>1. v \in BOOLEAN /\ Goal(x, Reads(x)', moxOn, tunOn) = v
      BY <1>2, GoalIs
    <3> QED
      BY <1>1, <3>1
  <2>2. Told(todo[d], x, Reads(x), v)
    BY DEF Owes, OwesLines
  <2> HIDE DEF v
  <2>3. Told(todo'[d], x, Reads(x)', v)
    BY <2>1, <2>2, DrivenWords, EffectKeeps
  <2> QED
    BY <2>1, <2>3
<1>4. OwesWire(d)'
  <2>1. /\ ~Wired => hw'["wireMox"] = FALSE
        /\ \/ Says(todo'[d], "wireMox", OnAir, FALSE)
           \/ Lacks(todo'[d], "wireMox") /\ (Wired => hw'["wireMox"] = OnAir)
    BY <1>2, DrivenWords, EffectKeeps, Zenon DEF Owes, OwesWire
  <2> QED
    BY <1>1, <2>1 DEF OwesWire
<1>5. OwesShow(d)'
  <2> DEFINE s == todo[d]
  <2>1. /\ s \in Seq(Effects) /\ s # << >> /\ todo'[d] = Tail(s)
    BY EffectPops
  <2>2. \/ Head(s).fx # "show" /\ shown' = shown
        \/ Head(s).fx = "show" /\ shown' = [mox |-> Head(s).on, tun |-> Head(s).tun]
    <3>1. "show" \notin Lines /\ "show" # "raise"
      BY SMT DEF Lines
    <3> QED
      BY <3>1, Zenon DEF Effect, Drive, RaiseTxActiveChanged, BroadcastMoxState, Next1
  <2>3. /\ Lacks(s, "show") => Head(s).fx # "show" /\ Lacks(Tail(s), "show")
        /\ Says(s, "show", moxOn, tunOn) => \/ Says(Tail(s), "show", moxOn, tunOn)
                                   \/ /\ Head(s).fx = "show" /\ Head(s).on = moxOn /\ Head(s).tun = tunOn
                                      /\ Lacks(Tail(s), "show")
    <3> HIDE DEF s
    <3> QED
      BY <2>1, FirstOff
  <2>4. \/ Says(Tail(s), "show", moxOn, tunOn)
        \/ Lacks(Tail(s), "show") /\ shown' = [mox |-> moxOn, tun |-> tunOn]
    <3>1. \/ Says(s, "show", moxOn, tunOn)
          \/ Lacks(s, "show") /\ shown = [mox |-> moxOn, tun |-> tunOn]
      BY DEF Owes, OwesShow
    <3> HIDE DEF s
    <3> QED
      BY <2>2, <2>3, <3>1
  <2> QED
    BY <1>1, <2>1, <2>4, Zenon DEF OwesShow
<1> QED
  BY <1>3, <1>4, <1>5 DEF Owes

\* The broadcast ends the list of every change of the flags.
LEMMA LockShows ==
  ASSUME TypeOK, KeyInv, NEW c \in Callers, Lock(c), ~upset'
  PROVE  \/ Says(todo'[c], "show", moxOn', tunOn')
         \/ Lacks(todo'[c], "show") /\ UNCHANGED <<moxOn, tunOn>>
<1>1. ASSUME NEW r, NEW e, Return(c, r, e) PROVE todo'[c] = e /\ upset' = (upset \/ call[c].op = "twotone")
  BY <1>1, Zenon DEF Return, TypeOK
<1>2. ASSUME NEW s \in Seq(Effects), NEW on \in BOOLEAN, NEW tun \in BOOLEAN
      PROVE  Says(s \o Show(on, tun), "show", on, tun)
  <2>1. Says(Show(on, tun), "show", on, tun) /\ Show(on, tun) \in Seq(Effects)
    BY Pieces, FxType
  <2> QED
    BY <2>1, LastWord
<1>3. moxOn \in BOOLEAN /\ tunOn \in BOOLEAN /\ (moxOn => ~tunOn)
  BY FlagTypes
<1>4. call[c].on \in BOOLEAN
  BY CallTypes
<1>5. CASE MoxNoOp(c) \/ MoxForeign(c) \/ TunNoOp(c)
  <2>1. todo'[c] = << >> /\ UNCHANGED flags
    BY <1>1, <1>5, Zenon DEF MoxNoOp, MoxForeign, TunNoOp
  <2> QED
    BY <2>1, Pieces DEF flags
<1>6. ASSUME NEW on \in BOOLEAN
      PROVE  Says(MoxEffects(on), "show", on, FALSE) /\ Says(TunEffects(on), "show", FALSE, on)
  <2>1. /\ Raise(on \/ tunOn) \in Seq(Effects) /\ Raise(on \/ moxOn) \in Seq(Effects)
        /\ When(tunOn /\ on, PipelineSetTxTune(FALSE)) \in Seq(Effects)
        /\ When(moxOn /\ on, PipelineSetMox(FALSE) \o RadioSetMox(FALSE)) \in Seq(Effects)
    BY <1>3, RaiseType, FxType, WhenSeq, ConcatSeq
  <2>2. /\ PipelineSetMox(on) \in Seq(Effects) /\ RadioSetMox(on) \in Seq(Effects)
        /\ PipelineSetTxTune(on) \in Seq(Effects) /\ NotifyTunActive(on) \in Seq(Effects)
        /\ NotifyTunActive(FALSE) \in Seq(Effects)
    BY FxType
  <2> QED
    BY <1>2, <2>1, <2>2, ConcatSeq DEF MoxEffects, TunEffects
<1>7. CASE MoxKey(c)
  BY <1>1, <1>6, <1>7, Zenon DEF MoxKey, SetFlags
<1>8. CASE MoxUnkey(c)
  <2>1. todo'[c] = MoxEffects(FALSE) /\ moxOn' = FALSE /\ tunOn' = tunOn /\ moxOn # call[c].on /\ ~call[c].on
    BY <1>1, <1>8, Zenon DEF MoxUnkey, SetFlags
  <2>2. tunOn = FALSE
    BY <1>3, <1>4, <2>1
  <2> QED
    BY <1>6, <2>1, <2>2
<1>9. CASE TunKey(c)
  BY <1>1, <1>6, <1>9, Zenon DEF TunKey, SetFlags
<1>10. CASE TunUnkey(c)
  <2>1. todo'[c] = TunEffects(FALSE) /\ moxOn' = moxOn /\ tunOn' = FALSE /\ tunOn # call[c].on /\ ~call[c].on
    BY <1>1, <1>10, Zenon DEF TunUnkey, SetFlags
  <2>2. moxOn = FALSE
    BY <1>3, <1>4, <2>1
  <2> QED
    BY <1>6, <2>1, <2>2
<1>11. CASE TwoToneArm(c) \/ TwoToneDisarm(c)
  BY <1>1, <1>11, Zenon DEF TwoToneArm, TwoToneDisarm
<1>12. CASE Trip(c)
  <2> DEFINE down == PipelineSetMox(FALSE) \o RadioSetMox(FALSE) \o When(tunOn, PipelineSetTxTune(FALSE))
                       \o NotifyTunActive(FALSE)
  <2>1. todo'[c] = TripEffects /\ moxOn' = FALSE /\ tunOn' = FALSE
    BY <1>1, <1>12, Zenon DEF Trip, SetFlags
  <2>2. /\ down \in Seq(Effects) /\ Show(FALSE, FALSE) \in Seq(Effects) /\ Raise(FALSE) \in Seq(Effects)
    BY <1>3, FxType, WhenSeq, ConcatSeq, RaiseType
  <2>3. Lacks(Raise(FALSE), "show")
    <3>1. "show" # "raise"
      BY SMT
    <3>2. Lacks(<<Fx("raise", FALSE)>>, "show") /\ Lacks(<< >>, "show")
      BY <3>1, Pieces, Zenon
    <3> QED
      BY <3>2, Zenon DEF Raise, When
  <2>4. TripEffects = When(moxOn \/ tunOn, down \o Show(FALSE, FALSE)) \o Raise(FALSE)
    BY DEF TripEffects
  <2> HIDE DEF down
  <2>5. Says(down \o Show(FALSE, FALSE), "show", FALSE, FALSE) /\ down \o Show(FALSE, FALSE) \in Seq(Effects)
    BY <1>2, <2>2, ConcatSeq
  <2>6. CASE moxOn \/ tunOn
    <3>1. When(moxOn \/ tunOn, down \o Show(FALSE, FALSE)) = down \o Show(FALSE, FALSE)
      BY <2>6, Zenon DEF When
    <3>2. Says((down \o Show(FALSE, FALSE)) \o Raise(FALSE), "show", FALSE, FALSE)
      BY <2>2, <2>3, <2>5, LastWord
    <3> QED
      BY <2>1, <2>4, <3>1, <3>2
  <2>7. CASE ~(moxOn \/ tunOn)
    <3>1. When(moxOn \/ tunOn, down \o Show(FALSE, FALSE)) = << >>
      BY <2>7, Zenon DEF When
    <3>2. Lacks(<< >>, "show") /\ << >> \in Seq(Effects)
      BY SMT DEF Lacks
    <3>3. Lacks(<< >> \o Raise(FALSE), "show")
      BY <2>2, <2>3, <3>2, LastWord
    <3> QED
      BY <1>3, <2>1, <2>4, <2>7, <3>1, <3>3
  <2> QED
    BY <2>6, <2>7
<1> QED
  BY <1>5, <1>7, <1>8, <1>9, <1>10, <1>11, <1>12, Zenon DEF Lock

LEMMA OwesLock ==
  ASSUME TypeOK, KeyInv, NEW d \in Callers, Lock(d), ~upset', todo[d] = << >>, Owes(d)
  PROVE  Owes(d)'
<1>1. Lacks(todo[d], "wireMox") /\ Lacks(todo[d], "show") /\ (\A x : Lacks(todo[d], x))
      /\ \A x, on, tun : ~Says(todo[d], x, on, tun)
  BY SMT DEF Lacks, Says
<1>2. UNCHANGED <<hw, heard, shown>> /\ Wired' = Wired /\ \A x : Reads(x)' = Reads(x)
  BY LockReturns DEF outside, Reads, Wired
<1>3. /\ moxOn \in BOOLEAN /\ tunOn \in BOOLEAN /\ moxOn' \in BOOLEAN /\ tunOn' \in BOOLEAN
      /\ OnAir = (moxOn \/ tunOn) /\ OnAir' = (moxOn' \/ tunOn') /\ OnAir \in BOOLEAN
  BY LockType DEF TypeOK, OnAir
<1>4. ASSUME NEW x \in Words, NEW a \in BOOLEAN, a = Goal(x, a, moxOn, tunOn)
      PROVE  Told(todo'[d], x, a, Goal(x, a, moxOn', tunOn'))
  BY <1>4, LockTells
<1>5. OwesLines(d)'
  <2> SUFFICES ASSUME NEW x \in Driven
               PROVE  Told(todo'[d], x, Reads(x)', Goal(x, Reads(x)', moxOn', tunOn'))
    BY Zenon DEF OwesLines
  <2>1. Reads(x) = Goal(x, Reads(x), moxOn, tunOn)
    BY <1>1, Zenon DEF Owes, OwesLines, Told
  <2>2. Told(todo'[d], x, Reads(x), Goal(x, Reads(x), moxOn', tunOn'))
    BY <1>4, <2>1, DrivenWords, ReadsBoolean
  <2> QED
    BY <1>2, <2>2
<1>6. OwesWire(d)'
  <2>1. (~Wired => hw["wireMox"] = FALSE) /\ (Wired => hw["wireMox"] = OnAir)
    BY <1>1 DEF Owes, OwesWire
  <2>2. Goal("wireMox", OnAir, moxOn, tunOn) = OnAir /\ Goal("wireMox", OnAir, moxOn', tunOn') = OnAir'
    BY <1>3, GoalIs
  <2>3. Told(todo'[d], "wireMox", OnAir, OnAir')
    BY <1>3, <1>4, <2>2, DrivenWords
  <2> QED
    <3>1. \/ Says(todo'[d], "wireMox", OnAir', FALSE)
          \/ Lacks(todo'[d], "wireMox") /\ OnAir = OnAir'
      BY <2>3 DEF Told
    <3>2. hw' = hw /\ Wired' = Wired
      BY <1>2
    <3> QED
      <4>1. /\ ~Wired' => hw'["wireMox"] = FALSE
            /\ OnAir = OnAir' => (Wired' => hw'["wireMox"] = OnAir')
        BY <2>1, <3>2
      <4> QED
        BY <3>1, <4>1, Zenon DEF OwesWire
<1>7. OwesShow(d)'
  <2>1. shown = [mox |-> moxOn, tun |-> tunOn]
    BY <1>1, Zenon DEF Owes, OwesShow
  <2> QED
    BY <1>2, <2>1, LockShows, Zenon DEF OwesShow
<1> QED
  BY <1>5, <1>6, <1>7 DEF Owes

\* With one thread the list in hand is all that the lines still need.
SettledInv == upset \/ \A d \in Callers : Owes(d)

\* An unkeyed transmitter has an unkeyed wire, or a list that will unkey it.
Unkeys(d) ==
  \/ Says(todo[d], "wireMox", FALSE, FALSE)
  \/ Lacks(todo[d], "wireMox") /\ (Wired => hw["wireMox"] = FALSE)
WireInv == OnAir \/ \A d \in Callers : Unkeys(d)

LEMMA OwesRests ==
  ASSUME NEW d \in Callers, Owes(d), UNCHANGED <<moxOn, tunOn, todo, hw, shown, heard, link>>
  PROVE  Owes(d)'
<1>1. OnAir' = OnAir /\ Wired' = Wired /\ \A x : Reads(x)' = Reads(x)
  BY DEF OnAir, Wired, Reads
<1>2. OwesLines(d)'
  BY <1>1, Zenon DEF Owes, OwesLines
<1>3. OwesWire(d)'
  BY <1>1, Zenon DEF Owes, OwesWire
<1>4. OwesShow(d)'
  BY Zenon DEF Owes, OwesShow
<1> QED
  BY <1>2, <1>3, <1>4 DEF Owes

\* A link that changes while nothing is keyed and nothing is pending.
LEMMA OwesLink ==
  ASSUME TypeOK, KeyInv, LinkStep, ~upset', NEW d \in Callers, Owes(d)
  PROVE  Owes(d)'
<1>1. /\ UNCHANGED <<moxOn, tunOn, todo, shown, heard>>
      /\ upset' = (upset \/ moxOn \/ tunOn \/ ~Applied)
  BY LinkFacts DEF flags
<1>2. ~moxOn /\ ~tunOn /\ ~OnAir /\ ~OnAir' /\ todo[d] = << >>
  BY <1>1, Zenon DEF Applied, OnAir
<1>3. (\A x : Lacks(todo[d], x)) /\ \A x, on, tun : ~Says(todo[d], x, on, tun)
  BY <1>2, SMT DEF Lacks, Says
<1>4. moxOn \in BOOLEAN /\ tunOn \in BOOLEAN
  BY DEF TypeOK
<1>5. \A x \in Lines : hw'[x] = FALSE \/ hw'[x] = hw[x]
  BY LinkLines
<1>6. OwesLines(d)'
  <2> SUFFICES ASSUME NEW x \in Driven
               PROVE  Told(todo'[d], x, Reads(x)', Goal(x, Reads(x)', moxOn', tunOn'))
    BY Zenon DEF OwesLines
  <2> DEFINE v == Goal(x, Reads(x), moxOn, tunOn)
  <2>1. Reads(x) = v
    BY <1>3, Zenon DEF Owes, OwesLines, Told
  <2>2. x # "raise" => v = FALSE
    <3>1. /\ x \in {"engineMox", "radioMox"} => v = (moxOn \/ tunOn)
          /\ x \in {"engineTune", "tuneDrive"} /\ x \notin {"engineMox", "radioMox", "wireMox"} /\ x # "raise" => v = tunOn
      <4>1. x \in {"engineMox", "radioMox"} => x # "raise"
        BY SMT
      <4> QED
        BY <4>1, Zenon DEF Goal
    <3>2. x \in {"engineTune", "tuneDrive"} => x \notin {"engineMox", "radioMox", "wireMox"}
      BY SMT
    <3>3. (moxOn \/ tunOn) = FALSE /\ tunOn = FALSE
      BY <1>2, <1>4
    <3> HIDE DEF v
    <3> QED
      BY <3>1, <3>2, <3>3, DrivenWords, Zenon
  <2>3. Goal(x, Reads(x)', moxOn', tunOn') = v
    <3>1. Goal(x, Reads(x)', moxOn, tunOn) = v
      BY <1>4, GoalIs
    <3> QED
      BY <1>1, <3>1
  <2>4. Reads(x)' = v
    <3>1. CASE x = "raise"
      BY <1>1, <2>1, <3>1, Zenon DEF Reads
    <3>2. CASE x # "raise"
      <4>1. hw'[x] = FALSE \/ hw'[x] = hw[x]
        BY <1>5, <3>2, DrivenWords DEF Words
      <4>2. hw[x] = v /\ v = FALSE
        BY <2>1, <2>2, <3>2, Zenon DEF Reads
      <4> HIDE DEF v
      <4>3. hw'[x] = v
        BY <4>1, <4>2
      <4> QED
        BY <3>2, <4>3, Zenon DEF Reads
    <3> QED
      BY <3>1, <3>2
  <2> HIDE DEF v
  <2> QED
    BY <1>1, <1>3, <2>3, <2>4, Zenon DEF Told
<1>7. OwesWire(d)'
  <2>1. hw["wireMox"] = FALSE
    <3>1. OnAir = FALSE
      BY <1>2, <1>4 DEF OnAir
    <3> QED
      BY <1>3, <3>1, Zenon DEF Owes, OwesWire
  <2>2. hw'["wireMox"] = FALSE /\ OnAir' = FALSE
    <3>1. "wireMox" \in Lines
      BY DEF Lines
    <3>2. OnAir' = FALSE
      BY <1>1, <1>2, <1>4 DEF OnAir
    <3> QED
      BY <1>5, <2>1, <3>1, <3>2
  <2> QED
    BY <1>1, <1>3, <2>2, Zenon DEF OwesWire
<1>8. OwesShow(d)'
  BY <1>1, <1>3, Zenon DEF Owes, OwesShow
<1> QED
  BY <1>6, <1>7, <1>8 DEF Owes

LEMMA SettledStep ==
  ASSUME NEW d, Callers = {d}, TypeOK, KeyInv, CallsApart, SettledInv, [Next]_vars
  PROVE  SettledInv'
<1> SUFFICES ASSUME ~upset'
             PROVE  Owes(d)'
  BY Zenon DEF SettledInv
<1>1. CASE UNCHANGED vars \/ \E k \in Request : Enter(d, k) \/ Refuse(d, k)
  <2>1. UNCHANGED <<moxOn, tunOn, todo, hw, shown, heard, link, upset>>
    BY <1>1, Zenon DEF vars, Enter, Refuse, flags, outside, history
  <2> QED
    BY <2>1, OwesRests, Zenon DEF SettledInv
<1>2. CASE Lock(d)
  <2>1. ~upset /\ todo[d] = << >>
    BY <1>2, LockReturns, Zenon DEF CallsApart
  <2> QED
    BY <1>2, <2>1, OwesLock, Zenon DEF SettledInv
<1>3. CASE Effect(d)
  <2>1. upset' = upset
    BY <1>3, EffectPops DEF history
  <2> QED
    BY <1>3, <2>1, OwesEffect, Zenon DEF SettledInv
<1>4. CASE LinkStep
  <2>1. ~upset
    BY <1>4, LinkFacts
  <2> QED
    BY <1>4, <2>1, OwesLink, Zenon DEF SettledInv
<1> QED
  BY <1>1, <1>2, <1>3, <1>4, Zenon DEF Next, Thread

LEMMA SettledInit == ASSUME Init PROVE SettledInv
<1> SUFFICES ASSUME NEW d \in Callers
             PROVE  Owes(d)
  BY Zenon DEF SettledInv
<1>1. todo[d] = << >> /\ ~OnAir /\ ~moxOn /\ ~tunOn
  BY DEF Init, OnAir
<1>2. \A x : Lacks(todo[d], x)
  BY <1>1, SMT DEF Lacks
<1>3. OwesLines(d)
  <2> SUFFICES ASSUME NEW x \in Driven
               PROVE  Reads(x) = Goal(x, Reads(x), moxOn, tunOn)
    BY <1>2, Zenon DEF OwesLines, Told
  <2>1. Reads(x) = FALSE
    BY DrivenWords, SMT DEF Init, Reads, Lines
  <2>2. (moxOn \/ tunOn) = FALSE /\ tunOn = FALSE
    BY DEF Init
  <2> QED
    BY <2>1, <2>2, Zenon DEF Goal
<1>4. OwesWire(d)
  <2>1. hw["wireMox"] = FALSE
    BY SMT DEF Init, Lines
  <2>2. ~Wired
    BY SMT DEF Init, Wired
  <2> QED
    BY <1>2, <2>1, <2>2, Zenon DEF OwesWire
<1>5. OwesShow(d)
  BY <1>2, Zenon DEF Init, OwesShow
<1> QED
  BY <1>3, <1>4, <1>5 DEF Owes

\* A thread alone with the transmitter: once its calls have returned the engine,
\* the radio, the wire, the drive source, the UI and the subscribers agree with
\* the flags, as long as no two-tone test was used and no step of a connect or
\* disconnect fell on a keyed transmitter or on a call under way.
THEOREM SettledWhenAlone ==
  ASSUME NEW d, Callers = {d}
  PROVE  Spec => []SettledAgreement
<1>1. TypeOK /\ KeyInv /\ SettledInv => SettledAgreement
  <2> SUFFICES ASSUME TypeOK, KeyInv, SettledInv, Quiet, ~upset
               PROVE  /\ \A l \in Lines : hw[l] = Target(l)
                      /\ shown = [mox |-> moxOn, tun |-> tunOn]
                      /\ heard = lastFired
    BY Zenon DEF SettledAgreement
  <2>1. Owes(d) /\ todo[d] = << >>
    BY Zenon DEF SettledInv, Quiet, Idle
  <2>2. (\A x : Lacks(todo[d], x)) /\ \A x, on, tun : ~Says(todo[d], x, on, tun)
    BY <2>1, SMT DEF Lacks, Says
  <2>3. \A x \in Driven : Reads(x) = Goal(x, Reads(x), moxOn, tunOn)
    BY <2>1, <2>2, Zenon DEF Owes, OwesLines, Told
  <2>4. moxOn \in BOOLEAN /\ tunOn \in BOOLEAN /\ OnAir = (moxOn \/ tunOn) /\ lastFired = (moxOn \/ tunOn)
    BY FlagTypes DEF OnAir
  <2>5. heard = lastFired
    <3>1. "raise" \in Driven
      BY DEF Driven
    <3>2. Reads("raise") = heard
      BY DEF Reads
    <3>3. Goal("raise", heard, moxOn, tunOn) = (moxOn \/ tunOn)
      BY <2>4, GoalIs
    <3> QED
      BY <2>3, <2>4, <3>1, <3>2, <3>3
  <2>6. hw["wireMox"] = (OnAir /\ Wired)
    <3>1. (~Wired => hw["wireMox"] = FALSE) /\ (Wired => hw["wireMox"] = OnAir)
      BY <2>1, <2>2, Zenon DEF Owes, OwesWire
    <3>2. hw["wireMox"] \in BOOLEAN
      BY SMT DEF TypeOK, Lines
    <3> QED
      BY <3>1, <3>2
  <2>7. ASSUME NEW x \in {"engineMox", "radioMox"} PROVE hw[x] = OnAir
    <3>1. x # "raise" /\ x \in Driven
      BY SMT DEF Driven
    <3>2. Goal(x, Reads(x), moxOn, tunOn) = (moxOn \/ tunOn)
      BY <2>7, <3>1, Zenon DEF Goal
    <3>3. Reads(x) = hw[x]
      BY <3>1 DEF Reads
    <3> QED
      BY <2>3, <2>4, <3>1, <3>2, <3>3
  <2>8. ASSUME NEW x \in {"engineTune", "tuneDrive"} PROVE hw[x] = tunOn
    <3>1. x # "raise" /\ x \in Driven /\ x \notin {"engineMox", "radioMox", "wireMox"}
      BY SMT DEF Driven
    <3>2. Goal(x, Reads(x), moxOn, tunOn) = tunOn
      BY <2>8, <3>1, Zenon DEF Goal
    <3>3. Reads(x) = hw[x]
      BY <3>1 DEF Reads
    <3> QED
      BY <2>3, <3>1, <3>2, <3>3
  <2>9. ASSUME NEW l \in Lines PROVE hw[l] = Target(l)
    BY <2>6, <2>7, <2>8, <2>9, SMT DEF Target, Lines
  <2>10. shown = [mox |-> moxOn, tun |-> tunOn]
    BY <2>1, <2>2 DEF Owes, OwesShow
  <2> QED
    BY <2>5, <2>9, <2>10
<1>2. TypeOK /\ KeyInv /\ CallsApart /\ SettledInv /\ [Next]_vars => SettledInv'
  BY SettledStep
<1>3. Init => SettledInv
  BY SettledInit
<1> QED
  BY <1>1, <1>2, <1>3, TypeCorrect, KeyingSafe, CallsStayApart, PTL DEF Spec

LEMMA WireStep ==
  ASSUME NEW d, Callers = {d}, TypeOK, KeyInv, CallsApart, WireInv, [Next]_vars
  PROVE  WireInv'
<1> SUFFICES ASSUME ~OnAir'
             PROVE  \/ Says(todo'[d], "wireMox", FALSE, FALSE)
                    \/ Lacks(todo'[d], "wireMox") /\ (Wired' => hw'["wireMox"] = FALSE)
  BY Zenon DEF WireInv, Unkeys
<1>1. hw["wireMox"] \in BOOLEAN /\ "wireMox" \in Lines /\ "wireMox" \in Words
  BY SMT DEF TypeOK, Lines, Words
<1>2. ~OnAir => \/ Says(todo[d], "wireMox", FALSE, FALSE)
                \/ Lacks(todo[d], "wireMox") /\ (Wired => hw["wireMox"] = FALSE)
  BY Zenon DEF WireInv, Unkeys
<1>3. CASE UNCHANGED vars \/ \E k \in Request : Enter(d, k) \/ Refuse(d, k)
  <2>1. UNCHANGED <<todo, hw, link>> /\ UNCHANGED flags
    BY <1>3, Zenon DEF vars, Enter, Refuse, outside
  <2>2. ~OnAir /\ Wired' = Wired
    BY <2>1 DEF OnAir, flags, Wired
  <2> QED
    BY <1>2, <2>1, <2>2
<1>4. CASE Lock(d)
  <2>1. todo[d] = << >> /\ hw' = hw /\ Wired' = Wired
    BY <1>4, LockReturns, Zenon DEF CallsApart, outside, Wired
  <2> DEFINE b == Wired /\ hw["wireMox"]
  <2>2. (OnAir \/ ~b) /\ b \in BOOLEAN
    <3>1. \A on, tun : ~Says(todo[d], "wireMox", on, tun)
      BY <2>1, SMT DEF Says
    <3>2. Wired \in BOOLEAN
      BY DEF Wired
    <3> QED
      BY <1>1, <1>2, <3>1, <3>2
  <2>3. Told(todo'[d], "wireMox", b, FALSE)
    <3> HIDE DEF b
    <3> QED
      BY <1>4, <2>2, LockTells
  <2> QED
    BY <1>1, <2>1, <2>3 DEF Told
<1>5. CASE Effect(d)
  <2>1. ~OnAir /\ Wired' = Wired
    BY <1>5, EffectPops DEF OnAir, flags, Wired
  <2>2. CASE Says(todo[d], "wireMox", FALSE, FALSE)
    BY <1>1, <1>5, <2>1, <2>2, EffectKeeps, Zenon
  <2>3. CASE Lacks(todo[d], "wireMox") /\ (Wired => hw["wireMox"] = FALSE)
    BY <1>1, <1>5, <2>1, <2>3, EffectKeeps, Zenon
  <2> QED
    BY <1>2, <2>1, <2>2, <2>3
<1>6. CASE LinkStep
  <2>1. todo' = todo /\ UNCHANGED flags
    BY <1>6, LinkFacts
  <2>2. ~OnAir
    BY <2>1 DEF OnAir, flags
  <2>3. Wired' /\ (Wired => hw["wireMox"] = FALSE) => hw'["wireMox"] = FALSE
    BY <1>1, <1>6, LinkLines
  <2> QED
    BY <1>2, <2>1, <2>2, <2>3
<1> QED
  BY <1>3, <1>4, <1>5, <1>6, Zenon DEF Next, Thread

\* A thread alone with the transmitter, two-tone tests and lost links included:
\* a carrier that is left standing is one that the watchdog times.
THEOREM WatchedWhenAlone ==
  ASSUME NEW d, Callers = {d}
  PROVE  Spec => []NoUnwatchedCarrier
<1>1. TypeOK /\ KeyInv /\ WireInv => NoUnwatchedCarrier
  <2> SUFFICES ASSUME TypeOK, KeyInv, WireInv, Quiet, Wired, hw["wireMox"]
               PROVE  moxStartedAt # "null" \/ tunStartedAt # "null"
    BY Zenon DEF NoUnwatchedCarrier
  <2>1. todo[d] = << >>
    BY Zenon DEF Quiet, Idle
  <2>2. \A on, tun : ~Says(todo[d], "wireMox", on, tun)
    BY <2>1, SMT DEF Says
  <2>3. moxOn \/ tunOn
    BY <2>2, Zenon DEF WireInv, Unkeys, OnAir
  <2> QED
    BY <2>3, Zenon DEF KeyInv, WatchdogArmed
<1>2. Init => WireInv
  <2> SUFFICES ASSUME Init, NEW c \in Callers
               PROVE  Unkeys(c)
    BY Zenon DEF WireInv
  <2>1. todo[c] = << >> /\ hw["wireMox"] = FALSE
    BY SMT DEF Init, Lines
  <2>2. Lacks(todo[c], "wireMox")
    BY <2>1, SMT DEF Lacks
  <2> QED
    BY <2>1, <2>2, Zenon DEF Unkeys
<1>3. TypeOK /\ KeyInv /\ CallsApart /\ WireInv /\ [Next]_vars => WireInv'
  BY WireStep
<1> QED
  BY <1>1, <1>2, <1>3, TypeCorrect, KeyingSafe, CallsStayApart, PTL DEF Spec

-----------------------------------------------------------------------------
\* Every key-down of the wire in s finds the engine keyed, if it reads e before.
Primed(s, e) ==
  \A i \in DOMAIN s : s[i].fx = "wireMox" /\ s[i].on =>
    \/ e /\ \A k \in DOMAIN s : k < i => s[k].fx # "engineMox"
    \/ \E j \in DOMAIN s : /\ j < i /\ s[j].fx = "engineMox" /\ s[j].on
                           /\ \A k \in DOMAIN s : j < k /\ k < i => s[k].fx # "engineMox"

\* s runs from an engine that reads e to one that reads f.
Runs(s, e, f) == Primed(s, e) /\ Told(s, "engineMox", e, f)

LEMMA RunOn ==
  ASSUME NEW S, NEW s \in Seq(S), NEW t \in Seq(S), NEW e \in BOOLEAN, NEW f \in BOOLEAN, NEW g \in BOOLEAN,
         Runs(s, e, f), Runs(t, f, g)
  PROVE  Runs(s \o t, e, g)
<1>1. Told(s \o t, "engineMox", e, g)
  BY Join, Zenon DEF Runs
<1>2. Primed(s \o t, e)
  <2> SUFFICES ASSUME NEW i \in DOMAIN (s \o t), (s \o t)[i].fx = "wireMox", (s \o t)[i].on
               PROVE  \/ e /\ \A k \in DOMAIN (s \o t) : k < i => (s \o t)[k].fx # "engineMox"
                      \/ \E j \in DOMAIN (s \o t) :
                           /\ j < i /\ (s \o t)[j].fx = "engineMox" /\ (s \o t)[j].on
                           /\ \A k \in DOMAIN (s \o t) : j < k /\ k < i => (s \o t)[k].fx # "engineMox"
    BY DEF Primed
  <2>1. CASE i \in DOMAIN s
    <3>1. \A k \in DOMAIN (s \o t) : k < i => k \in DOMAIN s /\ (s \o t)[k] = s[k]
      BY <2>1, SMT
    <3>2. s[i] = (s \o t)[i] /\ \A k \in DOMAIN s : k \in DOMAIN (s \o t) /\ (s \o t)[k] = s[k]
      BY <2>1, Indices
    <3>3. s[i].fx = "wireMox" /\ s[i].on
      BY <3>2
    <3>4. CASE e /\ \A k \in DOMAIN s : k < i => s[k].fx # "engineMox"
      BY <3>1, <3>4
    <3>5. ASSUME NEW j \in DOMAIN s, j < i, s[j].fx = "engineMox", s[j].on,
                 \A k \in DOMAIN s : j < k /\ k < i => s[k].fx # "engineMox"
          PROVE  \E m \in DOMAIN (s \o t) :
                           /\ m < i /\ (s \o t)[m].fx = "engineMox" /\ (s \o t)[m].on
                           /\ \A k \in DOMAIN (s \o t) : m < k /\ k < i => (s \o t)[k].fx # "engineMox"
      <4>1. /\ j \in DOMAIN (s \o t) /\ j < i /\ (s \o t)[j].fx = "engineMox" /\ (s \o t)[j].on
        BY <3>2, <3>5
      <4>2. \A k \in DOMAIN (s \o t) : j < k /\ k < i => (s \o t)[k].fx # "engineMox"
        BY <3>1, <3>5
      <4> QED
        BY <4>1, <4>2, Zenon
    <3> QED
      BY <2>1, <3>3, <3>4, <3>5, Zenon DEF Runs, Primed
  <2>2. CASE i \notin DOMAIN s
    <3> DEFINE n == i - Len(s)
    <3>1. n \in DOMAIN t /\ (s \o t)[i] = t[n] /\ Len(s) \in Nat /\ DOMAIN s = 1..Len(s)
      BY <2>2, SMT
    <3>2. \A k \in DOMAIN (s \o t) : k \notin DOMAIN s =>
            k - Len(s) \in DOMAIN t /\ (s \o t)[k] = t[k - Len(s)]
      BY SMT
    <3>3. \A k \in DOMAIN t : k + Len(s) \in DOMAIN (s \o t) /\ (s \o t)[k + Len(s)] = t[k]
      BY SMT
    <3>4. \A k \in DOMAIN s : k \in DOMAIN (s \o t) /\ (s \o t)[k] = s[k] /\ k < i /\ k \in Nat
      BY <2>2, SMT
    <3>5. DOMAIN t \subseteq Nat /\ DOMAIN (s \o t) \subseteq Nat /\ i \in Nat
      BY SMT
    <3>6. t[n].fx = "wireMox" /\ t[n].on
      BY <3>1
    <3>7. ASSUME NEW j \in DOMAIN t, j < n, t[j].fx = "engineMox", t[j].on,
                 \A k \in DOMAIN t : j < k /\ k < n => t[k].fx # "engineMox"
          PROVE  \E m \in DOMAIN (s \o t) :
                           /\ m < i /\ (s \o t)[m].fx = "engineMox" /\ (s \o t)[m].on
                           /\ \A k \in DOMAIN (s \o t) : m < k /\ k < i => (s \o t)[k].fx # "engineMox"
      <4> DEFINE m == j + Len(s)
      <4>1. m \in DOMAIN (s \o t) /\ (s \o t)[m].fx = "engineMox" /\ (s \o t)[m].on
        BY <3>3, <3>7
      <4>2. m < i
        BY <3>1, <3>5, <3>7, SMT
      <4>3. ASSUME NEW k \in DOMAIN (s \o t), m < k, k < i PROVE (s \o t)[k].fx # "engineMox"
        <5>1. k \notin DOMAIN s
          BY <3>1, <3>5, <4>3, SMT
        <5>2. k - Len(s) \in DOMAIN t /\ (s \o t)[k] = t[k - Len(s)]
          BY <3>2, <5>1
        <5>3. j < k - Len(s) /\ k - Len(s) < n
          BY <3>1, <3>5, <4>3, SMT
        <5> QED
          BY <3>7, <5>2, <5>3
      <4> HIDE DEF m
      <4> QED
        BY <4>1, <4>2, <4>3
    <3>8. ASSUME f, \A k \in DOMAIN t : k < n => t[k].fx # "engineMox"
          PROVE  \/ e /\ \A k \in DOMAIN (s \o t) : k < i => (s \o t)[k].fx # "engineMox"
                 \/ \E m \in DOMAIN (s \o t) :
                           /\ m < i /\ (s \o t)[m].fx = "engineMox" /\ (s \o t)[m].on
                           /\ \A k \in DOMAIN (s \o t) : m < k /\ k < i => (s \o t)[k].fx # "engineMox"
      <4>1. ASSUME NEW k \in DOMAIN (s \o t), k < i, k \notin DOMAIN s PROVE (s \o t)[k].fx # "engineMox"
        <5>1. k - Len(s) \in DOMAIN t /\ (s \o t)[k] = t[k - Len(s)]
          BY <3>2, <4>1
        <5>2. k - Len(s) < n
          BY <3>1, <3>5, <4>1, SMT
        <5> QED
          BY <3>8, <5>1, <5>2
      <4>2. CASE Lacks(s, "engineMox") /\ e = f
        <5>1. \A k \in DOMAIN (s \o t) : k < i => (s \o t)[k].fx # "engineMox"
          BY <3>4, <4>1, <4>2 DEF Lacks
        <5> QED
          BY <3>8, <4>2, <5>1
      <4>3. CASE Says(s, "engineMox", f, FALSE)
        <5>1. PICK j \in DOMAIN s : /\ s[j].fx = "engineMox" /\ s[j].on = f
                                    /\ \A k \in DOMAIN s : k > j => s[k].fx # "engineMox"
          BY <4>3, Zenon DEF Says
        <5>2. ASSUME NEW k \in DOMAIN (s \o t), j < k, k < i PROVE (s \o t)[k].fx # "engineMox"
          <6>1. CASE k \in DOMAIN s
            <7>1. k > j
              BY <3>4, <5>2, SMT
            <7> QED
              BY <3>4, <5>1, <6>1, <7>1
          <6> QED
            BY <4>1, <5>2, <6>1
        <5>3. j \in DOMAIN (s \o t) /\ j < i /\ (s \o t)[j].fx = "engineMox" /\ (s \o t)[j].on
          BY <3>4, <3>8, <5>1
        <5> QED
          BY <5>2, <5>3
      <4> QED
        BY <4>2, <4>3 DEF Runs, Told
    <3> HIDE DEF n
    <3> QED
      BY <3>1, <3>6, <3>7, <3>8, Zenon DEF Runs, Primed
  <2> QED
    BY <2>1, <2>2
<1> QED
  BY <1>1, <1>2 DEF Runs

LEMMA QuietRuns ==
  ASSUME NEW s, NEW e, Lacks(s, "wireMox"), Lacks(s, "engineMox")
  PROVE  Runs(s, e, e)
BY Zenon DEF Runs, Primed, Told, Lacks

LEMMA PieceRuns ==
  ASSUME NEW on \in BOOLEAN, NEW tun \in BOOLEAN, NEW e \in BOOLEAN
  PROVE  /\ Runs(PipelineSetMox(on), e, on)
         /\ (on => e) => Runs(RadioSetMox(on), e, e)
         /\ Runs(PipelineSetTxTune(on), e, e) /\ Runs(NotifyTunActive(on), e, e)
         /\ Runs(Show(on, tun), e, e) /\ Runs(<<Fx("raise", on)>>, e, e) /\ Runs(<< >>, e, e)
<1>1. "wireMox" \in Lines \cup {"raise", "show"} /\ "engineMox" \in Lines \cup {"raise", "show"}
  BY SMT DEF Lines
<1>2. /\ "wireMox" # "engineMox" /\ "wireMox" # "engineTune" /\ "wireMox" # "tuneDrive" /\ "wireMox" # "show"
      /\ "wireMox" # "raise" /\ "wireMox" # "radioMox"
      /\ "engineMox" # "engineTune" /\ "engineMox" # "tuneDrive" /\ "engineMox" # "show"
      /\ "engineMox" # "raise" /\ "engineMox" \notin {"radioMox", "wireMox"}
  BY SMT
<1>3. ASSUME NEW x \in {"wireMox", "engineMox"}
      PROVE  /\ Lacks(PipelineSetTxTune(on), x) /\ Lacks(NotifyTunActive(on), x) /\ Lacks(Show(on, tun), x)
             /\ Lacks(<<Fx("raise", on)>>, x) /\ Lacks(<< >>, x)
  <2>1. x \in Lines \cup {"raise", "show"}
    BY <1>1
  <2>2. x # "engineTune" /\ x # "tuneDrive" /\ x # "show" /\ x # "raise"
    BY <1>2
  <2> QED
    BY <2>1, <2>2, Pieces
<1>4. /\ Runs(PipelineSetTxTune(on), e, e) /\ Runs(NotifyTunActive(on), e, e)
      /\ Runs(Show(on, tun), e, e) /\ Runs(<<Fx("raise", on)>>, e, e) /\ Runs(<< >>, e, e)
  BY <1>3, QuietRuns
<1>5. Runs(PipelineSetMox(on), e, on)
  <2>1. Lacks(PipelineSetMox(on), "wireMox") /\ Says(PipelineSetMox(on), "engineMox", on, FALSE)
    BY <1>1, <1>2, Pieces
  <2> QED
    BY <2>1, Zenon DEF Runs, Primed, Told, Lacks
<1>6. ASSUME on => e PROVE Runs(RadioSetMox(on), e, e)
  <2>1. Lacks(RadioSetMox(on), "engineMox")
    BY <1>1, <1>2, Pieces
  <2>2. RadioSetMox(on)[1].fx = "radioMox" /\ RadioSetMox(on)[2].on = on /\ DOMAIN RadioSetMox(on) = {1, 2}
    BY SMT DEF RadioSetMox, Fx
  <2>3. Primed(RadioSetMox(on), e)
    BY <1>2, <1>6, <2>1, <2>2, Zenon DEF Primed, Lacks
  <2> QED
    BY <2>1, <2>3, Zenon DEF Runs, Told
<1> QED
  BY <1>4, <1>5, <1>6

LEMMA WhenRuns ==
  ASSUME NEW p \in BOOLEAN, NEW s, NEW e \in BOOLEAN, NEW f \in BOOLEAN, Runs(s, e, f)
  PROVE  Runs(When(p, s), e, IF p THEN f ELSE e)
<1>1. Runs(<< >>, e, e)
  BY PieceRuns
<1> QED
  BY <1>1, Zenon DEF When

LEMMA RaiseRuns ==
  ASSUME TypeOK, NEW active \in BOOLEAN, NEW e \in BOOLEAN
  PROVE  Runs(Raise(active), e, e)
<1>1. Runs(<<Fx("raise", active)>>, e, e) /\ (active # lastFired) \in BOOLEAN
  BY PieceRuns
<1>2. Runs(When(active # lastFired, <<Fx("raise", active)>>), e, IF active # lastFired THEN e ELSE e)
  BY <1>1, WhenRuns, Zenon
<1> QED
  BY <1>2, Zenon DEF Raise

\* The latch and the generator of the two-tone test touch neither line.
LEMMA TestRuns ==
  ASSUME NEW on \in BOOLEAN, NEW e \in BOOLEAN
  PROVE  /\ Runs(<<Fx("twoTone", on)>>, e, e) /\ Runs(<<Fx("generator", on)>>, e, e)
         /\ Runs(<<Fx("generator", on), Fx("twoTone", on)>>, e, e)
<1> DEFINE s == <<Fx("generator", on)>>
           t == <<Fx("twoTone", on)>>
<1>1. "generator" \in Lines \cup {"raise"} /\ "twoTone" \in Lines \cup {"raise"}
  BY SMT DEF Lines
<1>2. /\ "wireMox" # "generator" /\ "wireMox" # "twoTone"
      /\ "engineMox" # "generator" /\ "engineMox" # "twoTone"
  BY SMT
<1>3. /\ s \in Seq(Effects) /\ t \in Seq(Effects)
      /\ Lacks(s, "wireMox") /\ Lacks(t, "wireMox") /\ Lacks(s, "engineMox") /\ Lacks(t, "engineMox")
  BY <1>1, <1>2, OneFx, Zenon
<1>4. Fx("generator", on) \in Effects /\ Fx("twoTone", on) \in Effects
  BY SMT DEF Fx, Effects, Lines
<1>5. <<Fx("generator", on), Fx("twoTone", on)>> = s \o t
  BY <1>4, Pair
<1> HIDE DEF s, t
<1>6. Runs(s, e, e) /\ Runs(t, e, e)
  BY <1>3, QuietRuns
<1>7. Runs(s \o t, e, e)
  BY <1>3, <1>6, RunOn
<1> QED
  BY <1>5, <1>6, <1>7 DEF s, t

\* Every list of effects keys the engine before the wire.
LEMMA ListsPrimed ==
  ASSUME TypeOK, KeyInv, NEW on \in BOOLEAN, NEW e \in BOOLEAN
  PROVE  /\ Primed(MoxEffects(on), e) /\ Primed(TunEffects(on), e) /\ Primed(TripEffects, e)
         /\ Primed(TwoToneOnEffects, e) /\ Primed(TwoToneOffEffects, e)
<1>1. /\ moxOn \in BOOLEAN /\ tunOn \in BOOLEAN
      /\ (tunOn /\ on) \in BOOLEAN /\ (moxOn /\ on) \in BOOLEAN /\ (moxOn \/ tunOn) \in BOOLEAN
      /\ (on \/ tunOn) \in BOOLEAN /\ (on \/ moxOn) \in BOOLEAN
  BY FlagTypes
<1>2. ASSUME NEW b \in BOOLEAN, NEW f \in BOOLEAN
      PROVE  /\ Runs(PipelineSetMox(b), f, b) /\ PipelineSetMox(b) \in Seq(Effects)
             /\ Runs(RadioSetMox(b), b, b) /\ RadioSetMox(b) \in Seq(Effects)
             /\ Runs(RadioSetMox(FALSE), f, f)
             /\ Runs(PipelineSetTxTune(b), f, f) /\ PipelineSetTxTune(b) \in Seq(Effects)
             /\ Runs(NotifyTunActive(b), f, f) /\ NotifyTunActive(b) \in Seq(Effects)
             /\ Runs(Raise(b), f, f) /\ Raise(b) \in Seq(Effects)
  <2>1. /\ Runs(PipelineSetMox(b), f, b) /\ Runs(RadioSetMox(b), b, b) /\ Runs(RadioSetMox(FALSE), f, f)
        /\ Runs(PipelineSetTxTune(b), f, f) /\ Runs(NotifyTunActive(b), f, f)
    BY PieceRuns
  <2> QED
    BY <2>1, FxType, RaiseRuns, RaiseType
<1>3. ASSUME NEW b \in BOOLEAN, NEW d \in BOOLEAN, NEW f \in BOOLEAN
      PROVE  Runs(Show(b, d), f, f) /\ Show(b, d) \in Seq(Effects)
  BY PieceRuns, FxType
<1>4. Primed(MoxEffects(on), e)
  <2> DEFINE p1 == Raise(on \/ tunOn)
             p2 == When(tunOn /\ on, PipelineSetTxTune(FALSE))
             p3 == PipelineSetMox(on)
             p4 == RadioSetMox(on)
             p5 == NotifyTunActive(FALSE)
             p6 == Show(on, FALSE)
  <2>1. /\ p1 \in Seq(Effects) /\ p3 \in Seq(Effects) /\ p4 \in Seq(Effects)
        /\ p5 \in Seq(Effects) /\ p6 \in Seq(Effects)
        /\ Runs(p1, e, e) /\ Runs(p3, e, on) /\ Runs(p4, on, on) /\ Runs(p5, on, on) /\ Runs(p6, on, on)
    BY <1>1, <1>2, <1>3
  <2>2. p2 \in Seq(Effects) /\ Runs(p2, e, e)
    <3>1. Runs(p2, e, IF tunOn /\ on THEN e ELSE e)
      BY <1>1, <1>2, WhenRuns
    <3> QED
      BY <1>1, <1>2, <3>1, WhenSeq
  <2>3. MoxEffects(on) = p1 \o p2 \o p3 \o p4 \o p5 \o p6
    BY DEF MoxEffects
  <2> HIDE DEF p1, p2, p3, p4, p5, p6
  <2>4. p1 \o p2 \in Seq(Effects) /\ Runs(p1 \o p2, e, e)
    BY <2>1, <2>2, RunOn, ConcatSeq
  <2>5. p1 \o p2 \o p3 \in Seq(Effects) /\ Runs(p1 \o p2 \o p3, e, on)
    BY <2>1, <2>4, RunOn, ConcatSeq
  <2>6. p1 \o p2 \o p3 \o p4 \in Seq(Effects) /\ Runs(p1 \o p2 \o p3 \o p4, e, on)
    BY <2>1, <2>5, RunOn, ConcatSeq
  <2>7. p1 \o p2 \o p3 \o p4 \o p5 \in Seq(Effects) /\ Runs(p1 \o p2 \o p3 \o p4 \o p5, e, on)
    BY <2>1, <2>6, RunOn, ConcatSeq
  <2>8. Runs(p1 \o p2 \o p3 \o p4 \o p5 \o p6, e, on)
    BY <2>1, <2>7, RunOn
  <2> QED
    BY <2>3, <2>8 DEF Runs
<1>5. Primed(TunEffects(on), e)
  <2> DEFINE drop == PipelineSetMox(FALSE) \o RadioSetMox(FALSE)
             f == IF moxOn /\ on THEN FALSE ELSE e
             p1 == Raise(on \/ moxOn)
             p2 == When(moxOn /\ on, drop)
             p3 == PipelineSetMox(on)
             p4 == RadioSetMox(on)
             p5 == PipelineSetTxTune(on)
             p6 == NotifyTunActive(on)
             p7 == Show(FALSE, on)
  <2>1. /\ p1 \in Seq(Effects) /\ p3 \in Seq(Effects) /\ p4 \in Seq(Effects)
        /\ p5 \in Seq(Effects) /\ p6 \in Seq(Effects) /\ p7 \in Seq(Effects)
        /\ Runs(p1, e, e) /\ Runs(p3, f, on) /\ Runs(p4, on, on) /\ Runs(p5, on, on) /\ Runs(p6, on, on)
        /\ Runs(p7, on, on) /\ f \in BOOLEAN
    BY <1>1, <1>2, <1>3
  <2>2. p2 \in Seq(Effects) /\ Runs(p2, e, f)
    <3>1. /\ PipelineSetMox(FALSE) \in Seq(Effects) /\ RadioSetMox(FALSE) \in Seq(Effects)
          /\ Runs(PipelineSetMox(FALSE), e, FALSE) /\ Runs(RadioSetMox(FALSE), FALSE, FALSE)
      BY <1>2
    <3>2. drop \in Seq(Effects) /\ Runs(drop, e, FALSE)
      BY <3>1, RunOn, ConcatSeq
    <3> HIDE DEF drop
    <3> QED
      BY <1>1, <3>2, WhenRuns, WhenSeq
  <2>3. TunEffects(on) = p1 \o p2 \o p3 \o p4 \o p5 \o p6 \o p7
    BY DEF TunEffects
  <2> HIDE DEF p1, p2, p3, p4, p5, p6, p7, f
  <2>4. p1 \o p2 \in Seq(Effects) /\ Runs(p1 \o p2, e, f)
    BY <2>1, <2>2, RunOn, ConcatSeq
  <2>5. p1 \o p2 \o p3 \in Seq(Effects) /\ Runs(p1 \o p2 \o p3, e, on)
    BY <2>1, <2>4, RunOn, ConcatSeq
  <2>6. p1 \o p2 \o p3 \o p4 \in Seq(Effects) /\ Runs(p1 \o p2 \o p3 \o p4, e, on)
    BY <2>1, <2>5, RunOn, ConcatSeq
  <2>7. p1 \o p2 \o p3 \o p4 \o p5 \in Seq(Effects) /\ Runs(p1 \o p2 \o p3 \o p4 \o p5, e, on)
    BY <2>1, <2>6, RunOn, ConcatSeq
  <2>8. p1 \o p2 \o p3 \o p4 \o p5 \o p6 \in Seq(Effects) /\ Runs(p1 \o p2 \o p3 \o p4 \o p5 \o p6, e, on)
    BY <2>1, <2>7, RunOn, ConcatSeq
  <2>9. Runs(p1 \o p2 \o p3 \o p4 \o p5 \o p6 \o p7, e, on)
    BY <2>1, <2>8, RunOn
  <2> QED
    BY <2>3, <2>9 DEF Runs
<1>6. Primed(TripEffects, e)
  <2> DEFINE p1 == PipelineSetMox(FALSE)
             p2 == RadioSetMox(FALSE)
             p3 == When(tunOn, PipelineSetTxTune(FALSE))
             p4 == NotifyTunActive(FALSE)
             p5 == Show(FALSE, FALSE)
             p6 == Raise(FALSE)
             f == IF moxOn \/ tunOn THEN FALSE ELSE e
  <2>1. /\ p1 \in Seq(Effects) /\ p2 \in Seq(Effects) /\ p4 \in Seq(Effects)
        /\ p5 \in Seq(Effects) /\ p6 \in Seq(Effects)
        /\ Runs(p1, e, FALSE) /\ Runs(p2, FALSE, FALSE) /\ Runs(p4, FALSE, FALSE) /\ Runs(p5, FALSE, FALSE)
        /\ Runs(p6, f, f) /\ f \in BOOLEAN
    BY <1>1, <1>2, <1>3
  <2>2. p3 \in Seq(Effects) /\ Runs(p3, FALSE, FALSE)
    <3>1. Runs(p3, FALSE, IF tunOn THEN FALSE ELSE FALSE)
      BY <1>1, <1>2, WhenRuns
    <3> QED
      BY <1>1, <1>2, <3>1, WhenSeq
  <2>3. TripEffects = When(moxOn \/ tunOn, p1 \o p2 \o p3 \o p4 \o p5) \o p6
    BY DEF TripEffects
  <2> HIDE DEF p1, p2, p3, p4, p5, p6
  <2>4. p1 \o p2 \in Seq(Effects) /\ Runs(p1 \o p2, e, FALSE)
    BY <2>1, RunOn, ConcatSeq
  <2>5. p1 \o p2 \o p3 \in Seq(Effects) /\ Runs(p1 \o p2 \o p3, e, FALSE)
    BY <2>2, <2>4, RunOn, ConcatSeq
  <2>6. p1 \o p2 \o p3 \o p4 \in Seq(Effects) /\ Runs(p1 \o p2 \o p3 \o p4, e, FALSE)
    BY <2>1, <2>5, RunOn, ConcatSeq
  <2>7. p1 \o p2 \o p3 \o p4 \o p5 \in Seq(Effects) /\ Runs(p1 \o p2 \o p3 \o p4 \o p5, e, FALSE)
    BY <2>1, <2>6, RunOn, ConcatSeq
  <2> DEFINE w == When(moxOn \/ tunOn, p1 \o p2 \o p3 \o p4 \o p5)
  <2>8. w \in Seq(Effects) /\ Runs(w, e, f)
    BY <1>1, <2>7, WhenRuns, WhenSeq
  <2> HIDE DEF w, f
  <2>9. Runs(w \o p6, e, f)
    BY <2>1, <2>8, RunOn
  <2> QED
    BY <2>3, <2>9 DEF Runs, w
<1>7. Primed(TwoToneOnEffects, e)
  <2> DEFINE p1 == Raise(TRUE)
             p2 == When(tunOn, PipelineSetTxTune(FALSE))
             p3 == <<Fx("generator", TRUE), Fx("twoTone", TRUE)>>
             p4 == PipelineSetMox(TRUE)
             p5 == RadioSetMox(TRUE)
             p6 == NotifyTunActive(FALSE)
             p7 == Show(TRUE, FALSE)
  <2>1. /\ p1 \in Seq(Effects) /\ p3 \in Seq(Effects) /\ p4 \in Seq(Effects)
        /\ p5 \in Seq(Effects) /\ p6 \in Seq(Effects) /\ p7 \in Seq(Effects)
        /\ Runs(p1, e, e) /\ Runs(p3, e, e) /\ Runs(p4, e, TRUE) /\ Runs(p5, TRUE, TRUE)
        /\ Runs(p6, TRUE, TRUE) /\ Runs(p7, TRUE, TRUE)
    BY <1>2, <1>3, TestRuns, FxType
  <2>2. p2 \in Seq(Effects) /\ Runs(p2, e, e)
    <3>1. Runs(p2, e, IF tunOn THEN e ELSE e)
      BY <1>1, <1>2, WhenRuns
    <3> QED
      BY <1>1, <1>2, <3>1, WhenSeq
  <2>3. TwoToneOnEffects = p1 \o p2 \o p3 \o p4 \o p5 \o p6 \o p7
    BY DEF TwoToneOnEffects
  <2> HIDE DEF p1, p2, p3, p4, p5, p6, p7
  <2>4. p1 \o p2 \in Seq(Effects) /\ Runs(p1 \o p2, e, e)
    BY <2>1, <2>2, RunOn, ConcatSeq
  <2>5. p1 \o p2 \o p3 \in Seq(Effects) /\ Runs(p1 \o p2 \o p3, e, e)
    BY <2>1, <2>4, RunOn, ConcatSeq
  <2>6. p1 \o p2 \o p3 \o p4 \in Seq(Effects) /\ Runs(p1 \o p2 \o p3 \o p4, e, TRUE)
    BY <2>1, <2>5, RunOn, ConcatSeq
  <2>7. p1 \o p2 \o p3 \o p4 \o p5 \in Seq(Effects) /\ Runs(p1 \o p2 \o p3 \o p4 \o p5, e, TRUE)
    BY <2>1, <2>6, RunOn, ConcatSeq
  <2>8. p1 \o p2 \o p3 \o p4 \o p5 \o p6 \in Seq(Effects) /\ Runs(p1 \o p2 \o p3 \o p4 \o p5 \o p6, e, TRUE)
    BY <2>1, <2>7, RunOn, ConcatSeq
  <2>9. Runs(p1 \o p2 \o p3 \o p4 \o p5 \o p6 \o p7, e, TRUE)
    BY <2>1, <2>8, RunOn
  <2> QED
    BY <2>3, <2>9 DEF Runs
<1>8. Primed(TwoToneOffEffects, e)
  <2> DEFINE p1 == Raise(tunOn)
             p2 == <<Fx("twoTone", FALSE)>>
             p3 == PipelineSetMox(FALSE)
             p4 == RadioSetMox(FALSE)
             p5 == <<Fx("generator", FALSE)>>
             p6 == Show(FALSE, FALSE)
  <2>1. /\ p1 \in Seq(Effects) /\ p2 \in Seq(Effects) /\ p3 \in Seq(Effects) /\ p4 \in Seq(Effects)
        /\ p5 \in Seq(Effects) /\ p6 \in Seq(Effects)
        /\ Runs(p1, e, e) /\ Runs(p2, e, e) /\ Runs(p3, e, FALSE) /\ Runs(p4, FALSE, FALSE)
        /\ Runs(p5, FALSE, FALSE) /\ Runs(p6, FALSE, FALSE)
    BY <1>1, <1>2, <1>3, TestRuns, FxType
  <2>2. TwoToneOffEffects = p1 \o p2 \o p3 \o p4 \o p5 \o p6
    BY DEF TwoToneOffEffects
  <2> HIDE DEF p1, p2, p3, p4, p5, p6
  <2>3. p1 \o p2 \in Seq(Effects) /\ Runs(p1 \o p2, e, e)
    BY <2>1, RunOn, ConcatSeq
  <2>4. p1 \o p2 \o p3 \in Seq(Effects) /\ Runs(p1 \o p2 \o p3, e, FALSE)
    BY <2>1, <2>3, RunOn, ConcatSeq
  <2>5. p1 \o p2 \o p3 \o p4 \in Seq(Effects) /\ Runs(p1 \o p2 \o p3 \o p4, e, FALSE)
    BY <2>1, <2>4, RunOn, ConcatSeq
  <2>6. p1 \o p2 \o p3 \o p4 \o p5 \in Seq(Effects) /\ Runs(p1 \o p2 \o p3 \o p4 \o p5, e, FALSE)
    BY <2>1, <2>5, RunOn, ConcatSeq
  <2>7. Runs(p1 \o p2 \o p3 \o p4 \o p5 \o p6, e, FALSE)
    BY <2>1, <2>6, RunOn
  <2> QED
    BY <2>2, <2>7 DEF Runs
<1> QED
  BY <1>4, <1>5, <1>6, <1>7, <1>8

\* The list that a critical section leaves is primed.
LEMMA LockPrimes ==
  ASSUME TypeOK, KeyInv, NEW c \in Callers, Lock(c), NEW e \in BOOLEAN
  PROVE  Primed(todo'[c], e)
<1>1. ASSUME NEW r, NEW f, Return(c, r, f) PROVE todo'[c] = f
  BY <1>1, Zenon DEF Return, TypeOK
<1>2. Primed(<< >>, e)
  BY PieceRuns DEF Runs
<1>3. todo'[c] \in {<< >>, MoxEffects(TRUE), MoxEffects(FALSE), TunEffects(TRUE), TunEffects(FALSE), TripEffects,
                    TwoToneOnEffects, TwoToneOffEffects}
  BY <1>1, Zenon DEF Lock, MoxNoOp, MoxForeign, MoxKey, MoxUnkey, TunNoOp, TunKey, TunUnkey, TwoToneArm,
     TwoToneDisarm, Trip
<1> QED
  BY <1>2, <1>3, ListsPrimed, Zenon

\* The rest of a primed list is primed by what its head has done.
LEMMA PrimedRest ==
  ASSUME NEW S, NEW s \in Seq(S), s # << >>, NEW e \in BOOLEAN, Primed(s, e)
  PROVE  /\ Head(s).fx = "wireMox" /\ Head(s).on => e
         /\ Head(s).fx = "engineMox" /\ Head(s).on \in BOOLEAN => Primed(Tail(s), Head(s).on)
         /\ Head(s).fx # "engineMox" => Primed(Tail(s), e)
<1>1. /\ Head(s) = s[1] /\ 1 \in DOMAIN s
      /\ \A i \in DOMAIN Tail(s) : i + 1 \in DOMAIN s /\ Tail(s)[i] = s[i + 1]
      /\ \A i \in DOMAIN s : i = 1 \/ (i - 1 \in DOMAIN Tail(s) /\ Tail(s)[i - 1] = s[i])
      /\ DOMAIN s \subseteq Nat \ {0} /\ DOMAIN Tail(s) \subseteq Nat \ {0}
  BY SMT
<1>2. ASSUME Head(s).fx = "wireMox", Head(s).on PROVE e
  <2>1. ~\E j \in DOMAIN s : j < 1
    BY <1>1, SMT
  <2> QED
    BY <1>1, <1>2, <2>1, Zenon DEF Primed
<1>3. ASSUME NEW f \in BOOLEAN, Head(s).fx = "engineMox" => Head(s).on = f, Head(s).fx # "engineMox" => f = e
      PROVE  Primed(Tail(s), f)
  <2> SUFFICES ASSUME NEW i \in DOMAIN Tail(s), Tail(s)[i].fx = "wireMox", Tail(s)[i].on
               PROVE  \/ f /\ \A k \in DOMAIN Tail(s) : k < i => Tail(s)[k].fx # "engineMox"
                      \/ \E j \in DOMAIN Tail(s) :
                           /\ j < i /\ Tail(s)[j].fx = "engineMox" /\ Tail(s)[j].on
                           /\ \A k \in DOMAIN Tail(s) : j < k /\ k < i => Tail(s)[k].fx # "engineMox"
    BY Zenon DEF Primed
  <2>1. i + 1 \in DOMAIN s /\ s[i + 1].fx = "wireMox" /\ s[i + 1].on /\ i \in Nat
    BY <1>1
  <2>2. \/ e /\ \A k \in DOMAIN s : k < i + 1 => s[k].fx # "engineMox"
        \/ \E j \in DOMAIN s : /\ j < i + 1 /\ s[j].fx = "engineMox" /\ s[j].on
                               /\ \A k \in DOMAIN s : j < k /\ k < i + 1 => s[k].fx # "engineMox"
    BY <2>1, Zenon DEF Primed
  <2>3. CASE e /\ \A k \in DOMAIN s : k < i + 1 => s[k].fx # "engineMox"
    <3>1. ASSUME NEW k \in DOMAIN Tail(s), k < i PROVE Tail(s)[k].fx # "engineMox"
      <4>1. k + 1 \in DOMAIN s /\ Tail(s)[k] = s[k + 1] /\ k + 1 < i + 1
        BY <1>1, <2>1, <3>1, SMT
      <4> QED
        BY <2>3, <4>1
    <3>2. 1 < i + 1
      BY <1>1, SMT
    <3>3. f
      BY <1>1, <1>3, <2>3, <3>2
    <3> QED
      BY <3>1, <3>3
  <2>4. ASSUME NEW j \in DOMAIN s, j < i + 1, s[j].fx = "engineMox", s[j].on,
               \A k \in DOMAIN s : j < k /\ k < i + 1 => s[k].fx # "engineMox"
        PROVE  \/ f /\ \A k \in DOMAIN Tail(s) : k < i => Tail(s)[k].fx # "engineMox"
               \/ \E m \in DOMAIN Tail(s) :
                           /\ m < i /\ Tail(s)[m].fx = "engineMox" /\ Tail(s)[m].on
                           /\ \A k \in DOMAIN Tail(s) : m < k /\ k < i => Tail(s)[k].fx # "engineMox"
    <3>1. ASSUME NEW k \in DOMAIN Tail(s), j < k + 1, k < i PROVE Tail(s)[k].fx # "engineMox"
      <4>1. k + 1 \in DOMAIN s /\ Tail(s)[k] = s[k + 1] /\ k + 1 < i + 1
        BY <1>1, <2>1, <3>1, SMT
      <4> QED
        BY <2>4, <3>1, <4>1
    <3>2. CASE j = 1
      <4>1. f
        BY <1>1, <1>3, <2>4, <3>2
      <4>2. \A k \in DOMAIN Tail(s) : j < k + 1
        BY <1>1, <3>2, SMT
      <4> QED
        BY <3>1, <4>1, <4>2
    <3>3. CASE j # 1
      <4>1. j - 1 \in DOMAIN Tail(s) /\ Tail(s)[j - 1] = s[j] /\ j - 1 < i
        BY <1>1, <2>1, <2>4, <3>3, SMT
      <4>2. \A k \in DOMAIN Tail(s) : j - 1 < k => j < k + 1
        BY <1>1, SMT
      <4>3. \A k \in DOMAIN Tail(s) : j - 1 < k /\ k < i => Tail(s)[k].fx # "engineMox"
        BY <3>1, <4>2
      <4> QED
        BY <2>4, <4>1, <4>3, Zenon
    <3> QED
      BY <3>2, <3>3
  <2> QED
    BY <2>2, <2>3, <2>4
<1> QED
  BY <1>2, <1>3

PrimedInv == torn # {} \/ \A d \in Callers : Primed(todo[d], hw["engineMox"])

LEMMA EffectPrimes ==
  ASSUME TypeOK, NEW c \in Callers, Effect(c), Primed(todo[c], hw["engineMox"])
  PROVE  /\ Primed(todo'[c], hw'["engineMox"])
         /\ ~hw["wireMox"] /\ hw'["wireMox"] => hw["engineMox"]
<1> DEFINE e == Head(todo[c])
<1>1. /\ todo[c] \in Seq(Effects) /\ todo[c] # << >> /\ todo'[c] = Tail(todo[c])
  BY EffectPops
<1>2. e \in Effects /\ e.on \in BOOLEAN
  <2>1. e \in Effects
    BY <1>1
  <2> QED
    BY <2>1 DEF Effects
<1>3. \/ e.fx \in Lines /\ hw' = IF e.fx = "wireMox" /\ ~Wired THEN hw ELSE [hw EXCEPT ![e.fx] = e.on]
      \/ hw' = hw /\ e.fx \in {"raise", "show"}
  BY Zenon DEF Effect, Drive, RaiseTxActiveChanged, BroadcastMoxState, Next1
<1>4. hw \in [Lines -> BOOLEAN] /\ "engineMox" \in Lines /\ "wireMox" \in Lines /\ "engineMox" # "wireMox"
      /\ "engineMox" \notin {"raise", "show"}
  BY SMT DEF TypeOK, Lines
<1> DEFINE s == todo[c]
           b == hw["engineMox"]
<1>5. /\ Head(s).fx = "wireMox" /\ Head(s).on => b
      /\ Head(s).fx = "engineMox" /\ Head(s).on \in BOOLEAN => Primed(Tail(s), Head(s).on)
      /\ Head(s).fx # "engineMox" => Primed(Tail(s), b)
  <2>1. s \in Seq(Effects) /\ s # << >> /\ b \in BOOLEAN /\ Primed(s, b)
    BY <1>1, <1>4
  <2> HIDE DEF s, b
  <2> QED
    BY <2>1, PrimedRest
<1>6. /\ e.fx = "engineMox" => hw'["engineMox"] = e.on
      /\ e.fx # "engineMox" => hw'["engineMox"] = hw["engineMox"]
      /\ e.fx # "wireMox" => hw'["wireMox"] = hw["wireMox"]
      /\ e.fx = "wireMox" => hw'["wireMox"] \in {e.on, hw["wireMox"]}
  <2> HIDE DEF e
  <2> QED
    BY <1>2, <1>3, <1>4, SMT
<1> HIDE DEF e, s
<1>8. e = Head(s)
  BY DEF e, s
<1>9. CASE e.fx = "engineMox"
  BY <1>1, <1>2, <1>4, <1>5, <1>6, <1>8, <1>9 DEF s
<1>10. CASE e.fx # "engineMox"
  BY <1>1, <1>2, <1>4, <1>5, <1>6, <1>8, <1>10 DEF s
<1> QED
  BY <1>9, <1>10

LEMMA PrimedStep ==
  ASSUME NEW d, Callers = {d}, TypeOK, KeyInv, PrimedInv, [Next]_vars
  PROVE  /\ PrimedInv'
         /\ torn = {} /\ ~hw["wireMox"] /\ hw'["wireMox"] => hw["engineMox"]
<1>1. CASE UNCHANGED vars \/ \E k \in Request : Enter(d, k) \/ Refuse(d, k)
  <2>1. UNCHANGED <<todo, hw, torn>>
    BY <1>1, Zenon DEF vars, Enter, Refuse, outside, history
  <2> QED
    BY <2>1, Zenon DEF PrimedInv
<1>2. CASE Lock(d)
  <2>1. hw' = hw
    BY <1>2, LockReturns, Zenon DEF outside
  <2>2. hw["engineMox"] \in BOOLEAN
    BY SMT DEF TypeOK, Lines
  <2>3. Primed(todo'[d], hw["engineMox"])
    BY <1>2, <2>2, LockPrimes
  <2> QED
    BY <2>1, <2>3, Zenon DEF PrimedInv
<1>3. CASE Effect(d)
  <2>1. torn' = torn
    BY <1>3, EffectPops DEF history
  <2>2. torn = {} => Primed(todo[d], hw["engineMox"])
    BY Zenon DEF PrimedInv
  <2>3. torn = {} => /\ Primed(todo'[d], hw'["engineMox"])
                     /\ ~hw["wireMox"] /\ hw'["wireMox"] => hw["engineMox"]
    BY <1>3, <2>2, EffectPrimes
  <2> QED
    BY <2>1, <2>3, Zenon DEF PrimedInv
<1>4. CASE LinkStep
  <2>1. todo' = todo /\ torn' = {c \in Callers : todo[c] # << >>}
    BY <1>4, LinkFacts
  <2>2. torn' = {} => todo'[d] = << >>
    BY <2>1
  <2>3. hw'["wireMox"] => hw["wireMox"]
    <3>1. "wireMox" \in Lines
      BY DEF Lines
    <3> QED
      BY <1>4, <3>1, LinkLines
  <2>4. \A e : Primed(<< >>, e)
    BY SMT DEF Primed
  <2> QED
    BY <2>2, <2>3, <2>4, Zenon DEF PrimedInv
<1> QED
  BY <1>1, <1>2, <1>3, <1>4, Zenon DEF Next, Thread

\* A thread alone with the transmitter, two-tone tests and reconnects included:
\* unless the link moves under the call that keys it, the wire is keyed only over
\* an engine that has muted the receiver and started the transmit chain.
THEOREM EngineFirstWhenAlone ==
  ASSUME NEW d, Callers = {d}
  PROVE  Spec => EngineBeforeWire
<1>1. Init => PrimedInv
  <2> SUFFICES ASSUME Init, NEW c \in Callers
               PROVE  Primed(todo[c], hw["engineMox"])
    BY Zenon DEF PrimedInv
  <2>1. todo[c] = << >>
    BY DEF Init
  <2> QED
    BY <2>1, SMT DEF Primed
<1>2. /\ TypeOK /\ KeyInv /\ PrimedInv /\ [Next]_vars => PrimedInv'
      /\ TypeOK /\ KeyInv /\ PrimedInv /\ [Next]_vars
           => [torn = {} /\ ~hw["wireMox"] /\ hw'["wireMox"] => hw["engineMox"]]_vars
  BY PrimedStep
<1> QED
  BY <1>1, <1>2, TypeCorrect, KeyingSafe, PTL DEF Spec, EngineBeforeWire
=============================================================================
