-------------------------- MODULE ExternalPttProofs --------------------------
(***************************************************************************)
(* Hardware PTT for every set of callers, operations and sources of        *)
(* TxService: it uses TxService as TxKeying specifies it, its hang timer   *)
(* takes down nobody else's MOX, and as the only user of the transmitter   *)
(* its claim is the carrier.                                               *)
(***************************************************************************)
EXTENDS ExternalPtt, TxKeyingProofs

-----------------------------------------------------------------------------
(* The service uses TxService as TxKeying specifies it.                    *)

LEMMA HardwareRequests == ASSUME NEW on \in BOOLEAN PROVE HardwareMox(on) \in Request
BY ThreadsAssumption, OpsAssumption, SMT DEF HardwareMox, Request, Calls, AllOps

LEMMA Threads ==
  /\ RxThread \in Callers /\ HangThread \in Callers /\ RxThread # HangThread
  /\ RxThread \notin Others /\ HangThread \notin Others /\ Others \subseteq Callers
  /\ \A c \in Callers : c = RxThread \/ c = HangThread \/ c \in Others
BY ThreadsAssumption, Zenon DEF Others

\* The steps of the service outside TxService.
Own ==
  \/ Rising \/ Falling \/ Unheard \/ HangFires
  \/ Gate \/ Claim \/ Keyed \/ HangLooks \/ HangTakes \/ HangDone

LEMMA OwnStays == ASSUME Own PROVE UNCHANGED vars
BY Zenon DEF Own, Rising, Falling, Unheard, HangFires, Gate, Claim, Keyed, HangLooks, HangTakes, HangDone

\* The steps of the link, and what each of them is to the service.
LinkMoves == OnConnected \/ OnDisconnected \/ ClientEnds \/ LinkElse

LEMMA MovesLink ==
  ASSUME LinkMoves
  PROVE  LinkStep /\ UNCHANGED <<rxPc, hangPc, past>>
BY Zenon DEF LinkMoves, OnConnected, OnDisconnected, ClientEnds, LinkElse, LinkStep, P1Step, pttVars

LEMMA PttCases ==
  ASSUME [PttNext]_allVars
  PROVE  \/ Own \/ KeyMox \/ HangReleases \/ LinkMoves \/ UNCHANGED allVars
         \/ (\E c \in Callers : TxStep(c)) \/ (\E c \in Others : OtherCall(c))
BY Zenon DEF PttNext, RxStep, HangStep, Own, LinkMoves

LEMMA KeyingSteps == ASSUME [PttNext]_allVars PROVE [Next]_vars
<1>1. CASE Own
  BY <1>1, OwnStays
<1>2. CASE KeyMox
  <2>1. HardwareMox(TRUE) \in Request
    BY HardwareRequests
  <2> QED
    BY <1>2, <2>1, Threads, Zenon DEF KeyMox, Next, Thread
<1>3. CASE HangReleases
  <2>1. HardwareMox(FALSE) \in Request
    BY HardwareRequests
  <2> QED
    BY <1>3, <2>1, Threads, Zenon DEF HangReleases, Next, Thread
<1>4. CASE LinkMoves
  BY <1>4, MovesLink, Zenon DEF Next
<1>5. CASE UNCHANGED allVars
  BY <1>5 DEF allVars
<1>6. CASE \E c \in Callers : TxStep(c)
  BY <1>6, Zenon DEF TxStep, Next, Thread
<1>7. CASE \E c \in Others : OtherCall(c)
  BY <1>7, Threads, Zenon DEF OtherCall, Next, Thread
<1> QED
  BY <1>1, <1>2, <1>3, <1>4, <1>5, <1>6, <1>7, PttCases, Zenon

\* Every behaviour of the service is one of TxKeying: what is proved of
\* TxService for any callers holds under it.
THEOREM PttThroughTxService == PttSpec => Spec
<1>1. PttInit => Init
  BY DEF PttInit
<1> QED
  BY <1>1, KeyingSteps, PTL DEF PttSpec, Spec

-----------------------------------------------------------------------------
(* Types and positions.                                                    *)

RxPlaces == {"idle", "gate", "claim", "key", "keying"}
HangPlaces == {"idle", "look", "take", "release", "releasing"}
Clients == {"none", "live", "deadLow", "deadHigh"}

PlaceType ==
  /\ client \in Clients
  /\ line \in BOOLEAN /\ owned \in BOOLEAN /\ timer \in BOOLEAN
  /\ rxPc \in RxPlaces /\ hangPc \in HangPlaces
  /\ raced \in BOOLEAN /\ shared \in BOOLEAN /\ missed \in BOOLEAN

LEMMA PlaceNames ==
  /\ "idle" \in RxPlaces /\ "gate" \in RxPlaces /\ "claim" \in RxPlaces /\ "key" \in RxPlaces
  /\ "keying" \in RxPlaces
  /\ "idle" \in HangPlaces /\ "look" \in HangPlaces /\ "take" \in HangPlaces
  /\ "release" \in HangPlaces /\ "releasing" \in HangPlaces
  /\ "none" \in Clients /\ "live" \in Clients /\ \A level : Dead(level) \in Clients
BY DEF RxPlaces, HangPlaces, Clients, Dead

LEMMA PlaceStep == ASSUME PlaceType, [PttNext]_allVars PROVE PlaceType'
<1> USE PlaceNames DEF PlaceType, past
<1>1. CASE Rising \/ Falling \/ Unheard \/ HangFires
  <2>1. /\ (raced \/ hangPc \notin {"idle", "look"}) \in BOOLEAN
        /\ (moxOn /\ ~hw["wireMox"]) \in BOOLEAN /\ (~line) \in BOOLEAN
    OBVIOUS
  <2> QED
    BY <1>1, <2>1, Zenon DEF Rising, Falling, Unheard, HangFires
<1>2. CASE RxStep
  <2>1. (owned /\ ret[RxThread] = "ok") \in BOOLEAN
    OBVIOUS
  <2> QED
    BY <1>2, <2>1, Zenon DEF RxStep, Gate, Claim, KeyMox, Keyed
<1>3. CASE HangStep
  BY <1>3, Zenon DEF HangStep, HangLooks, HangTakes, HangReleases, HangDone
<1>4. ASSUME NEW c \in Callers, TxStep(c) PROVE PlaceType'
  <2>1. (owned /\ ~(Next1(c).fx = "raise" /\ ~Next1(c).on)) \in BOOLEAN
    OBVIOUS
  <2> QED
    BY <1>4, <2>1, Zenon DEF TxStep, Hears, pttVars
<1>5. ASSUME NEW c \in Others, OtherCall(c) PROVE PlaceType'
  BY <1>5, Zenon DEF OtherCall
<1>6. CASE LinkMoves \/ UNCHANGED allVars
  BY <1>6, Zenon DEF LinkMoves, OnConnected, OnDisconnected, ClientEnds, LinkElse, allVars, pttVars
<1> QED
  BY <1>1, <1>2, <1>3, <1>4, <1>5, <1>6, Zenon DEF PttNext, LinkMoves

LEMMA PlaceInit == ASSUME PttInit PROVE PlaceType
BY PlaceNames, Zenon DEF PttInit, PlaceType

\* The line, the client, the claim, the timer and the positions of the threads
\* keep their types whatever the link and the other callers do.
THEOREM PttTypeCorrect == PttSpec => []PttTypeOK
<1>1. TypeOK /\ PlaceType => PttTypeOK
  BY Zenon DEF PttTypeOK, PlaceType, RxPlaces, HangPlaces, Clients
<1>2. PttInit => PlaceType
  BY PlaceInit
<1>3. PlaceType /\ [PttNext]_allVars => PlaceType'
  BY PlaceStep
<1> QED
  BY <1>1, <1>2, <1>3, PttThroughTxService, TypeCorrect, PTL DEF PttSpec

-----------------------------------------------------------------------------
(* The two threads of the service and their calls.                         *)

ThreadInv ==
  /\ call[RxThread] \in {NoCall, HardwareMox(TRUE)}
  /\ call[HangThread] \in {NoCall, HardwareMox(FALSE)}
  /\ ~Idle(RxThread) => ret[RxThread] = "ok"
  /\ rxPc # "keying" => Idle(RxThread)
  /\ hangPc # "releasing" => Idle(HangThread)

LEMMA HardwareNames ==
  /\ \A on : /\ HardwareMox(on) # NoCall /\ HardwareMox(on).op = "mox"
             /\ HardwareMox(on).on = on /\ HardwareMox(on).source = "Hardware"
  /\ "Hardware" # "UI" /\ "fail" # "ok" /\ "none" # "Hardware"
BY SMT DEF HardwareMox, NoCall

\* The critical section of a hardware key or release.
LEMMA HardwareLock ==
  ASSUME TypeOK, KeyInv, NEW c \in Callers, NEW on \in BOOLEAN, call[c] = HardwareMox(on), Lock(c)
  PROVE  /\ moxOn = on => UNCHANGED flags /\ todo'[c] = << >> /\ ret'[c] = "ok"
         /\ on /\ ~moxOn => /\ moxOn' /\ ~tunOn' /\ owner' = "Hardware"
                            /\ todo'[c] = MoxEffects(TRUE) /\ ret'[c] = "ok"
         /\ ~on /\ moxOn /\ owner = "Hardware" =>
               /\ ~moxOn' /\ tunOn' = tunOn /\ owner' = "none"
               /\ todo'[c] = MoxEffects(FALSE) /\ ret'[c] = "ok"
         /\ ~on /\ moxOn /\ owner # "Hardware" => UNCHANGED flags
<1>1. ASSUME NEW r, NEW e, Return(c, r, e) PROVE ret'[c] = r /\ todo'[c] = e
  BY <1>1, Zenon DEF Return, TypeOK
<1>2. call[c].op = "mox" /\ call[c].on = on /\ call[c].source = "Hardware"
  BY HardwareNames, Zenon
<1>3. MoxNoOp(c) \/ MoxForeign(c) \/ MoxKey(c) \/ MoxUnkey(c)
  <2>1. "tun" # "mox" /\ "twotone" # "mox" /\ "trip" # "mox"
    BY SMT
  <2> QED
    BY <1>2, <2>1, Zenon DEF Lock, TunNoOp, TunKey, TunUnkey, TwoToneArm, TwoToneDisarm, Trip
<1>4. moxOn \in BOOLEAN /\ (moxOn => owner # "none")
  BY DEF TypeOK, KeyInv, OwnerIffMox
<1>5. CASE MoxNoOp(c)
  <2>1. moxOn = on /\ UNCHANGED flags /\ todo'[c] = << >> /\ ret'[c] = "ok"
    BY <1>1, <1>2, <1>5, Zenon DEF MoxNoOp
  <2> QED
    BY <1>4, <2>1
<1>6. CASE MoxForeign(c)
  <2>1. ~on /\ moxOn # on /\ owner # "Hardware" /\ UNCHANGED flags
    BY <1>2, <1>6, Zenon DEF MoxForeign, ForeignDrop
  <2> QED
    BY <1>4, <2>1
<1>7. CASE MoxKey(c)
  <2>1. /\ on /\ moxOn # on /\ moxOn' /\ ~tunOn' /\ owner' = "Hardware"
        /\ todo'[c] = MoxEffects(TRUE) /\ ret'[c] = "ok"
    BY <1>1, <1>2, <1>7, Zenon DEF MoxKey, SetFlags
  <2> QED
    BY <1>4, <2>1
<1>8. CASE MoxUnkey(c)
  <2>1. /\ ~on /\ moxOn # on /\ ~moxOn' /\ tunOn' = tunOn /\ owner' = "none"
        /\ todo'[c] = MoxEffects(FALSE) /\ ret'[c] = "ok"
    BY <1>1, <1>2, <1>8, Zenon DEF MoxUnkey, SetFlags
  <2>2. owner = "none" \/ owner = "Hardware"
    BY <1>2, <1>8, HardwareNames, Zenon DEF MoxUnkey, ForeignDrop
  <2> QED
    BY <1>4, <2>1, <2>2
<1> QED
  BY <1>3, <1>5, <1>6, <1>7, <1>8

LEMMA ThreadsRest ==
  ASSUME ThreadInv, UNCHANGED <<call, ret, todo>>,
         rxPc' # "keying" => Idle(RxThread), hangPc' # "releasing" => Idle(HangThread)
  PROVE  ThreadInv'
BY Zenon DEF ThreadInv, Idle

LEMMA ThreadStep ==
  ASSUME TypeOK, KeyInv, ThreadInv, [PttNext]_allVars
  PROVE  ThreadInv'
<1> USE Threads
<1>1. ASSUME UNCHANGED vars PROVE UNCHANGED <<call, ret, todo>>
  BY <1>1, Zenon DEF vars
<1>2. CASE Own
  <2>1. \/ UNCHANGED rxPc
        \/ rxPc = "idle" \/ rxPc = "gate" \/ rxPc = "claim" \/ Idle(RxThread)
    BY <1>2, Zenon DEF Own, Rising, Falling, Unheard, HangFires, Gate, Claim, Keyed, HangLooks, HangTakes, HangDone,
       EdgeMayArrive
  <2>2. \/ UNCHANGED hangPc
        \/ hangPc = "idle" \/ hangPc = "look" \/ hangPc = "take" \/ Idle(HangThread)
    BY <1>2, Zenon DEF Own, Rising, Falling, Unheard, HangFires, Gate, Claim, Keyed, HangLooks, HangTakes, HangDone
  <2>3. /\ "idle" # "keying" /\ "gate" # "keying" /\ "claim" # "keying"
        /\ "idle" # "releasing" /\ "look" # "releasing" /\ "take" # "releasing"
    BY SMT
  <2>4. (rxPc' # "keying" => Idle(RxThread)) /\ (hangPc' # "releasing" => Idle(HangThread))
    BY <2>1, <2>2, <2>3, Zenon DEF ThreadInv
  <2> QED
    BY <1>1, <1>2, <2>4, OwnStays, ThreadsRest
<1>3. CASE KeyMox
  <2>1. rxPc' = "keying" /\ UNCHANGED hangPc
    BY <1>3, Zenon DEF KeyMox
  <2>2. CASE Enter(RxThread, HardwareMox(TRUE))
    <3>1. /\ call'[RxThread] = HardwareMox(TRUE) /\ ret'[RxThread] = "ok" /\ UNCHANGED todo
          /\ call'[HangThread] = call[HangThread]
      BY <2>2, EnterIs, HardwareRequests
    <3> QED
      BY <2>1, <3>1, Zenon DEF ThreadInv, Idle
  <2>3. CASE Refuse(RxThread, HardwareMox(TRUE))
    <3>1. UNCHANGED <<call, todo>> /\ Idle(RxThread)
      BY <2>3, Zenon DEF Refuse
    <3> QED
      BY <2>1, <3>1, Zenon DEF ThreadInv, Idle
  <2> QED
    BY <1>3, <2>2, <2>3, Zenon DEF KeyMox
<1>4. CASE HangReleases
  <2>1. hangPc' = "releasing" /\ UNCHANGED rxPc /\ Enter(HangThread, HardwareMox(FALSE))
    BY <1>4, Zenon DEF HangReleases
  <2>2. /\ call'[HangThread] = HardwareMox(FALSE) /\ UNCHANGED todo
        /\ call'[RxThread] = call[RxThread] /\ ret'[RxThread] = ret[RxThread]
    BY <2>1, EnterIs, HardwareRequests
  <2> QED
    BY <2>1, <2>2, Zenon DEF ThreadInv, Idle
<1>5. ASSUME NEW c \in Callers, TxStep(c) PROVE ThreadInv'
  <2>1. UNCHANGED <<rxPc, hangPc>>
    BY <1>5, Zenon DEF TxStep, pttVars
  <2>2. CASE Lock(c)
    <3>1. /\ call[c] # NoCall /\ call'[c] = NoCall
          /\ \A d \in Callers \ {c} : call'[d] = call[d] /\ todo'[d] = todo[d] /\ ret'[d] = ret[d]
      BY <2>2, LockReturns
    <3>2. ~Idle(c)
      BY <3>1, Zenon DEF Idle
    <3>3. CASE c = RxThread
      <4>1. call[c] = HardwareMox(TRUE)
        BY <3>1, <3>3, Zenon DEF ThreadInv
      <4>2. moxOn = TRUE \/ ~moxOn
        BY FlagTypes
      <4>3. ret'[c] = "ok"
        BY <2>2, <4>1, <4>2, HardwareLock
      <4> QED
        BY <2>1, <3>1, <3>2, <3>3, <4>3, Zenon DEF ThreadInv, Idle
    <3>4. CASE c = HangThread
      BY <2>1, <3>1, <3>2, <3>4, Zenon DEF ThreadInv, Idle
    <3>5. CASE c \in Others
      BY <2>1, <3>1, <3>5, Zenon DEF ThreadInv, Idle
    <3> QED
      BY <3>3, <3>4, <3>5
  <2>3. CASE Effect(c)
    <3>1. /\ todo[c] # << >> /\ UNCHANGED <<call, ret>> /\ \A d \in Callers \ {c} : todo'[d] = todo[d]
      BY <2>3, EffectPops
    <3>2. ~Idle(c)
      BY <3>1, Zenon DEF Idle
    <3> QED
      BY <2>1, <3>1, <3>2, Zenon DEF ThreadInv, Idle
  <2> QED
    BY <1>5, <2>2, <2>3, Zenon DEF TxStep
<1>6. ASSUME NEW c \in Others, OtherCall(c) PROVE ThreadInv'
  <2>1. UNCHANGED <<rxPc, hangPc>>
    BY <1>6, Zenon DEF OtherCall
  <2>2. PICK k \in Request : Enter(c, k)
    BY <1>6, Zenon DEF OtherCall
  <2>3. UNCHANGED todo /\ \A d \in Callers \ {c} : call'[d] = call[d] /\ ret'[d] = ret[d]
    BY <2>2, EnterIs
  <2> QED
    BY <2>1, <2>3, Zenon DEF ThreadInv, Idle
<1>7. CASE LinkMoves \/ UNCHANGED allVars
  <2>1. UNCHANGED <<rxPc, hangPc, call, ret, todo>>
    BY <1>7, MovesLink, LinkFacts, Zenon DEF allVars, pttVars, vars
  <2> QED
    BY <2>1, ThreadsRest, Zenon DEF ThreadInv
<1> QED
  BY <1>2, <1>3, <1>4, <1>5, <1>6, <1>7, PttCases, Zenon

LEMMA ThreadInit == ASSUME PttInit PROVE ThreadInv
BY Threads, Zenon DEF PttInit, Init, ThreadInv, Idle

LEMMA ThreadsAlways == PttSpec => [](ThreadInv /\ KeyInv /\ CallsApart /\ TypeOK /\ PlaceType)
<1>1. PttInit => ThreadInv /\ PlaceType
  BY ThreadInit, PlaceInit
<1>2. TypeOK /\ KeyInv /\ ThreadInv /\ PlaceType /\ [PttNext]_allVars => ThreadInv' /\ PlaceType'
  BY ThreadStep, PlaceStep
<1> QED
  BY <1>1, <1>2, PttThroughTxService, TypeCorrect, KeyingSafe, CallsStayApart, PTL DEF PttSpec

\* For any set of callers, sources and operations the hang callback never
\* takes MOX from another source.
THEOREM HangKeepsForeignMox == PttSpec => HangReleasesOnlyOwnMox
<1>1. ASSUME TypeOK, KeyInv, ThreadInv, [PttNext]_allVars,
             NEW s \in Sources \ {"Hardware"}, owner = s, owner' # s
      PROVE  call[HangThread]' = call[HangThread]
  <2>1. CASE \E c \in Callers : Lock(c)
    <3>1. PICK c \in Callers : Lock(c)
      BY <2>1
    <3>2. CASE c = HangThread
      <4>1. call[c] = HardwareMox(FALSE)
        BY <1>1, <3>1, <3>2, LockReturns, Threads, Zenon DEF ThreadInv
      <4>2. moxOn \in BOOLEAN /\ owner # "none" /\ ((owner # "none") = moxOn)
        BY <1>1, SourcesAssumption, FlagTypes, Zenon DEF KeyInv, OwnerIffMox
      <4>3. UNCHANGED flags
        BY <1>1, <3>1, <4>1, <4>2, HardwareLock
      <4> QED
        BY <1>1, <4>3, Zenon DEF flags
    <3>3. CASE c # HangThread
      BY <1>1, <3>1, <3>3, LockReturns, Threads
    <3> QED
      BY <3>2, <3>3
  <2>2. CASE UNCHANGED flags
    BY <1>1, <2>2, Zenon DEF flags
  <2>3. (\E c \in Callers : Lock(c)) \/ UNCHANGED flags
    <3>1. CASE Own
      BY <3>1, OwnStays, Zenon DEF vars
    <3>2. CASE KeyMox \/ HangReleases \/ LinkMoves \/ UNCHANGED allVars
      BY <3>2, MovesLink, LinkFacts, Zenon DEF KeyMox, HangReleases, Enter, Refuse, allVars, vars
    <3>3. ASSUME NEW c \in Callers, Effect(c) PROVE UNCHANGED flags
      BY <1>1, <3>3, EffectPops
    <3>4. ASSUME NEW c \in Others, OtherCall(c) PROVE UNCHANGED flags
      BY <3>4, Zenon DEF OtherCall, Enter
    <3> QED
      BY <1>1, <3>1, <3>2, <3>3, <3>4, PttCases, Zenon DEF TxStep
  <2> QED
    BY <2>1, <2>2, <2>3
<1>2. TypeOK /\ KeyInv /\ ThreadInv /\ [PttNext]_allVars
        => [\A s \in Sources \ {"Hardware"} :
              owner = s /\ owner' # s => call[HangThread]' = call[HangThread]]_allVars
  BY <1>1
<1> QED
  BY <1>2, ThreadsAlways, PTL DEF PttSpec, HangReleasesOnlyOwnMox

-----------------------------------------------------------------------------
(* The hardware key as the only user of the transmitter.                   *)

Carrier == hw["wireMox"]

\* A list of effects that keys, or unkeys, and leaves the two-tone test alone.
Keys(s, on) ==
  \A i \in DOMAIN s : s[i].fx # "twoTone" /\ (s[i].fx \in {"raise", "wireMox"} => s[i].on = on)

\* Nobody else calls, and only the key has MOX.
AloneInv ==
  /\ \A c \in Others : Idle(c)
  /\ ~tunOn /\ ~hw["twoTone"] /\ owner \in {"none", "Hardware"}
  /\ Keys(todo[RxThread], TRUE) /\ Keys(todo[HangThread], FALSE)

HangBusy == hangPc \in {"take", "release", "releasing"}

\* The service serves a client; until then the line it shows is one whose
\* press went unheard, and no call of the receive thread is under way.
InUse == link \in {"p1told", "p1up", "p1dropping", "p1detached", "p1closing"}

LinkInv ==
  /\ link \in {"p1told", "p1up", "p1dropping", "p1detached"} => Heard
  /\ ~InUse => ~Heard /\ rxPc = "idle" /\ (line => missed)
  /\ rxPc # "idle" => line

\* With no client at all, a claim is one that the refused key-down will give
\* back.
UnlinkedInv ==
  client = "none" /\ owned => rxPc = "key" \/ (rxPc = "keying" /\ ret[RxThread] = "fail")

\* The client is served and wired.
Carried == link \in {"p1told", "p1up"}

\* The two threads work on the claim in turn.
OrderInv == HangBusy => rxPc = "idle" /\ (line => missed)

\* The claim, the flag and the carrier at each place of the two threads.
ClaimInv ==
  /\ rxPc \in {"idle", "gate"} /\ hangPc \in {"idle", "look", "take"} =>
        (owned <=> Carrier) /\ (owned => moxOn)
  /\ rxPc = "gate" /\ moxOn => Carrier \/ missed
  /\ rxPc = "claim" => ~owned /\ ~moxOn /\ ~Carrier
  /\ rxPc = "key" => owned /\ ~moxOn /\ ~Carrier
  /\ rxPc = "keying" =>
        /\ owned
        /\ call[RxThread] # NoCall \/ ret[RxThread] # "ok" => ~moxOn /\ ~Carrier
        /\ call[RxThread] = NoCall /\ ret[RxThread] = "ok" =>
              moxOn /\ (Carrier \/ Says(todo[RxThread], "wireMox", TRUE, FALSE))
  /\ hangPc = "release" => ~owned /\ (Carrier => moxOn)
  /\ hangPc = "releasing" =>
        /\ ~owned
        /\ call[HangThread] # NoCall /\ Carrier => moxOn
        /\ call[HangThread] = NoCall /\ Carrier => Says(todo[HangThread], "wireMox", FALSE, FALSE)
  /\ line /\ rxPc = "idle" /\ ret[RxThread] = "ok" => Carrier \/ missed

SoleInv ==
  /\ ~shared => AloneInv
  /\ LinkInv /\ UnlinkedInv
  /\ ~InUse /\ ~shared => ~Carrier
  /\ Carried /\ ~raced => OrderInv
  /\ Carried /\ ~raced /\ ~shared => ClaimInv

LEMMA KeysJoin ==
  ASSUME NEW S, NEW s \in Seq(S), NEW t \in Seq(S), NEW on, Keys(s, on), Keys(t, on)
  PROVE  Keys(s \o t, on)
<1> SUFFICES ASSUME NEW i \in DOMAIN (s \o t)
             PROVE  (s \o t)[i].fx # "twoTone" /\ ((s \o t)[i].fx \in {"raise", "wireMox"} => (s \o t)[i].on = on)
  BY Zenon DEF Keys
<1>0. /\ \A j \in DOMAIN s : (s \o t)[j] = s[j]
      /\ \A j \in DOMAIN t : (s \o t)[Len(s) + j] = t[j]
      /\ i \in DOMAIN s \/ (i > Len(s) /\ i - Len(s) \in DOMAIN t)
  BY Indices
<1>1. CASE i \in DOMAIN s
  <2>1. (s \o t)[i] = s[i]
    BY <1>0, <1>1, Zenon
  <2> QED
    BY <1>1, <2>1, Zenon DEF Keys
<1>2. CASE i > Len(s) /\ i - Len(s) \in DOMAIN t
  <2>1. i = Len(s) + (i - Len(s))
    BY <1>2, SMT
  <2>2. (s \o t)[i] = t[i - Len(s)]
    BY <1>0, <1>2, <2>1, Zenon
  <2> QED
    BY <1>2, <2>2, Zenon DEF Keys
<1> QED
  BY <1>0, <1>1, <1>2

LEMMA KeysTail ==
  ASSUME NEW S, NEW s \in Seq(S), s # << >>, NEW on, Keys(s, on)
  PROVE  /\ Keys(Tail(s), on)
         /\ Head(s).fx # "twoTone" /\ (Head(s).fx \in {"raise", "wireMox"} => Head(s).on = on)
<1>1. /\ Head(s) = s[1] /\ 1 \in DOMAIN s
      /\ \A i \in DOMAIN Tail(s) : i + 1 \in DOMAIN s /\ Tail(s)[i] = s[i + 1]
  BY SMT
<1>2. Keys(Tail(s), on)
  BY <1>1, Zenon DEF Keys
<1>3. Head(s).fx # "twoTone" /\ (Head(s).fx \in {"raise", "wireMox"} => Head(s).on = on)
  BY <1>1, Zenon DEF Keys
<1> QED
  BY <1>2, <1>3

LEMMA KeysOne ==
  ASSUME NEW e, NEW on, e.fx # "twoTone", e.fx \in {"raise", "wireMox"} => e.on = on
  PROVE  Keys(<<e>>, on)
<1>1. \A i \in DOMAIN <<e>> : <<e>>[i] = e
  BY SMT
<1> QED
  BY <1>1, Zenon DEF Keys

LEMMA MoxKeys ==
  ASSUME TypeOK, KeyInv, NEW on \in BOOLEAN
  PROVE  Keys(MoxEffects(on), on) /\ Keys(<< >>, on)
<1>1. Keys(<< >>, on)
  BY SMT DEF Keys
<1>2. ASSUME NEW f, NEW b, f # "twoTone", f \in {"raise", "wireMox"} => b = on
      PROVE  Keys(<<Fx(f, b)>>, on)
  <2>1. Fx(f, b).fx = f /\ Fx(f, b).on = b
    BY Zenon DEF Fx
  <2> QED
    BY <1>2, <2>1, KeysOne
<1>3. Keys(Raise(on \/ tunOn), on)
  <2>1. CASE on
    <3>1. Keys(<<Fx("raise", on \/ tunOn)>>, on)
      <4>1. (on \/ tunOn) = on /\ "raise" # "twoTone"
        BY <2>1, FlagTypes
      <4> QED
        BY <1>2, <4>1
    <3> QED
      BY <1>1, <3>1, Zenon DEF Raise, When
  <2>2. CASE ~on
    <3>1. CASE tunOn
      <4>1. (on \/ tunOn) = lastFired
        BY <3>1, FlagTypes
      <4> QED
        BY <1>1, <4>1, Zenon DEF Raise, When
    <3>2. CASE ~tunOn
      <4>1. (on \/ tunOn) = on /\ "raise" # "twoTone"
        BY <2>2, <3>2
      <4>2. Keys(<<Fx("raise", on \/ tunOn)>>, on)
        BY <1>2, <4>1
      <4> QED
        BY <1>1, <4>2, Zenon DEF Raise, When
    <3> QED
      BY <3>1, <3>2
  <2> QED
    BY <2>1, <2>2
<1>4. /\ Keys(When(tunOn /\ on, PipelineSetTxTune(FALSE)), on)
      /\ Keys(PipelineSetMox(on), on) /\ Keys(NotifyTunActive(FALSE), on)
  <2>1. "engineTune" \notin {"raise", "wireMox", "twoTone"} /\ "engineMox" \notin {"raise", "wireMox", "twoTone"}
        /\ "tuneDrive" \notin {"raise", "wireMox", "twoTone"}
    BY SMT
  <2> QED
    BY <1>1, <1>2, <2>1, Zenon DEF When, PipelineSetTxTune, PipelineSetMox, NotifyTunActive
<1>5. Keys(RadioSetMox(on), on)
  <2>1. "radioMox" \notin {"raise", "wireMox", "twoTone"} /\ "wireMox" # "twoTone"
    BY SMT
  <2>2. Keys(<<Fx("radioMox", on)>>, on) /\ Keys(<<Fx("wireMox", on)>>, on)
    BY <1>2, <2>1, Zenon
  <2>3. <<Fx("radioMox", on)>> \in Seq(Effects) /\ <<Fx("wireMox", on)>> \in Seq(Effects)
        /\ Fx("radioMox", on) \in Effects /\ Fx("wireMox", on) \in Effects
    BY SMT DEF Fx, Effects, Lines
  <2>4. RadioSetMox(on) = <<Fx("radioMox", on)>> \o <<Fx("wireMox", on)>>
    BY <2>3, Pair DEF RadioSetMox
  <2> QED
    BY <2>2, <2>3, <2>4, KeysJoin
<1>6. Keys(Show(on, FALSE), on)
  <2>1. "show" \notin {"raise", "wireMox", "twoTone"}
    BY SMT
  <2>2. [fx |-> "show", on |-> on, tun |-> FALSE].fx = "show"
    BY Zenon
  <2> QED
    BY <2>1, <2>2, KeysOne, Zenon DEF Show
<1>7. /\ Raise(on \/ tunOn) \in Seq(Effects) /\ PipelineSetMox(on) \in Seq(Effects)
      /\ When(tunOn /\ on, PipelineSetTxTune(FALSE)) \in Seq(Effects)
      /\ RadioSetMox(on) \in Seq(Effects) /\ NotifyTunActive(FALSE) \in Seq(Effects)
      /\ Show(on, FALSE) \in Seq(Effects)
  <2>1. (on \/ tunOn) \in BOOLEAN /\ (tunOn /\ on) \in BOOLEAN
    BY FlagTypes
  <2> QED
    BY <2>1, RaiseType, FxType, WhenSeq
<1> DEFINE s1 == Raise(on \/ tunOn)
           s2 == When(tunOn /\ on, PipelineSetTxTune(FALSE))
           s3 == PipelineSetMox(on)
           s4 == RadioSetMox(on)
           s5 == NotifyTunActive(FALSE)
           s6 == Show(on, FALSE)
<1>8. MoxEffects(on) = s1 \o s2 \o s3 \o s4 \o s5 \o s6
  BY Zenon DEF MoxEffects
<1>9. /\ \A s \in {s1, s2, s3, s4, s5, s6} : s \in Seq(Effects) /\ Keys(s, on)
  BY <1>3, <1>4, <1>5, <1>6, <1>7
<1> HIDE DEF s1, s2, s3, s4, s5, s6
<1>10. Keys(s1 \o s2, on) /\ s1 \o s2 \in Seq(Effects)
  BY <1>9, KeysJoin, ConcatSeq
<1>11. Keys(s1 \o s2 \o s3, on) /\ s1 \o s2 \o s3 \in Seq(Effects)
  BY <1>9, <1>10, KeysJoin, ConcatSeq
<1>12. Keys(s1 \o s2 \o s3 \o s4, on) /\ s1 \o s2 \o s3 \o s4 \in Seq(Effects)
  BY <1>9, <1>11, KeysJoin, ConcatSeq
<1>13. Keys(s1 \o s2 \o s3 \o s4 \o s5, on) /\ s1 \o s2 \o s3 \o s4 \o s5 \in Seq(Effects)
  BY <1>9, <1>12, KeysJoin, ConcatSeq
<1>14. Keys(s1 \o s2 \o s3 \o s4 \o s5 \o s6, on)
  BY <1>9, <1>13, KeysJoin
<1> QED
  BY <1>1, <1>8, <1>14

\* What one effect does to the wire and to the latch of the two-tone test.
LEMMA EffectMoves ==
  ASSUME TypeOK, NEW c \in Callers, Effect(c)
  PROVE  /\ Carrier' = Carrier \/ (Next1(c).fx = "wireMox" /\ Carrier' = Next1(c).on)
         /\ hw'["twoTone"] = hw["twoTone"] \/ Next1(c).fx = "twoTone"
<1>1. "wireMox" \in Lines /\ "twoTone" \in Lines
  BY DEF Lines
<1>2. hw' = hw \/ hw' = [hw EXCEPT ![Next1(c).fx] = Next1(c).on]
  BY Zenon DEF Effect, Drive, RaiseTxActiveChanged, BroadcastMoxState
<1>3. ASSUME NEW l \in Lines
      PROVE  hw'[l] = hw[l] \/ (Next1(c).fx = l /\ hw'[l] = Next1(c).on)
  BY <1>2, Zenon DEF TypeOK
<1> QED
  BY <1>1, <1>3, Zenon DEF Carrier

\* What a step of the link does to them.
LEMMA MovesKeep ==
  ASSUME TypeOK, LinkMoves
  PROVE  /\ Carrier' => Carrier
         /\ hw'["twoTone"] = hw["twoTone"]
         /\ UNCHANGED <<flags, call, ret, todo>>
<1>1. UNCHANGED <<flags, call, ret, todo>> /\ LinkStep
  BY MovesLink, LinkFacts
<1>2. \A l \in Lines : hw'[l] = hw[l] \/ (l \in Engine \cup Wire /\ hw'[l] = FALSE)
  BY <1>1, LinkLines
<1>3. "wireMox" \in Lines /\ "twoTone" \in Lines /\ "twoTone" \notin Engine \cup Wire
  BY SMT DEF Lines, Engine, Wire
<1> QED
  BY <1>1, <1>2, <1>3, Zenon DEF Carrier

\* How the service's view of the link moves.
LEMMA MovesShow ==
  ASSUME LinkMoves
  PROVE  \/ /\ OnConnected /\ ~InUse /\ InUse' /\ Heard'
            /\ ~owned' /\ UNCHANGED line
         \/ /\ OnDisconnected /\ InUse /\ InUse' /\ link' = "p1closing"
            /\ client' = "none" /\ ~owned' /\ UNCHANGED line
         \/ /\ ClientEnds /\ InUse /\ link' = "down" /\ ~InUse' /\ ~Heard' /\ rxPc = "idle"
            /\ ~line' /\ ~Carrier' /\ UNCHANGED owned
            /\ client' = "none" => client = "none"
         \/ /\ LinkElse /\ UNCHANGED pttVars /\ (InUse => InUse')
            /\ Carried' => Carried /\ (Carrier => Carrier')
            /\ link' \in {"p1told", "p1up", "p1dropping", "p1detached"} =>
                  link \in {"p1told", "p1up", "p1dropping", "p1detached"}
<1>1. CASE OnConnected
  <2>1. /\ link = "p1settling" /\ link' = "p1told"
        /\ client' = "live" /\ owned' = FALSE /\ UNCHANGED line
    BY <1>1, Zenon DEF OnConnected, P1Tell, Move
  <2>2. ~InUse /\ InUse' /\ Heard'
    BY <2>1, SMT DEF InUse, Heard
  <2> QED
    BY <1>1, <2>1, <2>2
<1>2. CASE OnDisconnected
  <2>1. /\ link = "p1detached" /\ link' = "p1closing"
        /\ client' = "none" /\ owned' = FALSE /\ UNCHANGED line
    BY <1>2, Zenon DEF OnDisconnected, P1Untell, Move
  <2>2. InUse /\ InUse'
    BY <2>1, SMT DEF InUse
  <2> QED
    BY <1>2, <2>1, <2>2
<1>3. CASE ClientEnds
  <2>1. /\ link = "p1closing" /\ link' = "down" /\ rxPc = "idle"
        /\ hw' = [l \in Lines |-> hw[l] /\ l \notin Wire]
        /\ client' = (IF Heard THEN Dead(line) ELSE client)
        /\ line' = FALSE /\ UNCHANGED owned
    BY <1>3, Zenon DEF ClientEnds, P1Close, Move
  <2>2. InUse /\ ~InUse'
    BY <2>1, SMT DEF InUse
  <2>3. ~Carrier'
    <3>1. "wireMox" \in Lines /\ "wireMox" \in Wire
      BY SMT DEF Lines, Wire
    <3> QED
      BY <2>1, <3>1, Zenon DEF Carrier
  <2>4. ~Heard' /\ (client' = "none" => client = "none")
    <3>1. \A level : Dead(level) # "live" /\ Dead(level) # "none"
      BY SMT DEF Dead
    <3> QED
      BY <2>1, <3>1, Zenon DEF Heard
  <2> QED
    BY <1>3, <2>1, <2>2, <2>3, <2>4
<1>4. CASE LinkElse
  <2>1. UNCHANGED pttVars
    BY <1>4 DEF LinkElse
  <2>2. /\ InUse => InUse'
        /\ Carried' => Carried
        /\ link' \in {"p1told", "p1up", "p1dropping", "p1detached"} =>
              link \in {"p1told", "p1up", "p1dropping", "p1detached"}
    BY <1>4, SMT DEF LinkElse, P1Open, P1Swap, P1Up, P1Fail, P1Drop, P1Detach, P2Step, P2Swap, P2Attach, P2Up,
       P2Drop, P2Stop, P2Detach, P2Down, Move, InUse, Carried
  <2>3. ASSUME Carried' PROVE Carrier => Carrier'
    <3>1. P1Up
      BY <1>4, <2>3, SMT DEF LinkElse, P1Open, P1Swap, P1Fail, P1Drop, P1Detach, P2Step, P2Swap, P2Attach, P2Up,
         P2Drop, P2Stop, P2Detach, P2Down, Move, Carried
    <3>2. hw' = [l \in Lines |-> hw[l] /\ l \notin {}]
      BY <3>1, Zenon DEF P1Up, Move
    <3>3. "wireMox" \in Lines
      BY DEF Lines
    <3> QED
      BY <3>2, <3>3, Zenon DEF Carrier
  <2> QED
    BY <1>4, <2>1, <2>2, <2>3
<1> QED
  BY <1>1, <1>2, <1>3, <1>4 DEF LinkMoves

\* Every other step leaves the link where it is.
LEMMA LinkStays ==
  ASSUME TypeOK, [PttNext]_allVars, ~LinkMoves
  PROVE  UNCHANGED link
<1>1. CASE Own \/ UNCHANGED allVars
  BY <1>1, OwnStays, Zenon DEF vars, allVars
<1>2. CASE KeyMox \/ HangReleases \/ (\E c \in Others : OtherCall(c))
  BY <1>2, Zenon DEF KeyMox, HangReleases, OtherCall, Enter, Refuse
<1>3. CASE \E c \in Callers : TxStep(c)
  BY <1>3, LockReturns, EffectPops, Zenon DEF TxStep
<1> QED
  BY <1>1, <1>2, <1>3, PttCases

\* Steps that call TxService, or let it move, one at a time.
LEMMA EntersKey ==
  ASSUME TypeOK, ThreadInv, KeyMox
  PROVE  /\ rxPc = "key" /\ rxPc' = "keying" /\ Idle(RxThread)
         /\ UNCHANGED <<flags, todo, hw, link, line, client, owned, timer, hangPc, past>>
         /\ \A c \in Callers \ {RxThread} : call'[c] = call[c] /\ ret'[c] = ret[c]
         /\ \/ Connected /\ call'[RxThread] # NoCall /\ ret'[RxThread] = "ok"
            \/ call'[RxThread] = NoCall /\ ret'[RxThread] = "fail"
<1> USE Threads
<1>1. /\ rxPc = "key" /\ rxPc' = "keying" /\ UNCHANGED <<line, client, owned, timer, hangPc, past>>
      /\ Enter(RxThread, HardwareMox(TRUE)) \/ Refuse(RxThread, HardwareMox(TRUE))
  BY Zenon DEF KeyMox
<1>2. CASE Enter(RxThread, HardwareMox(TRUE))
  <2>1. /\ Idle(RxThread) /\ call'[RxThread] # NoCall /\ ret'[RxThread] = "ok"
        /\ \A c \in Callers \ {RxThread} : call'[c] = call[c] /\ ret'[c] = ret[c]
    BY <1>2, EnterIs, HardwareRequests
  <2>2. Connected /\ UNCHANGED <<flags, todo, hw, link>>
    BY <1>2, HardwareNames, Zenon DEF Enter, outside
  <2> QED
    BY <1>1, <2>1, <2>2
<1>3. CASE Refuse(RxThread, HardwareMox(TRUE))
  <2>1. Idle(RxThread) /\ UNCHANGED <<flags, call, todo, hw, link>>
    BY <1>3, Zenon DEF Refuse, outside
  <2>2. ret'[RxThread] = "fail" /\ \A c \in Callers \ {RxThread} : ret'[c] = ret[c]
    BY <1>3, Zenon DEF Refuse, TypeOK
  <2>3. call[RxThread] = NoCall
    BY <2>1, Zenon DEF Idle
  <2> QED
    BY <1>1, <2>1, <2>2, <2>3
<1> QED
  BY <1>1, <1>2, <1>3

LEMMA EntersRelease ==
  ASSUME TypeOK, ThreadInv, HangReleases
  PROVE  /\ hangPc = "release" /\ hangPc' = "releasing" /\ call'[HangThread] # NoCall
         /\ UNCHANGED <<flags, todo, hw, link, line, client, owned, timer, rxPc, past>>
         /\ \A c \in Callers \ {HangThread} : call'[c] = call[c] /\ ret'[c] = ret[c]
<1> USE Threads
<1>1. /\ hangPc = "release" /\ hangPc' = "releasing" /\ UNCHANGED <<line, client, owned, timer, rxPc, past>>
      /\ Enter(HangThread, HardwareMox(FALSE))
  BY Zenon DEF HangReleases
<1>2. /\ call'[HangThread] # NoCall
      /\ \A c \in Callers \ {HangThread} : call'[c] = call[c] /\ ret'[c] = ret[c]
  BY <1>1, EnterIs, HardwareRequests
<1>3. UNCHANGED <<flags, todo, hw, link>>
  BY <1>1, Zenon DEF Enter, outside
<1> QED
  BY <1>1, <1>2, <1>3

\* With nobody else about, a critical section is the key's or the hang's.
LEMMA LocksAlone ==
  ASSUME TypeOK, KeyInv, ThreadInv, AloneInv, NEW c \in Callers, Lock(c)
  PROVE  /\ c = RxThread \/ c = HangThread
         /\ call[c] # NoCall /\ call'[c] = NoCall
         /\ \A d \in Callers \ {c} : call'[d] = call[d] /\ todo'[d] = todo[d] /\ ret'[d] = ret[d]
         /\ ret'[c] = "ok" /\ UNCHANGED <<hw, link>> /\ ~tunOn'
         /\ owner' \in {"none", "Hardware"}
         /\ c = RxThread => moxOn' /\ todo'[c] = IF moxOn THEN << >> ELSE MoxEffects(TRUE)
         /\ c = HangThread => ~moxOn' /\ todo'[c] = IF moxOn THEN MoxEffects(FALSE) ELSE << >>
<1> USE Threads
<1>1. /\ call[c] # NoCall /\ call'[c] = NoCall /\ UNCHANGED <<hw, link>>
      /\ \A d \in Callers \ {c} : call'[d] = call[d] /\ todo'[d] = todo[d] /\ ret'[d] = ret[d]
  BY LockReturns DEF outside
<1>2. c = RxThread \/ c = HangThread
  BY <1>1, Zenon DEF AloneInv, Idle
<1>3. moxOn \in BOOLEAN /\ (moxOn => owner = "Hardware") /\ (~moxOn => owner = "none") /\ ~tunOn
  BY DEF TypeOK, KeyInv, OwnerIffMox, AloneInv
<1>4. CASE c = RxThread
  <2>1. call[c] = HardwareMox(TRUE)
    BY <1>1, <1>4, Zenon DEF ThreadInv
  <2>2. /\ moxOn = TRUE => UNCHANGED flags /\ todo'[c] = << >> /\ ret'[c] = "ok"
        /\ ~moxOn => /\ moxOn' /\ ~tunOn' /\ owner' = "Hardware"
                     /\ todo'[c] = MoxEffects(TRUE) /\ ret'[c] = "ok"
    BY <2>1, HardwareLock
  <2>3. CASE moxOn
    <3>1. UNCHANGED flags /\ todo'[c] = << >> /\ ret'[c] = "ok"
      BY <1>3, <2>2, <2>3
    <3> QED
      BY <1>1, <1>3, <1>4, <2>3, <3>1 DEF flags
  <2>4. CASE ~moxOn
    BY <1>1, <1>4, <2>2, <2>4
  <2> QED
    BY <2>3, <2>4
<1>5. CASE c = HangThread
  <2>1. call[c] = HardwareMox(FALSE)
    BY <1>1, <1>5, Zenon DEF ThreadInv
  <2>2. /\ moxOn = FALSE => UNCHANGED flags /\ todo'[c] = << >> /\ ret'[c] = "ok"
        /\ moxOn /\ owner = "Hardware" => /\ ~moxOn' /\ tunOn' = tunOn /\ owner' = "none"
                     /\ todo'[c] = MoxEffects(FALSE) /\ ret'[c] = "ok"
    BY <2>1, HardwareLock
  <2>3. CASE ~moxOn
    <3>1. UNCHANGED flags /\ todo'[c] = << >> /\ ret'[c] = "ok"
      BY <1>3, <2>2, <2>3
    <3> QED
      BY <1>1, <1>3, <1>5, <2>3, <3>1 DEF flags
  <2>4. CASE moxOn
    <3>1. ~moxOn' /\ tunOn' = tunOn /\ owner' = "none" /\ todo'[c] = MoxEffects(FALSE) /\ ret'[c] = "ok"
      BY <1>3, <2>2, <2>4
    <3> QED
      BY <1>1, <1>3, <1>5, <2>4, <3>1, Zenon
  <2> QED
    BY <2>3, <2>4
<1> QED
  BY <1>2, <1>4, <1>5

\* And an effect is one of a key-down or of a release.
LEMMA EffectsAlone ==
  ASSUME TypeOK, ThreadInv, CallsApart, AloneInv, NEW c \in Callers, Effect(c)
  PROVE  /\ c = RxThread \/ c = HangThread
         /\ UNCHANGED <<flags, call, ret, link>> /\ call[c] = NoCall /\ ~Idle(c)
         /\ \A d \in Callers \ {c} : todo'[d] = todo[d]
         /\ hw'["twoTone"] = hw["twoTone"]
         /\ c = RxThread => /\ Keys(todo'[c], TRUE) /\ (Carrier => Carrier')
                            /\ Next1(c).fx = "raise" => Next1(c).on
         /\ c = HangThread => Keys(todo'[c], FALSE) /\ (Carrier' => Carrier)
<1> USE Threads
<1>1. /\ todo[c] \in Seq(Effects) /\ todo[c] # << >> /\ todo'[c] = Tail(todo[c])
      /\ \A d \in Callers \ {c} : todo'[d] = todo[d]
      /\ UNCHANGED <<flags, call, ret, link>>
  BY EffectPops
<1>2. ~Idle(c) /\ call[c] = NoCall
  BY <1>1, Zenon DEF Idle, CallsApart
<1>3. c = RxThread \/ c = HangThread
  BY <1>2, Zenon DEF AloneInv
<1>4. /\ Carrier' = Carrier \/ (Next1(c).fx = "wireMox" /\ Carrier' = Next1(c).on)
      /\ hw'["twoTone"] = hw["twoTone"] \/ Next1(c).fx = "twoTone"
  BY EffectMoves
<1>5. CASE c = RxThread
  <2>1. /\ Keys(todo'[c], TRUE) /\ Next1(c).fx # "twoTone"
        /\ Next1(c).fx \in {"raise", "wireMox"} => Next1(c).on = TRUE
    <3>1. Keys(todo[c], TRUE) /\ Next1(c) = Head(todo[c])
      BY <1>5, Zenon DEF AloneInv, Next1
    <3> QED
      BY <1>1, <3>1, KeysTail, ZenonT(30)
  <2>2. hw'["twoTone"] = hw["twoTone"] /\ (Carrier => Carrier') /\ (Next1(c).fx = "raise" => Next1(c).on)
    <3>1. hw'["twoTone"] = hw["twoTone"] /\ (Next1(c).fx = "raise" => Next1(c).on = TRUE)
      BY <1>4, <2>1, Zenon
    <3>2. ASSUME Carrier PROVE Carrier'
      <4>1. Carrier' = Carrier \/ Carrier' = TRUE
        BY <1>4, <2>1, Zenon
      <4> QED
        BY <3>2, <4>1
    <3> QED
      BY <3>1, <3>2
  <2> QED
    BY <1>1, <1>2, <1>5, <2>1, <2>2
<1>6. CASE c = HangThread
  <2>0. Keys(todo[c], FALSE)
    BY <1>6, Zenon DEF AloneInv
  <2>1. /\ Keys(todo'[c], FALSE) /\ Next1(c).fx # "twoTone"
        /\ Next1(c).fx \in {"raise", "wireMox"} => ~Next1(c).on
    BY <1>1, <2>0, KeysTail DEF Next1
  <2>2. hw'["twoTone"] = hw["twoTone"]
    BY <1>4, <2>1, Zenon
  <2>3. Carrier' => Carrier
    BY <1>4, <2>1, Zenon
  <2> QED
    BY <1>1, <1>2, <1>6, <2>1, <2>2, <2>3
<1> QED
  BY <1>3, <1>5, <1>6

\* Steps that leave TxService as it is.
LEMMA AloneRests ==
  ASSUME AloneInv, UNCHANGED <<tunOn, owner, todo>>, hw'["twoTone"] = hw["twoTone"],
         \A c \in Others : call'[c] = call[c]
  PROVE  AloneInv'
BY Zenon DEF AloneInv, Idle

LEMMA AloneStep ==
  ASSUME TypeOK, KeyInv, CallsApart, ThreadInv, ~shared => AloneInv, [PttNext]_allVars, ~shared'
  PROVE  AloneInv'
<1> USE Threads
<1>1. ~shared
  BY PttCases, MovesLink, Zenon DEF Own, Rising, Falling, Unheard, HangFires, Gate, Claim, Keyed, HangLooks,
     HangTakes, HangDone, KeyMox, HangReleases, allVars, pttVars, past, TxStep, OtherCall
<1>2. AloneInv
  BY <1>1
<1>3. CASE Own \/ UNCHANGED allVars
  <2>1. UNCHANGED vars
    BY <1>3, OwnStays DEF allVars
  <2> QED
    BY <1>2, <2>1, AloneRests, Zenon DEF vars, flags, outside
<1>4. CASE KeyMox
  BY <1>2, <1>4, EntersKey, AloneRests, Zenon DEF flags
<1>5. CASE HangReleases
  BY <1>2, <1>5, EntersRelease, AloneRests, Zenon DEF flags
<1>6. CASE LinkMoves
  BY <1>2, <1>6, MovesKeep, AloneRests, Zenon DEF flags
<1>7. ASSUME NEW c \in Callers, Lock(c) PROVE AloneInv'
  <2>1. /\ c = RxThread \/ c = HangThread
        /\ \A d \in Callers \ {c} : call'[d] = call[d] /\ todo'[d] = todo[d]
        /\ UNCHANGED hw /\ ~tunOn' /\ owner' \in {"none", "Hardware"}
        /\ c = RxThread => todo'[c] = << >> \/ todo'[c] = MoxEffects(TRUE)
        /\ c = HangThread => todo'[c] = MoxEffects(FALSE) \/ todo'[c] = << >>
    BY <1>2, <1>7, LocksAlone
  <2>2. /\ c = RxThread => Keys(todo'[c], TRUE)
        /\ c = HangThread => Keys(todo'[c], FALSE)
    BY <2>1, MoxKeys
  <2>3. \A d \in Others : Idle(d)'
    BY <1>2, <2>1, Zenon DEF AloneInv, Idle
  <2>4. Keys(todo'[RxThread], TRUE) /\ Keys(todo'[HangThread], FALSE)
    BY <1>2, <2>1, <2>2, Zenon DEF AloneInv
  <2> QED
    BY <1>2, <2>1, <2>3, <2>4, Zenon DEF AloneInv
<1>8. ASSUME NEW c \in Callers, Effect(c) PROVE AloneInv'
  <2>1. /\ c = RxThread \/ c = HangThread
        /\ \A d \in Callers \ {c} : todo'[d] = todo[d]
        /\ UNCHANGED <<flags, call>> /\ hw'["twoTone"] = hw["twoTone"]
        /\ c = RxThread => Keys(todo'[c], TRUE)
        /\ c = HangThread => Keys(todo'[c], FALSE)
    BY <1>2, <1>8, EffectsAlone
  <2>2. \A d \in Others : Idle(d)'
    BY <1>2, <2>1, Zenon DEF AloneInv, Idle
  <2>3. Keys(todo'[RxThread], TRUE) /\ Keys(todo'[HangThread], FALSE)
    BY <1>2, <2>1, Zenon DEF AloneInv
  <2> QED
    BY <1>2, <2>1, <2>2, <2>3, Zenon DEF AloneInv, flags
<1>9. ASSUME NEW c \in Others, OtherCall(c) PROVE FALSE
  BY <1>9, Zenon DEF OtherCall
<1> QED
  BY <1>3, <1>4, <1>5, <1>6, <1>7, <1>8, <1>9, PttCases, Zenon DEF TxStep

LEMMA RxNames ==
  /\ "idle" # "gate" /\ "idle" # "claim" /\ "idle" # "key" /\ "idle" # "keying" /\ "gate" # "claim"
  /\ "gate" # "key" /\ "gate" # "keying" /\ "claim" # "key" /\ "claim" # "keying" /\ "key" # "keying"
  /\ "idle" # "look" /\ "idle" # "take" /\ "idle" # "release" /\ "idle" # "releasing" /\ "look" # "take"
  /\ "look" # "release" /\ "look" # "releasing" /\ "take" # "release" /\ "take" # "releasing"
  /\ "release" # "releasing" /\ "fail" # "ok"
BY SMT

\* What the service knows of the link.
LEMMA LinkInvStep ==
  ASSUME TypeOK, LinkInv, [PttNext]_allVars
  PROVE  LinkInv'
<1>1. CASE LinkMoves
  <2>1. UNCHANGED <<rxPc, missed>>
    BY <1>1, MovesLink, Zenon DEF past
  <2>2. CASE ~InUse /\ InUse' /\ Heard' /\ UNCHANGED line
    BY <2>1, <2>2, Zenon DEF LinkInv
  <2>3. CASE InUse /\ InUse' /\ link' = "p1closing" /\ UNCHANGED line
    <3>1. "p1closing" \notin {"p1told", "p1up", "p1dropping", "p1detached"}
      BY SMT
    <3> QED
      BY <2>1, <2>3, <3>1, Zenon DEF LinkInv
  <2>4. CASE link' = "down" /\ ~InUse' /\ ~Heard' /\ rxPc = "idle" /\ ~line'
    <3>1. "down" \notin {"p1told", "p1up", "p1dropping", "p1detached"}
      BY SMT
    <3> QED
      BY <2>1, <2>4, <3>1, Zenon DEF LinkInv
  <2>5. CASE /\ UNCHANGED pttVars /\ (InUse => InUse')
             /\ link' \in {"p1told", "p1up", "p1dropping", "p1detached"} =>
                   link \in {"p1told", "p1up", "p1dropping", "p1detached"}
    BY <2>1, <2>5, Zenon DEF LinkInv, pttVars, Heard
  <2> QED
    BY <1>1, <2>2, <2>3, <2>4, <2>5, MovesShow, Zenon
<1>2. CASE ~LinkMoves
  <2>1. UNCHANGED link
    BY <1>2, LinkStays
  <2>2. InUse' = InUse
    BY <2>1 DEF InUse
  <2>3. CASE UNCHANGED <<client, rxPc, line, missed>>
    BY <2>1, <2>2, <2>3, Zenon DEF LinkInv, Heard
  <2>4. CASE Rising \/ Falling \/ Unheard
    BY <2>1, <2>2, <2>4, Zenon DEF Rising, Falling, Unheard, EdgeMayArrive, LinkInv, Heard
  <2>5. CASE RxStep
    <3>1. rxPc # "idle" /\ UNCHANGED <<client, line>>
      BY <2>5, RxNames, Zenon DEF RxStep, Gate, Claim, KeyMox, Keyed
    <3> QED
      BY <2>1, <2>2, <3>1, Zenon DEF LinkInv, Heard
  <2>6. CASE HangFires \/ HangStep
    BY <2>3, <2>6, Zenon DEF HangFires, HangStep, HangLooks, HangTakes, HangReleases, HangDone, past
  <2>7. CASE UNCHANGED allVars \/ (\E c \in Callers : TxStep(c)) \/ (\E c \in Others : OtherCall(c))
    BY <2>3, <2>7, Zenon DEF TxStep, OtherCall, allVars, pttVars, past
  <2> QED
    BY <1>2, <2>4, <2>5, <2>6, <2>7, Zenon DEF PttNext, LinkMoves
<1> QED
  BY <1>1, <1>2

LEMMA UnlinkedStep ==
  ASSUME TypeOK, ThreadInv, LinkInv, UnlinkedInv, [PttNext]_allVars
  PROVE  UnlinkedInv'
<1> USE Threads
<1>1. ASSUME UNCHANGED <<client, rxPc>>, owned' => owned, ret'[RxThread] = ret[RxThread] PROVE UnlinkedInv'
  BY <1>1, Zenon DEF UnlinkedInv
<1>2. CASE Own
  <2>1. UNCHANGED ret
    BY <1>2, OwnStays, Zenon DEF vars
  <2>2. CASE Rising \/ Falling
    <3>1. client' = "live"
      BY <2>2, Zenon DEF Rising, Falling, Heard
    <3>2. "live" # "none"
      BY SMT
    <3> QED
      BY <3>1, <3>2, Zenon DEF UnlinkedInv
  <2>3. CASE Unheard \/ HangFires \/ HangLooks \/ HangDone
    BY <1>1, <2>1, <2>3, Zenon DEF Unheard, HangFires, HangLooks, HangDone
  <2>4. CASE HangTakes
    BY <2>4, Zenon DEF HangTakes, UnlinkedInv
  <2>5. CASE Gate \/ Claim
    <3>1. UNCHANGED client /\ (client = "none" => ~owned)
      BY <2>5, RxNames, Zenon DEF Gate, Claim, UnlinkedInv
    <3>2. owned' => owned \/ rxPc' = "key"
      BY <2>5, Zenon DEF Gate, Claim
    <3> QED
      BY <3>1, <3>2, Zenon DEF UnlinkedInv
  <2>6. CASE Keyed
    <3>1. rxPc = "keying" /\ UNCHANGED client /\ owned' = (owned /\ ret[RxThread] = "ok")
      BY <2>6, Zenon DEF Keyed
    <3> QED
      BY <3>1, RxNames, Zenon DEF UnlinkedInv
  <2> QED
    BY <1>2, <2>2, <2>3, <2>4, <2>5, <2>6, Zenon DEF Own
<1>3. CASE KeyMox
  <2>1. /\ rxPc = "key" /\ rxPc' = "keying" /\ UNCHANGED <<client, owned>>
        /\ Connected \/ ret'[RxThread] = "fail"
    BY <1>3, EntersKey
  <2>2. ASSUME client = "none" PROVE ~Connected
    <3>1. InUse /\ ~Heard
      BY <2>1, <2>2, SMT DEF LinkInv, Heard
    <3>2. link = "p1closing"
      BY <3>1, SMT DEF LinkInv, InUse
    <3> QED
      BY <3>2, SMT DEF Connected
  <2> QED
    BY <2>1, <2>2, Zenon DEF UnlinkedInv
<1>4. CASE HangReleases
  <2>1. UNCHANGED <<client, rxPc, owned>> /\ ret'[RxThread] = ret[RxThread]
    BY <1>4, EntersRelease, Zenon
  <2> QED
    BY <1>1, <2>1
<1>5. ASSUME NEW c \in Callers, Lock(c), UNCHANGED pttVars PROVE UnlinkedInv'
  <2>1. call[c] # NoCall /\ \A d \in Callers \ {c} : ret'[d] = ret[d]
    BY <1>5, LockReturns
  <2>2. UNCHANGED <<client, rxPc, owned>>
    BY <1>5, Zenon DEF pttVars
  <2>3. CASE c = RxThread
    <3>1. ret[RxThread] = "ok" /\ ~Idle(RxThread)
      BY <2>1, <2>3, Zenon DEF ThreadInv, Idle
    <3>2. ~(client = "none" /\ owned)
      BY <3>1, RxNames, Zenon DEF ThreadInv, UnlinkedInv
    <3> QED
      BY <2>2, <3>2, Zenon DEF UnlinkedInv
  <2>4. CASE c # RxThread
    BY <1>1, <2>1, <2>2, <2>4
  <2> QED
    BY <2>3, <2>4
<1>6. ASSUME NEW c \in Callers, Effect(c), Hears(c), UNCHANGED <<client, rxPc>> PROVE UnlinkedInv'
  <2>1. UNCHANGED ret
    BY <1>6, EffectPops
  <2>2. owned' => owned
    BY <1>6, Zenon DEF Hears
  <2> QED
    BY <1>1, <1>6, <2>1, <2>2
<1>7. ASSUME NEW c \in Others, OtherCall(c) PROVE UnlinkedInv'
  <2>1. PICK k \in Request : Enter(c, k)
    BY <1>7, Zenon DEF OtherCall
  <2>2. ret'[RxThread] = ret[RxThread]
    BY <2>1, EnterIs
  <2> QED
    BY <1>1, <1>7, <2>2, Zenon DEF OtherCall
<1>8. CASE LinkMoves
  <2>1. UNCHANGED <<rxPc, ret>>
    BY <1>8, MovesLink, LinkFacts
  <2>2. \/ Heard' \/ ~owned' \/ (UNCHANGED owned /\ (client' = "none" => client = "none"))
    BY <1>8, MovesShow, Zenon DEF pttVars
  <2>3. Heard' => client' # "none"
    BY SMT DEF Heard
  <2> QED
    BY <2>1, <2>2, <2>3, Zenon DEF UnlinkedInv
<1>9. CASE UNCHANGED allVars
  BY <1>1, <1>9, Zenon DEF allVars, vars, pttVars
<1> QED
  BY <1>2, <1>3, <1>4, <1>5, <1>6, <1>7, <1>8, <1>9, PttCases, Zenon DEF TxStep

\* raced and shared are never taken back.
LEMMA StillApart == ASSUME [PttNext]_allVars PROVE (raced => raced') /\ (shared => shared')
<1>1. CASE Rising
  <2>1. raced' = (raced \/ hangPc \notin {"idle", "look"}) /\ UNCHANGED shared
    BY <1>1, Zenon DEF Rising
  <2> QED
    BY <2>1
<1>2. CASE Own /\ ~Rising
  <2>1. UNCHANGED <<raced, shared>>
    BY <1>2, Zenon DEF Own, Falling, Unheard, HangFires, Gate, Claim, Keyed, HangLooks, HangTakes, HangDone, past
  <2> QED
    BY <2>1
<1>3. CASE KeyMox \/ HangReleases \/ LinkMoves \/ UNCHANGED allVars \/ (\E c \in Callers : TxStep(c))
  <2>1. UNCHANGED <<raced, shared>>
    BY <1>3, MovesLink, Zenon DEF KeyMox, HangReleases, allVars, pttVars, past, TxStep
  <2> QED
    BY <2>1
<1>4. CASE \E c \in Others : OtherCall(c)
  <2>1. UNCHANGED raced /\ shared' = TRUE
    BY <1>4, Zenon DEF OtherCall
  <2> QED
    BY <2>1
<1> QED
  BY <1>1, <1>2, <1>3, <1>4, PttCases, Zenon

\* Without a client that is served there is no carrier.
LEMMA LowStep ==
  ASSUME TypeOK, KeyInv, CallsApart, ThreadInv, SoleInv, [PttNext]_allVars, ~InUse', ~shared'
  PROVE  ~Carrier'
<1> USE Threads
<1>1. ~shared /\ AloneInv
  BY StillApart, Zenon DEF SoleInv
<1>2. CASE LinkMoves
  BY <1>1, <1>2, MovesShow, MovesKeep, Zenon DEF SoleInv
<1>3. CASE ~LinkMoves
  <2>1. ~InUse
    BY <1>3, LinkStays DEF InUse
  <2>2. ~Carrier /\ rxPc = "idle"
    BY <1>1, <2>1, Zenon DEF SoleInv, LinkInv
  <2>3. CASE Own \/ UNCHANGED allVars
    BY <2>2, <2>3, OwnStays, Zenon DEF allVars, vars, outside, Carrier
  <2>4. CASE KeyMox \/ HangReleases
    BY <2>2, <2>4, EntersKey, EntersRelease, Zenon DEF Carrier
  <2>5. CASE \E c \in Others : OtherCall(c)
    BY <2>2, <2>5, Zenon DEF OtherCall, Enter, outside, Carrier
  <2>6. ASSUME NEW c \in Callers, Lock(c) PROVE ~Carrier'
    BY <2>2, <2>6, LockReturns, Zenon DEF outside, Carrier
  <2>7. ASSUME NEW c \in Callers, Effect(c) PROVE ~Carrier'
    <3>1. /\ c = RxThread \/ c = HangThread
          /\ ~Idle(c)
          /\ c = HangThread => (Carrier' => Carrier)
      BY <1>1, <2>7, EffectsAlone
    <3>2. c # RxThread
      BY <2>2, <3>1, RxNames, Zenon DEF ThreadInv
    <3> QED
      BY <2>2, <3>1, <3>2
  <2> QED
    BY <1>3, <2>3, <2>4, <2>5, <2>6, <2>7, PttCases, Zenon DEF TxStep
<1> QED
  BY <1>2, <1>3

LEMMA OrderStep ==
  ASSUME TypeOK, LinkInv, Carried /\ ~raced => OrderInv, [PttNext]_allVars, Carried', ~raced'
  PROVE  OrderInv'
<1>1. CASE LinkMoves
  <2>1. UNCHANGED <<rxPc, hangPc, raced, missed>>
    BY <1>1, MovesLink, Zenon DEF past
  <2>2. ~raced
    BY <2>1
  <2>3. link' # "p1closing" /\ link' # "down"
    BY SMT DEF Carried
  <2>4. CASE ~InUse /\ UNCHANGED line
    BY <2>1, <2>4, Zenon DEF LinkInv, OrderInv, HangBusy
  <2>5. CASE UNCHANGED pttVars /\ Carried
    BY <2>1, <2>2, <2>5, Zenon DEF OrderInv, HangBusy, pttVars
  <2> QED
    BY <1>1, <2>3, <2>4, <2>5, MovesShow, Zenon
<1>2. CASE ~LinkMoves
  <2>1. OrderInv /\ Heard
    <3>1. Carried /\ ~raced
      BY <1>2, LinkStays, StillApart, Zenon DEF Carried
    <3>2. link \in {"p1told", "p1up", "p1dropping", "p1detached"}
      BY <3>1, SMT DEF Carried
    <3> QED
      BY <3>1, <3>2, Zenon DEF LinkInv
  <2>2. CASE UNCHANGED <<rxPc, line, hangPc, missed>>
    BY <2>1, <2>2, Zenon DEF OrderInv, HangBusy
  <2>3. CASE Rising
    <3>1. hangPc \in {"idle", "look"} /\ hangPc' = hangPc
      BY <2>3, Zenon DEF Rising
    <3>2. ~HangBusy'
      BY <3>1, SMT DEF HangBusy
    <3> QED
      BY <3>2, Zenon DEF OrderInv
  <2>4. CASE Falling
    BY <2>4, Zenon DEF Falling, EdgeMayArrive, OrderInv
  <2>5. CASE HangFires
    <3>1. hangPc' = "look"
      BY <2>5, Zenon DEF HangFires
    <3>2. ~HangBusy'
      BY <3>1, SMT DEF HangBusy
    <3> QED
      BY <3>2, Zenon DEF OrderInv
  <2>6. CASE RxStep
    <3>1. UNCHANGED hangPc /\ rxPc # "idle"
      BY <2>6, RxNames, Zenon DEF RxStep, Gate, Claim, KeyMox, Keyed
    <3> QED
      BY <2>1, <3>1, Zenon DEF OrderInv, HangBusy
  <2>7. CASE HangStep
    <3>1. UNCHANGED <<line, rxPc, missed>> /\ (hangPc = "look" => hangPc' = IF High THEN "idle" ELSE "take")
          /\ (hangPc = "look" \/ HangBusy)
      BY <2>7, RxNames, Zenon DEF HangStep, HangLooks, HangTakes, HangReleases, HangDone, HangBusy, past
    <3>2. "idle" \notin {"take", "release", "releasing"}
      BY SMT
    <3>3. line => High
      BY <2>1, Zenon DEF High
    <3> QED
      BY <2>1, <3>1, <3>2, <3>3, Zenon DEF OrderInv, HangBusy, LinkInv
  <2>8. CASE Unheard
    BY <2>1, <2>8, Zenon DEF Unheard
  <2>9. CASE UNCHANGED allVars \/ (\E c \in Callers : TxStep(c)) \/ (\E c \in Others : OtherCall(c))
    <3>1. UNCHANGED <<rxPc, line, hangPc, missed>>
      BY <2>9, Zenon DEF TxStep, OtherCall, allVars, pttVars, past
    <3> QED
      BY <2>2, <3>1
  <2> QED
    BY <1>2, <2>3, <2>4, <2>5, <2>6, <2>7, <2>8, <2>9, Zenon DEF PttNext, LinkMoves
<1> QED
  BY <1>1, <1>2

LEMMA ClaimOwn ==
  ASSUME TypeOK, ThreadInv, PlaceType, AloneInv, LinkInv, OrderInv, ClaimInv, Heard, Own, ~raced'
  PROVE  ClaimInv'
<1> USE Threads
<1>1. UNCHANGED <<moxOn, tunOn, hw, call, ret, todo>>
  BY OwnStays, Zenon DEF vars, flags, outside
<1>2. Carrier' = Carrier
  BY <1>1, Zenon DEF Carrier
<1>3. /\ Carrier \in BOOLEAN /\ moxOn \in BOOLEAN /\ owned \in BOOLEAN /\ line \in BOOLEAN
  BY DEF Carrier, TypeOK, PlaceType, Lines
<1>4. CASE Rising
  <2>1. /\ rxPc = "idle" /\ rxPc' = "gate" /\ UNCHANGED <<owned, hangPc>>
        /\ missed' = (moxOn /\ ~Carrier)
    BY <1>4, Zenon DEF Rising, EdgeMayArrive, Carrier
  <2> QED
    BY <1>1, <1>2, <2>1, RxNames, Zenon DEF ClaimInv
<1>5. CASE Falling
  <2>1. rxPc = "idle" /\ ~line' /\ UNCHANGED <<owned, hangPc, rxPc, missed>>
    BY <1>5, Zenon DEF Falling, EdgeMayArrive, past
  <2> QED
    BY <1>1, <1>2, <2>1, Zenon DEF ClaimInv
<1>6. CASE HangFires
  <2>1. hangPc = "idle" /\ hangPc' = "look" /\ UNCHANGED <<owned, line, rxPc, missed>>
    BY <1>6, Zenon DEF HangFires, past
  <2> QED
    BY <1>1, <1>2, <2>1, RxNames, Zenon DEF ClaimInv
<1>7. CASE Gate
  <2>1. rxPc = "gate" /\ rxPc' = (IF HostKeyed THEN "idle" ELSE "claim") /\ UNCHANGED <<owned, line, hangPc, missed>>
    BY <1>7, Zenon DEF Gate, past
  <2>2. HostKeyed <=> moxOn
    BY Zenon DEF HostKeyed, AloneInv
  <2>3. hangPc \in {"idle", "look", "take"} /\ hangPc # "release" /\ hangPc # "releasing"
    <3>1. ~HangBusy
      BY <2>1, RxNames, Zenon DEF OrderInv
    <3> QED
      BY <3>1, SMT DEF HangBusy, PlaceType, HangPlaces
  <2>4. (owned <=> Carrier) /\ (owned => moxOn) /\ (moxOn => Carrier \/ missed)
    BY <2>1, <2>3, Zenon DEF ClaimInv
  <2>5. CASE moxOn
    <3>1. rxPc' = "idle"
      BY <2>1, <2>2, <2>5
    <3> QED
      BY <1>1, <1>2, <2>1, <2>3, <2>4, <2>5, <3>1, RxNames, Zenon DEF ClaimInv
  <2>6. CASE ~moxOn
    <3>1. rxPc' = "claim"
      BY <2>1, <2>2, <2>6
    <3> QED
      BY <1>1, <1>2, <2>1, <2>3, <2>4, <2>6, <3>1, RxNames, Zenon DEF ClaimInv
  <2> QED
    BY <2>5, <2>6
<1>8. CASE Claim
  <2>1. /\ rxPc = "claim" /\ rxPc' = (IF owned THEN "idle" ELSE "key") /\ owned' = TRUE
        /\ UNCHANGED <<line, hangPc, missed>>
    BY <1>8, Zenon DEF Claim, past
  <2>2. ~owned /\ ~moxOn /\ ~Carrier
    BY <2>1, Zenon DEF ClaimInv
  <2>3. rxPc' = "key"
    BY <2>1, <2>2
  <2>4. hangPc # "release" /\ hangPc # "releasing"
    <3>1. ~HangBusy
      BY <2>1, RxNames, Zenon DEF OrderInv
    <3> QED
      BY <3>1, SMT DEF HangBusy
  <2> QED
    BY <1>1, <1>2, <2>1, <2>2, <2>3, <2>4, RxNames, Zenon DEF ClaimInv
<1>9. CASE Keyed
  <2>1. /\ rxPc = "keying" /\ rxPc' = "idle" /\ Idle(RxThread)
        /\ owned' = (owned /\ ret[RxThread] = "ok") /\ UNCHANGED <<line, hangPc, missed>>
    BY <1>9, Zenon DEF Keyed, past
  <2>2. owned /\ call[RxThread] = NoCall /\ todo[RxThread] = << >>
    BY <2>1, Zenon DEF ClaimInv, Idle
  <2>3. hangPc # "release" /\ hangPc # "releasing"
    <3>1. ~HangBusy
      BY <2>1, RxNames, Zenon DEF OrderInv
    <3> QED
      BY <3>1, SMT DEF HangBusy
  <2>4. CASE ret[RxThread] = "ok"
    <3>1. ~Says(todo[RxThread], "wireMox", TRUE, FALSE)
      BY <2>2, SMT DEF Says
    <3>2. moxOn /\ Carrier /\ owned'
      BY <2>1, <2>2, <2>4, <3>1, Zenon DEF ClaimInv
    <3> QED
      BY <1>1, <1>2, <2>1, <2>3, <3>2, RxNames, Zenon DEF ClaimInv
  <2>5. CASE ret[RxThread] # "ok"
    <3>1. ~moxOn /\ ~Carrier /\ ~owned'
      BY <2>1, <2>5, Zenon DEF ClaimInv
    <3> QED
      BY <1>1, <1>2, <2>1, <2>3, <2>5, <3>1, RxNames, Zenon DEF ClaimInv
  <2> QED
    BY <2>4, <2>5
<1>10. CASE HangLooks
  <2>1. /\ hangPc = "look" /\ hangPc' = (IF High THEN "idle" ELSE "take")
        /\ UNCHANGED <<line, owned, rxPc, missed>>
    BY <1>10, Zenon DEF HangLooks, past
  <2>2. hangPc' \in {"idle", "take"} /\ hangPc' # "release" /\ hangPc' # "releasing"
    BY <2>1, SMT
  <2> QED
    BY <1>1, <1>2, <2>1, <2>2, Zenon DEF ClaimInv
<1>11. CASE HangTakes
  <2>1. /\ hangPc = "take" /\ hangPc' = (IF owned THEN "release" ELSE "idle") /\ owned' = FALSE
        /\ UNCHANGED <<line, rxPc, missed>>
    BY <1>11, Zenon DEF HangTakes, past
  <2>2. rxPc = "idle" /\ (line => missed)
    BY <2>1, Zenon DEF OrderInv, HangBusy
  <2>3. (owned <=> Carrier) /\ (owned => moxOn)
    BY <2>1, <2>2, Zenon DEF ClaimInv
  <2>4. CASE owned
    <3>1. hangPc' = "release"
      BY <2>1, <2>4
    <3> QED
      BY <1>1, <1>2, <2>1, <2>2, <2>3, <2>4, <3>1, RxNames, Zenon DEF ClaimInv
  <2>5. CASE ~owned
    <3>1. hangPc' = "idle"
      BY <2>1, <2>5
    <3> QED
      BY <1>1, <1>2, <2>1, <2>2, <2>3, <2>5, <3>1, RxNames, Zenon DEF ClaimInv
  <2> QED
    BY <2>4, <2>5
<1>12. CASE HangDone
  <2>1. /\ hangPc = "releasing" /\ hangPc' = "idle" /\ Idle(HangThread)
        /\ UNCHANGED <<line, owned, rxPc, missed>>
    BY <1>12, Zenon DEF HangDone, past
  <2>2. rxPc = "idle" /\ (line => missed)
    BY <2>1, Zenon DEF OrderInv, HangBusy
  <2>3. ~Says(todo[HangThread], "wireMox", FALSE, FALSE)
    <3>1. todo[HangThread] = << >>
      BY <2>1, Zenon DEF Idle
    <3> QED
      BY <3>1, SMT DEF Says
  <2>4. ~owned /\ ~Carrier
    BY <2>1, <2>3, Zenon DEF ClaimInv, Idle
  <2> QED
    BY <1>1, <1>2, <2>1, <2>2, <2>4, RxNames, Zenon DEF ClaimInv
<1>13. CASE Unheard
  BY <1>13, Zenon DEF Unheard
<1> QED
  BY <1>4, <1>5, <1>6, <1>7, <1>8, <1>9, <1>10, <1>11, <1>12, <1>13, Zenon DEF Own

LEMMA ClaimCalls ==
  ASSUME TypeOK, ThreadInv, OrderInv, ClaimInv, KeyMox \/ HangReleases
  PROVE  ClaimInv'
<1> USE Threads
<1>1. CASE KeyMox
  <2>1. /\ rxPc = "key" /\ rxPc' = "keying"
        /\ UNCHANGED <<moxOn, todo, hw, line, owned, hangPc, missed>>
        /\ \/ call'[RxThread] # NoCall /\ ret'[RxThread] = "ok"
           \/ call'[RxThread] = NoCall /\ ret'[RxThread] = "fail"
    BY <1>1, EntersKey DEF flags, past
  <2>2. owned /\ ~moxOn /\ ~Carrier /\ Carrier' = Carrier
    BY <2>1, Zenon DEF ClaimInv, Carrier
  <2>3. hangPc # "release" /\ hangPc # "releasing"
    <3>1. ~HangBusy
      BY <2>1, RxNames, Zenon DEF OrderInv
    <3> QED
      BY <3>1, SMT DEF HangBusy
  <2> QED
    BY <2>1, <2>2, <2>3, RxNames, Zenon DEF ClaimInv
<1>2. CASE HangReleases
  <2>1. /\ hangPc = "release" /\ hangPc' = "releasing" /\ call'[HangThread] # NoCall
        /\ UNCHANGED <<moxOn, todo, hw, line, owned, rxPc, missed>>
        /\ call'[RxThread] = call[RxThread] /\ ret'[RxThread] = ret[RxThread]
    BY <1>2, EntersRelease DEF flags, past
  <2>2. ~owned /\ (Carrier => moxOn) /\ Carrier' = Carrier
    BY <2>1, Zenon DEF ClaimInv, Carrier
  <2>3. rxPc = "idle" /\ (line => missed)
    BY <2>1, Zenon DEF OrderInv, HangBusy
  <2> QED
    BY <2>1, <2>2, <2>3, RxNames, Zenon DEF ClaimInv
<1> QED
  BY <1>1, <1>2

\* The list of a key-down ends in a carrier, that of a release in none.
LEMMA MoxSays ==
  ASSUME TypeOK, KeyInv, ~tunOn
  PROVE  /\ ~moxOn => Says(MoxEffects(TRUE), "wireMox", TRUE, FALSE)
         /\ moxOn => Says(MoxEffects(FALSE), "wireMox", FALSE, FALSE)
<1>1. "wireMox" \in Words /\ "wireMox" \notin {"raise", "engineTune"}
  BY SMT DEF Words, Lines
<1>2. \A a, on : Goal("wireMox", a, on, FALSE) = (on \/ FALSE)
  BY <1>1, Zenon DEF Goal
<1>3. CASE ~moxOn
  <2>1. Agrees("wireMox", FALSE)
    <3>1. Goal("wireMox", FALSE, moxOn, tunOn) = (moxOn \/ tunOn)
      BY <1>1, Zenon DEF Goal
    <3> QED
      BY <1>3, <3>1 DEF Agrees
  <2>2. Told(MoxEffects(TRUE), "wireMox", FALSE, Goal("wireMox", FALSE, TRUE, FALSE))
    BY <1>1, <2>1, MoxTold
  <2>3. Goal("wireMox", FALSE, TRUE, FALSE) = TRUE
    BY <1>2
  <2> QED
    BY <1>3, <2>2, <2>3 DEF Told
<1>4. CASE moxOn
  <2>1. Agrees("wireMox", TRUE)
    BY <1>1, <1>4, Zenon DEF Agrees, OnAir
  <2>2. Told(MoxEffects(FALSE), "wireMox", TRUE, Goal("wireMox", TRUE, FALSE, FALSE))
    BY <1>1, <2>1, MoxTold
  <2>3. Goal("wireMox", TRUE, FALSE, FALSE) = FALSE
    BY <1>2
  <2> QED
    BY <1>4, <2>2, <2>3 DEF Told
<1> QED
  BY <1>3, <1>4

LEMMA ClaimLock ==
  ASSUME TypeOK, KeyInv, CallsApart, ThreadInv, PlaceType, AloneInv, OrderInv, ClaimInv,
         NEW c \in Callers, Lock(c), UNCHANGED pttVars
  PROVE  ClaimInv'
<1> USE Threads
<1>1. /\ c = RxThread \/ c = HangThread
      /\ call[c] # NoCall /\ call'[c] = NoCall
      /\ \A d \in Callers \ {c} : call'[d] = call[d] /\ todo'[d] = todo[d] /\ ret'[d] = ret[d]
      /\ ret'[c] = "ok" /\ UNCHANGED hw
      /\ c = RxThread => moxOn' /\ todo'[c] = IF moxOn THEN << >> ELSE MoxEffects(TRUE)
      /\ c = HangThread => ~moxOn' /\ todo'[c] = IF moxOn THEN MoxEffects(FALSE) ELSE << >>
  BY LocksAlone
<1>2. Carrier' = Carrier /\ UNCHANGED <<line, owned, rxPc, hangPc, missed>> /\ ~Idle(c)
  BY <1>1, Zenon DEF Carrier, pttVars, past, Idle
<1>3. ~tunOn
  BY Zenon DEF AloneInv
<1>4. CASE c = RxThread
  <2>1. rxPc = "keying"
    BY <1>2, <1>4, Zenon DEF ThreadInv
  <2>2. owned /\ ~moxOn /\ ~Carrier
    BY <1>1, <1>4, <2>1, Zenon DEF ClaimInv
  <2>3. Says(todo'[c], "wireMox", TRUE, FALSE) /\ moxOn'
    BY <1>1, <1>3, <1>4, <2>2, MoxSays
  <2>4. hangPc # "release" /\ hangPc # "releasing"
    <3>1. ~HangBusy
      BY <2>1, RxNames, Zenon DEF OrderInv
    <3> QED
      BY <3>1, SMT DEF HangBusy
  <2> QED
    BY <1>1, <1>2, <1>4, <2>1, <2>2, <2>3, <2>4, RxNames, Zenon DEF ClaimInv
<1>5. CASE c = HangThread
  <2>1. hangPc = "releasing"
    BY <1>2, <1>5, Zenon DEF ThreadInv
  <2>2. ~owned /\ (Carrier => moxOn)
    BY <1>1, <1>5, <2>1, Zenon DEF ClaimInv
  <2>3. rxPc = "idle" /\ (line => missed)
    BY <2>1, Zenon DEF OrderInv, HangBusy
  <2>4. Carrier => Says(todo'[c], "wireMox", FALSE, FALSE)
    BY <1>1, <1>3, <1>5, <2>2, MoxSays
  <2> QED
    BY <1>1, <1>2, <1>5, <2>1, <2>2, <2>3, <2>4, RxNames, Zenon DEF ClaimInv
<1> QED
  BY <1>1, <1>4, <1>5

LEMMA ClaimEffect ==
  ASSUME TypeOK, CallsApart, ThreadInv, AloneInv, OrderInv, ClaimInv, Wired,
         NEW c \in Callers, Effect(c), Hears(c), UNCHANGED <<line, rxPc, hangPc, missed>>
  PROVE  ClaimInv'
<1> USE Threads
<1>1. /\ c = RxThread \/ c = HangThread
      /\ UNCHANGED <<moxOn, call, ret>> /\ call[c] = NoCall /\ ~Idle(c)
      /\ \A d \in Callers \ {c} : todo'[d] = todo[d]
      /\ c = RxThread => (Carrier => Carrier') /\ (Next1(c).fx = "raise" => Next1(c).on)
      /\ c = HangThread => (Carrier' => Carrier)
  BY EffectsAlone DEF flags
<1>2. "wireMox" \in Words
  BY SMT DEF Words, Lines
<1>3. CASE c = RxThread
  <2>1. rxPc = "keying"
    BY <1>1, <1>3, Zenon DEF ThreadInv
  <2>2. hangPc # "release" /\ hangPc # "releasing"
    <3>1. ~HangBusy
      BY <2>1, RxNames, Zenon DEF OrderInv
    <3> QED
      BY <3>1, SMT DEF HangBusy
  <2>3. owned'
    <3>1. owned
      BY <2>1, Zenon DEF ClaimInv
    <3> QED
      BY <1>1, <1>3, <3>1, Zenon DEF Hears
  <2>4. ret[RxThread] = "ok"
    BY <1>1, <1>3, Zenon DEF ThreadInv
  <2>5. moxOn /\ (Carrier \/ Says(todo[RxThread], "wireMox", TRUE, FALSE))
    BY <1>1, <1>3, <2>1, <2>4, Zenon DEF ClaimInv
  <2>6. Says(todo[RxThread], "wireMox", TRUE, FALSE) => Says(todo'[RxThread], "wireMox", TRUE, FALSE) \/ Carrier'
    BY <1>2, <1>3, EffectKeeps, Zenon DEF Carrier
  <2>7. moxOn' /\ (Carrier' \/ Says(todo'[RxThread], "wireMox", TRUE, FALSE))
    BY <1>1, <1>3, <2>5, <2>6, Zenon
  <2> QED
    BY <1>1, <1>3, <2>1, <2>2, <2>3, <2>4, <2>7, RxNames, Zenon DEF ClaimInv
<1>4. CASE c = HangThread
  <2>1. hangPc = "releasing"
    BY <1>1, <1>4, Zenon DEF ThreadInv
  <2>2. rxPc = "idle" /\ (line => missed)
    BY <2>1, Zenon DEF OrderInv, HangBusy
  <2>3. ~owned /\ (Carrier => Says(todo[HangThread], "wireMox", FALSE, FALSE))
    BY <1>1, <1>4, <2>1, Zenon DEF ClaimInv
  <2>4. ~owned'
    BY <2>3, Zenon DEF Hears
  <2>5. Says(todo[HangThread], "wireMox", FALSE, FALSE) => Says(todo'[HangThread], "wireMox", FALSE, FALSE) \/ ~Carrier'
    BY <1>2, <1>4, EffectKeeps, Zenon DEF Carrier
  <2>6. Carrier' => Says(todo'[HangThread], "wireMox", FALSE, FALSE)
    BY <1>1, <1>4, <2>3, <2>5, Zenon
  <2> QED
    BY <1>1, <1>4, <2>1, <2>2, <2>4, <2>6, RxNames, Zenon DEF ClaimInv
<1> QED
  BY <1>1, <1>3, <1>4

LEMMA ClaimLink ==
  ASSUME TypeOK, SoleInv, LinkMoves, Carried', ~raced', ~shared'
  PROVE  ClaimInv'
<1>1. UNCHANGED <<rxPc, hangPc, raced, shared, missed, moxOn, call, ret, todo>> /\ (Carrier' => Carrier)
  BY MovesLink, MovesKeep, Zenon DEF past, flags
<1>2. link' # "p1closing" /\ link' # "down"
  BY SMT DEF Carried
<1>3. CASE ~InUse /\ ~owned' /\ UNCHANGED line
  <2>1. ~Carrier' /\ rxPc' = "idle" /\ (line' => missed')
    BY <1>1, <1>3, Zenon DEF SoleInv, LinkInv
  <2> QED
    BY <1>3, <2>1, RxNames, Zenon DEF ClaimInv
<1>4. CASE UNCHANGED pttVars /\ Carried /\ (Carrier => Carrier')
  <2>1. UNCHANGED <<line, owned>>
    BY <1>4, Zenon DEF pttVars
  <2>2. ClaimInv
    BY <1>1, <1>4, Zenon DEF SoleInv
  <2>3. Carrier' <=> Carrier
    BY <1>1, <1>4
  <2> QED
    BY <1>1, <2>1, <2>2, <2>3, Zenon DEF ClaimInv
<1> QED
  BY <1>2, <1>3, <1>4, MovesShow, Zenon

LEMMA ClaimStep ==
  ASSUME TypeOK, KeyInv, CallsApart, ThreadInv, PlaceType, SoleInv, [PttNext]_allVars,
         Carried', ~raced', ~shared'
  PROVE  ClaimInv'
<1> USE Threads
<1>1. CASE LinkMoves
  BY <1>1, ClaimLink
<1>2. CASE ~LinkMoves
  <2>1. Carried /\ ~raced /\ ~shared
    BY <1>2, LinkStays, StillApart, Zenon DEF Carried
  <2>2. AloneInv /\ LinkInv /\ OrderInv /\ ClaimInv
    BY <2>1, Zenon DEF SoleInv
  <2>3. Heard /\ Wired
    <3>1. link \in {"p1told", "p1up", "p1dropping", "p1detached"} /\ Wired
      BY <2>1, SMT DEF Carried, Wired
    <3> QED
      BY <2>2, <3>1, Zenon DEF LinkInv
  <2>4. CASE Own
    BY <2>2, <2>3, <2>4, ClaimOwn
  <2>5. CASE KeyMox \/ HangReleases
    BY <2>2, <2>5, ClaimCalls
  <2>6. ASSUME NEW c \in Callers, Lock(c), UNCHANGED pttVars PROVE ClaimInv'
    BY <2>2, <2>6, ClaimLock
  <2>7. ASSUME NEW c \in Callers, Effect(c), Hears(c), UNCHANGED <<line, client, timer, rxPc, hangPc, past>>
        PROVE  ClaimInv'
    <3>1. UNCHANGED <<line, rxPc, hangPc, missed>>
      BY <2>7, Zenon DEF past
    <3> QED
      BY <2>2, <2>3, <2>7, <3>1, ClaimEffect
  <2>8. CASE \E c \in Others : OtherCall(c)
    BY <2>8, Zenon DEF OtherCall
  <2>9. CASE UNCHANGED allVars
    BY <2>2, <2>9, Zenon DEF allVars, vars, flags, outside, pttVars, past, ClaimInv, Carrier
  <2> QED
    BY <1>2, <2>4, <2>5, <2>6, <2>7, <2>8, <2>9, PttCases, Zenon DEF TxStep
<1> QED
  BY <1>1, <1>2

LEMMA SoleStep ==
  ASSUME TypeOK, KeyInv, CallsApart, ThreadInv, PlaceType, SoleInv, [PttNext]_allVars
  PROVE  SoleInv'
<1>1. ~shared' => AloneInv'
  BY AloneStep, Zenon DEF SoleInv
<1>2. LinkInv' /\ UnlinkedInv'
  BY LinkInvStep, UnlinkedStep, Zenon DEF SoleInv
<1>3. ~InUse' /\ ~shared' => ~Carrier'
  BY LowStep
<1>4. Carried' /\ ~raced' => OrderInv'
  BY OrderStep, Zenon DEF SoleInv
<1>5. Carried' /\ ~raced' /\ ~shared' => ClaimInv'
  BY ClaimStep
<1> QED
  BY <1>1, <1>2, <1>3, <1>4, <1>5, Zenon DEF SoleInv

LEMMA SoleInit == ASSUME PttInit PROVE SoleInv
<1> USE Threads
<1>1. /\ link = "down" /\ client = "none" /\ ~line /\ ~owned /\ rxPc = "idle" /\ hangPc = "idle"
      /\ ~tunOn /\ owner = "none" /\ \A c \in Callers : Idle(c)
  BY Zenon DEF PttInit, Init, Idle
<1>2. ~Carrier /\ ~hw["twoTone"]
  BY DEF PttInit, Init, Carrier, Lines
<1>3. Keys(<< >>, TRUE) /\ Keys(<< >>, FALSE)
  BY SMT DEF Keys
<1>4. AloneInv
  BY <1>1, <1>2, <1>3, Zenon DEF AloneInv, Idle
<1>5. LinkInv
  BY <1>1, SMT DEF LinkInv, InUse, Heard
<1>6. UnlinkedInv /\ ~Carried
  <2>1. ~Carried
    BY <1>1, SMT DEF Carried
  <2> QED
    BY <1>1, <2>1, Zenon DEF UnlinkedInv
<1> QED
  BY <1>2, <1>4, <1>5, <1>6, Zenon DEF SoleInv

LEMMA SoleAlways == PttSpec => [](SoleInv /\ TypeOK /\ PlaceType)
<1>1. PttInit => SoleInv
  BY SoleInit
<1>2. TypeOK /\ KeyInv /\ CallsApart /\ ThreadInv /\ PlaceType /\ SoleInv /\ [PttNext]_allVars => SoleInv'
  BY SoleStep
<1> QED
  BY <1>1, <1>2, ThreadsAlways, PTL DEF PttSpec

\* Between requests of the link the service serves a client in use, or none.
LEMMA RestLinks == ASSUME AtRest PROVE Carried \/ ~InUse
BY SMT DEF AtRest, Carried, InUse

\* With the key as the only user of the transmitter, for any sources and
\* operations TxService may know and however connects and disconnects fall
\* between its steps, a rest finds the claim exactly where the carrier is;
\* only a connect that failed after it was announced may leave a claim over.
THEOREM ClaimIsCarrier == PttSpec => []ClaimMatchesCarrier
<1>1. SoleInv /\ TypeOK /\ PlaceType => ClaimMatchesCarrier
  <2> SUFFICES ASSUME SoleInv, TypeOK, PlaceType, PttQuiet, ~shared, ~raced, ~Orphaned
               PROVE  owned = Carrier
    BY Zenon DEF ClaimMatchesCarrier, Carrier
  <2>1. rxPc = "idle" /\ hangPc = "idle" /\ (Carried \/ ~InUse)
    BY RestLinks, Zenon DEF PttQuiet
  <2>2. Carrier \in BOOLEAN /\ owned \in BOOLEAN
    BY DEF Carrier, TypeOK, Lines, PlaceType
  <2>3. owned <=> Carrier
    <3>1. CASE Carried
      BY <2>1, <3>1, Zenon DEF SoleInv, ClaimInv
    <3>2. CASE ~InUse
      <4>1. ~Heard /\ ~Carrier
        BY <3>2, Zenon DEF SoleInv, LinkInv
      <4>2. client = "none"
        BY <4>1, SMT DEF PlaceType, Clients, Heard, Orphaned
      <4> QED
        BY <2>1, <4>1, <4>2, RxNames, Zenon DEF SoleInv, UnlinkedInv
    <3> QED
      BY <2>1, <3>1, <3>2
  <2> QED
    BY <2>2, <2>3
<1> QED
  BY <1>1, SoleAlways, PTL

\* And a key that is held down keeps the carrier on the wire, unless its
\* key-down was refused or its press was missed: no client was subscribed to,
\* or MOX was still on from before a reconnect.
THEOREM HeldKeyTransmits == PttSpec => []HeldKeyKeepsMox
<1>1. SoleInv => HeldKeyKeepsMox
  <2> SUFFICES ASSUME SoleInv, PttQuiet, ~shared, ~raced, line, ~missed, ret[RxThread] = "ok"
               PROVE  Carrier
    BY Zenon DEF HeldKeyKeepsMox, Carrier
  <2>1. rxPc = "idle" /\ (Carried \/ ~InUse)
    BY RestLinks, Zenon DEF PttQuiet
  <2>2. InUse
    BY Zenon DEF SoleInv, LinkInv
  <2> QED
    BY <2>1, <2>2, Zenon DEF SoleInv, ClaimInv
<1> QED
  BY <1>1, SoleAlways, PTL
=============================================================================
