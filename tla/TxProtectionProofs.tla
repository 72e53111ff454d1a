------------------------- MODULE TxProtectionProofs -------------------------
(* TxProtection for every timeout and every bound on how late the loop      *)
(* wakes: types, the bounds on a transmission and on a bad match, and what  *)
(* a trip is decided on.                                                   *)
EXTENDS TxProtection, TLAPS

LEMMA HorizonNat ==
  /\ TxTimeout \in Nat /\ MaxLate \in Nat /\ TxTimeout > 5
  /\ Horizon = TxTimeout + MaxLate + 7 /\ None = Horizon + 1
  /\ Horizon \in Nat /\ None \notin 0..Horizon
BY TimingAssumption DEF Horizon, None, IdleTick

LEMMA OlderType ==
  ASSUME NEW t \in 0..Horizon
  PROVE  Older(t) \in 0..Horizon
BY HorizonNat DEF Older

\* Dropping what is keyed.
LEMMA UnkeyedType ==
  ASSUME Unkeyed
  PROVE  /\ tx' = "off" /\ age' = 0 /\ carrier' = 0 /\ bad' = 0
         /\ rearmed' \in BOOLEAN
<1>1. rearmed' \in BOOLEAN
  BY Zenon DEF Unkeyed
<1> QED
  BY <1>1 DEF Unkeyed

\* The iteration of the loop hands types on.
LEMMA LoopType ==
  ASSUME TypeOK,
         Wake \/ TimeoutTrips \/ LookIdle \/ LookKeyed \/ Judge \/ SwrTrips
  PROVE  TypeOK'
<1> USE HorizonNat DEF TypeOK, IdleTick, MoxTick
<1>1. CASE Wake
  BY <1>1 DEF Wake
<1>2. CASE TimeoutTrips
  BY <1>2, UnkeyedType DEF TimeoutTrips
<1>3. CASE LookIdle
  BY <1>3 DEF LookIdle, SleepFor
<1>4. CASE LookKeyed
  BY <1>4 DEF LookKeyed
<1>5. CASE Judge
  <2>1. Judged \in {None} \cup 0..Horizon
    BY DEF Judged
  <2> QED
    BY <1>5, <2>1 DEF Judge, SleepFor
<1>6. CASE SwrTrips
  BY <1>6, UnkeyedType DEF SwrTrips, SleepFor
<1> QED
  BY <1>1, <1>2, <1>3, <1>4, <1>5, <1>6

LEMMA ElapseType ==
  ASSUME TypeOK, Elapse
  PROVE  /\ age' \in 0..Horizon /\ carrier' \in 0..Horizon /\ bad' \in 0..Horizon
         /\ over' \in {None} \cup 0..Horizon
         /\ tx' = tx /\ swr' = swr /\ pc' = pc /\ rearmed' = rearmed
BY HorizonNat, OlderType DEF TypeOK, Elapse

LEMMA StepType ==
  ASSUME TypeOK, [Next]_vars
  PROVE  TypeOK'
<1> USE HorizonNat DEF TypeOK
<1>1. CASE Key("mox") \/ Key("tun")
  <2>1. rearmed' \in BOOLEAN
    BY <1>1, Zenon DEF Key
  <2> QED
    BY <1>1, <2>1 DEF Key, loop
<1>2. CASE ArmTwoTone
  BY <1>2 DEF ArmTwoTone, loop
<1>3. CASE Unkey
  BY <1>3, UnkeyedType DEF Unkey, loop
<1>4. CASE LoadChanges
  BY <1>4 DEF LoadChanges, loop
<1>5. CASE Tick
  BY <1>5, ElapseType DEF Tick, IdleTick
<1>6. CASE Oversleep
  BY <1>6, ElapseType DEF Oversleep, IdleTick
<1>7. CASE UNCHANGED vars
  BY <1>7 DEF vars, loop
<1> QED
  BY <1>1, <1>2, <1>3, <1>4, <1>5, <1>6, <1>7, LoopType DEF Next

\* Types are kept for every timeout and every lateness of the loop.
THEOREM TypeCorrect == Spec => []TypeOK
<1>1. Init => TypeOK
  <2>1. Init => rearmed \in BOOLEAN
    BY Zenon DEF Init
  <2> QED
    BY <2>1, HorizonNat DEF Init, TypeOK, Swrs, IdleTick
<1> QED
  BY <1>1, StepType, PTL DEF Spec

-----------------------------------------------------------------------------
\* Why the bound holds.  Unless it was re-armed, what is keyed has been so for
\* its age.  Past a look at the timeout it is younger than the timeout; while
\* the loop sleeps, its age and the rest of the sleep exceed the timeout by no
\* more than the loop has overslept.
Keyed == tx # "off"

WatchInv ==
  /\ Keyed /\ ~rearmed => carrier = age
  /\ ~Keyed => carrier = 0
  /\ Keyed /\ pc = "sleep" => age + sleep <= TxTimeout + late
  /\ Keyed /\ pc = "timeout" => age <= TxTimeout + MaxLate
  /\ Keyed /\ pc \in {"look", "judge", "swr"} => age < TxTimeout
  /\ pc = "sleep" => sleep <= TxTimeout

LEMMA WatchImpliesBound ==
  ASSUME TypeOK, WatchInv
  PROVE  CarrierBounded
<1> USE HorizonNat DEF TypeOK, WatchInv, CarrierBounded, Keyed
<1>1. CASE Keyed /\ pc = "sleep"
  BY <1>1
<1>2. CASE Keyed /\ pc # "sleep"
  BY <1>2
<1>3. CASE ~Keyed
  BY <1>3
<1> QED
  BY <1>1, <1>2, <1>3

\* Operators and time.
LEMMA EnvironmentWatched ==
  ASSUME TypeOK, WatchInv,
         \/ Key("mox") \/ Key("tun") \/ ArmTwoTone \/ Unkey \/ LoadChanges
         \/ Tick \/ Oversleep
  PROVE  WatchInv'
<1> USE HorizonNat DEF TypeOK, WatchInv, Keyed, loop
<1>1. CASE Key("mox") \/ Key("tun")
  BY <1>1 DEF Key
<1>2. CASE ArmTwoTone
  BY <1>2 DEF ArmTwoTone
<1>3. CASE Unkey
  BY <1>3 DEF Unkey, Unkeyed
<1>4. CASE LoadChanges
  BY <1>4 DEF LoadChanges
<1>5. CASE Tick
  BY <1>5 DEF Tick, Elapse, Older
<1>6. CASE Oversleep
  BY <1>6 DEF Oversleep, Elapse, Older
<1> QED
  BY <1>1, <1>2, <1>3, <1>4, <1>5, <1>6

\* The loop.
LEMMA LoopWatched ==
  ASSUME TypeOK, WatchInv,
         Wake \/ TimeoutTrips \/ LookIdle \/ LookKeyed \/ Judge \/ SwrTrips
  PROVE  WatchInv'
<1> USE HorizonNat DEF TypeOK, WatchInv, Keyed, IdleTick, MoxTick
<1>1. CASE Wake
  BY <1>1 DEF Wake, TimeoutDue
<1>2. CASE TimeoutTrips
  BY <1>2 DEF TimeoutTrips, Unkeyed
<1>3. CASE LookIdle
  BY <1>3 DEF LookIdle, SleepFor
<1>4. CASE LookKeyed
  BY <1>4 DEF LookKeyed
<1>5. CASE Judge
  BY <1>5 DEF Judge, SleepFor
<1>6. CASE SwrTrips
  BY <1>6 DEF SwrTrips, SleepFor, Unkeyed
<1> QED
  BY <1>1, <1>2, <1>3, <1>4, <1>5, <1>6

\* Whatever operators do, no flag outlives the timeout by more than the loop
\* oversleeps, unless a two-tone test was armed over it.
THEOREM TransmissionsEnd == Spec => []CarrierBounded
<1>1. Init => WatchInv
  BY HorizonNat DEF Init, WatchInv, Keyed
<1>2. TypeOK /\ WatchInv /\ [Next]_vars => WatchInv'
  <2>1. CASE UNCHANGED vars
    BY <2>1 DEF vars, loop, WatchInv, Keyed
  <2> QED
    BY <2>1, EnvironmentWatched, LoopWatched DEF Next
<1> QED
  BY <1>1, <1>2, TypeCorrect, WatchImpliesBound, PTL DEF Spec

-----------------------------------------------------------------------------
\* Why a bad match is tripped.  Before the sustain window runs, it has been
\* there for no longer than the idle sleep or the grace window and one late
\* look; after that the window is older by at most that much, and the loop
\* looks before the window has been over for more than one late look.
Onset == IdleTick + MaxLate

SwrInv ==
  /\ ~Keyed => bad = 0
  /\ swr \notin Above(tx) => bad = 0
  /\ bad <= age
  /\ pc = "sleep" /\ over = None => bad + sleep <= IdleTick + late
  /\ pc # "sleep" /\ over = None /\ pc # "swr" => bad <= Onset
  /\ over # None => bad <= Onset + over
  /\ over # None /\ pc = "sleep" => over + sleep <= Sustain + late
  /\ over # None => over <= Sustain + MaxLate
  /\ over # None /\ pc = "sleep" => sleep <= MoxTick
  /\ pc = "swr" => over = None /\ bad <= Onset + Sustain + MaxLate

LEMMA SwrImpliesBound ==
  ASSUME TypeOK, SwrInv
  PROVE  SwrTripInTime
BY HorizonNat
   DEF TypeOK, SwrInv, SwrTripInTime, Onset, IdleTick, MoxTick, Sustain

\* Operators, the antenna and time.
LEMMA EnvironmentTimely ==
  ASSUME TypeOK, SwrInv,
         \/ Key("mox") \/ Key("tun") \/ ArmTwoTone \/ Unkey \/ LoadChanges
         \/ Tick \/ Oversleep
  PROVE  SwrInv'
<1> USE HorizonNat
    DEF TypeOK, SwrInv, Keyed, loop, Onset, IdleTick, MoxTick, Sustain, Above
<1>1. CASE Key("mox") \/ Key("tun")
  BY <1>1 DEF Key
<1>2. CASE ArmTwoTone
  BY <1>2 DEF ArmTwoTone
<1>3. CASE Unkey
  BY <1>3 DEF Unkey, Unkeyed
<1>4. CASE LoadChanges
  BY <1>4 DEF LoadChanges
<1>5. CASE Tick
  BY <1>5 DEF Tick, Elapse, Older
<1>6. CASE Oversleep
  BY <1>6 DEF Oversleep, Elapse, Older
<1> QED
  BY <1>1, <1>2, <1>3, <1>4, <1>5, <1>6

\* The loop.
LEMMA LoopTimely ==
  ASSUME TypeOK, SwrInv,
         Wake \/ TimeoutTrips \/ LookIdle \/ LookKeyed \/ Judge \/ SwrTrips
  PROVE  SwrInv'
<1> USE HorizonNat
    DEF TypeOK, SwrInv, Keyed, Onset, IdleTick, MoxTick, Sustain, Above
<1>1. CASE Wake
  BY <1>1 DEF Wake, TimeoutDue
<1>2. CASE TimeoutTrips
  BY <1>2 DEF TimeoutTrips, Unkeyed
<1>3. CASE LookIdle
  BY <1>3 DEF LookIdle, SleepFor
<1>4. CASE LookKeyed
  BY <1>4 DEF LookKeyed
<1>5. CASE Judge
  <2>1. CASE SwrDue
    BY <1>5, <2>1 DEF Judge, SwrDue
  <2>2. CASE InGrace \/ swr \notin Above(tx)
    BY <1>5, <2>2 DEF Judge, SleepFor, SwrDue, Judged, InGrace, Grace
  <2>3. CASE ~SwrDue /\ ~InGrace /\ swr \in Above(tx)
    BY <1>5, <2>3 DEF Judge, SleepFor, SwrDue, Judged, InGrace
  <2> QED
    BY <2>1, <2>2, <2>3
<1>6. CASE SwrTrips
  BY <1>6 DEF SwrTrips, SleepFor, Unkeyed
<1> QED
  BY <1>1, <1>2, <1>3, <1>4, <1>5, <1>6

\* However late the loop wakes, and whatever operators do meanwhile, no bad
\* match stays on beyond the idle sleep, the sustain window and two looks.
THEOREM BadMatchEnds == Spec => []SwrTripInTime
<1>1. Init => SwrInv
  BY HorizonNat DEF Init, SwrInv, Keyed, Above, Swrs, Onset, IdleTick, MoxTick, Sustain
<1>2. TypeOK /\ SwrInv /\ [Next]_vars => SwrInv'
  <2>1. CASE UNCHANGED vars
    BY <2>1 DEF vars, loop, SwrInv, Keyed
  <2> QED
    BY <2>1, EnvironmentTimely, LoopTimely DEF Next
<1> QED
  BY <1>1, <1>2, TypeCorrect, SwrImpliesBound, PTL DEF Spec

-----------------------------------------------------------------------------
\* Why a trip looks at one transmission: the sustain window that runs has begun
\* after the grace window of what is keyed, or what is keyed is so young that
\* the next look finds it in its grace window and forgets the sustain window.
\* The latter needs a loop that is punctual.
Settled == age >= Grace(tx) + over
Young == IF pc = "sleep" THEN age + sleep <= MoxTick + late
                         ELSE age <= MoxTick + MaxLate

OwnTripInv == Keyed /\ over # None => Settled \/ Young

LEMMA EnvironmentOwns ==
  ASSUME TypeOK, SwrInv, OwnTripInv,
         \/ Key("mox") \/ Key("tun") \/ ArmTwoTone \/ Unkey \/ LoadChanges
         \/ Tick \/ Oversleep
  PROVE  OwnTripInv'
<1> USE HorizonNat
    DEF TypeOK, SwrInv, OwnTripInv, Settled, Young, Keyed, loop, Grace,
        IdleTick, MoxTick, Sustain
<1>1. CASE Key("mox") \/ Key("tun")
  BY <1>1 DEF Key
<1>2. CASE ArmTwoTone
  BY <1>2 DEF ArmTwoTone
<1>3. CASE Unkey
  BY <1>3 DEF Unkey, Unkeyed
<1>4. CASE LoadChanges
  BY <1>4 DEF LoadChanges
<1>5. CASE Tick
  BY <1>5 DEF Tick, Elapse, Older
<1>6. CASE Oversleep
  BY <1>6 DEF Oversleep, Elapse, Older
<1> QED
  BY <1>1, <1>2, <1>3, <1>4, <1>5, <1>6

LEMMA LoopOwns ==
  ASSUME Punctual, TypeOK, SwrInv, OwnTripInv,
         Wake \/ TimeoutTrips \/ LookIdle \/ LookKeyed \/ Judge \/ SwrTrips
  PROVE  OwnTripInv'
<1> USE HorizonNat
    DEF Punctual, TypeOK, SwrInv, OwnTripInv, Settled, Young, Keyed, Grace,
        IdleTick, MoxTick, Sustain
<1>1. CASE Wake
  BY <1>1 DEF Wake, TimeoutDue
<1>2. CASE TimeoutTrips
  BY <1>2 DEF TimeoutTrips, Unkeyed
<1>3. CASE LookIdle
  BY <1>3 DEF LookIdle, SleepFor
<1>4. CASE LookKeyed
  BY <1>4 DEF LookKeyed
<1>5. CASE Judge
  BY <1>5 DEF Judge, SleepFor, SwrDue, Judged, InGrace
<1>6. CASE SwrTrips
  BY <1>6 DEF SwrTrips, SleepFor, Unkeyed
<1> QED
  BY <1>1, <1>2, <1>3, <1>4, <1>5, <1>6

\* Only Judge decides a trip, and only when it is due.
LEMMA TripIsOwn ==
  ASSUME Punctual, TypeOK, OwnTripInv, [Next]_vars, pc' = "swr", pc # "swr"
  PROVE  age >= Grace(tx) + Sustain
<1>1. Judge /\ SwrDue
  BY DEF Next, vars, loop, Key, ArmTwoTone, Unkey, LoadChanges, Tick, Oversleep,
         Elapse, Wake, TimeoutTrips, LookIdle, LookKeyed, Judge, SwrTrips, SleepFor
<1> QED
  BY <1>1, HorizonNat
     DEF Judge, SwrDue, InGrace, Punctual, TypeOK, OwnTripInv, Settled, Young,
         Keyed, Grace, MoxTick, Sustain

\* A loop that wakes at most one look late trips for the transmission that is on
\* and never for what an earlier one did.
THEOREM TripsForItsOwn ==
  ASSUME Punctual
  PROVE  Spec => TripWithinOneTransmission
<1>1. Init => SwrInv /\ OwnTripInv
  BY HorizonNat DEF Init, SwrInv, OwnTripInv, Keyed, Above, Swrs, Onset, IdleTick, MoxTick, Sustain
<1>2. TypeOK /\ SwrInv /\ OwnTripInv /\ [Next]_vars => SwrInv' /\ OwnTripInv'
  <2>1. CASE UNCHANGED vars
    BY <2>1 DEF vars, loop, SwrInv, OwnTripInv, Settled, Young, Keyed
  <2> QED
    BY <2>1, EnvironmentTimely, LoopTimely, EnvironmentOwns, LoopOwns DEF Next
<1>3. TypeOK /\ OwnTripInv /\ [Next]_vars
        => [pc' = "swr" /\ pc # "swr" => age >= Grace(tx) + Sustain]_vars
  BY TripIsOwn
<1> QED
  BY <1>1, <1>2, <1>3, TypeCorrect, PTL DEF Spec, TripWithinOneTransmission
=============================================================================
