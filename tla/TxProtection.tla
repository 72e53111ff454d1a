---------------------------- MODULE TxProtection ----------------------------
(***************************************************************************)
(* The 10 Hz loop of TxMetersService that protects the transmitter: the    *)
(* 120 s timeout and the SWR trip with its per-mode threshold, start-up    *)
(* grace and sustain window.  Time is in units of 100 ms; the loop sleeps  *)
(* one unit while keyed and five while idle, and may wake late.  Operators *)
(* key, preempt, re-arm and unkey at any time, in the middle of an         *)
(* iteration too; an iteration itself takes no time.                       *)
(***************************************************************************)
EXTENDS Naturals

CONSTANTS
  TxTimeout,     \* units; 1200 in the code
  MaxLate        \* bound: units the loop may oversleep

MoxTick == 1
IdleTick == 5

\* The timeout is longer than the idle sleep in which a key may go down.
ASSUME TimingAssumption ==
  TxTimeout \in Nat /\ TxTimeout > IdleTick /\ MaxLate \in Nat

Sustain == 5
Grace(mode) == IF mode = "tun" THEN 5 ELSE 3

\* A key that goes down right after a look is still in its grace window at the
\* next one, however late the loop wakes.
Punctual == MoxTick + MaxLate < Grace("mox")

\* "mid" is above 2.5:1, "high" above 6:1.
Swrs == {"low", "mid", "high"}
Above(mode) == IF mode = "tun" THEN {"high"} ELSE {"mid", "high"}

Horizon == TxTimeout + IdleTick + MaxLate + 2   \* ages are capped here
None == Horizon + 1                             \* a null time

VARIABLES
  tx,       \* "off", "mox" or "tun": MOX and TUN exclude each other
  age,      \* time since MoxStartedAt or TunStartedAt
  swr,      \* the SWR of the smoothed meter
  over,     \* time since _swrAboveThresholdSince, or None
  sleep,    \* what is left of the loop's delay
  late,     \* how long the loop has overslept
  pc,       \* where the loop is
  carrier,  \* history: time the flag has been on without a break
  bad,      \* history: time keyed with the SWR above the mode's threshold,
            \* since the two-tone test was last armed
  rearmed   \* history: a two-tone test was armed over the MOX now on

loop == <<over, sleep, late, pc>>
vars == <<tx, age, swr, loop, carrier, bad, rearmed>>

Older(t) == IF t < Horizon THEN t + 1 ELSE t

-----------------------------------------------------------------------------
(* Operators and antennas.                                                 *)

Key(mode) ==
  /\ tx # mode
  /\ tx' = mode /\ age' = 0 /\ carrier' = 0 /\ bad' = 0
  /\ rearmed' = FALSE
  /\ UNCHANGED <<swr, loop>>

\* TrySetTwoTone(on) takes a new start time whether or not MOX was on.
ArmTwoTone ==
  /\ tx = "mox"
  /\ age' = 0 /\ rearmed' = TRUE /\ bad' = 0
  /\ UNCHANGED <<tx, swr, loop, carrier>>

Unkeyed ==
  tx' = "off" /\ age' = 0 /\ carrier' = 0 /\ bad' = 0 /\ rearmed' = FALSE

Unkey == tx # "off" /\ Unkeyed /\ UNCHANGED <<swr, loop>>

LoadChanges ==
  /\ swr' \in Swrs \ {swr}
  /\ bad' = IF swr' \in Above(tx) THEN bad ELSE 0
  /\ UNCHANGED <<tx, age, loop, carrier, rearmed>>

Elapse ==
  /\ age' = Older(age)
  /\ over' = IF over = None THEN None ELSE Older(over)
  /\ carrier' = IF tx = "off" THEN 0 ELSE Older(carrier)
  /\ bad' = IF tx # "off" /\ swr \in Above(tx) THEN Older(bad) ELSE 0
  /\ UNCHANGED <<tx, swr, pc, rearmed>>

Tick ==
  /\ pc = "sleep" /\ sleep > 0
  /\ sleep' = sleep - 1 /\ late' = late
  /\ Elapse

Oversleep ==
  /\ pc = "sleep" /\ sleep = 0 /\ late < MaxLate
  /\ late' = late + 1 /\ sleep' = 0
  /\ Elapse

-----------------------------------------------------------------------------
(* One iteration of the loop.                                              *)

\* Mutant: only MOX has a timeout.
TimeoutDueMoxOnly == tx = "mox" /\ age >= TxTimeout

TimeoutDue == tx # "off" /\ age >= TxTimeout

\* EvaluateTimeoutTrip.
Wake ==
  /\ pc = "sleep" /\ sleep = 0
  /\ pc' = IF TimeoutDue THEN "timeout" ELSE "look"
  /\ late' = 0
  /\ UNCHANGED <<tx, age, swr, over, sleep, carrier, bad, rearmed>>

\* TryTripForAlert(TxTimeout): whatever is keyed by now is dropped.
TimeoutTrips ==
  /\ pc = "timeout"
  /\ Unkeyed
  /\ pc' = "look"
  /\ UNCHANGED <<swr, over, sleep, late>>

\* Mutant: the loop sleeps in both branches.
SleepForTwice(d) == sleep' = 2 * d /\ pc' = "sleep" /\ UNCHANGED late

SleepFor(d) == sleep' = d /\ pc' = "sleep" /\ UNCHANGED late

\* Unkeyed: the trip timer is cleared and the loop slows down.
LookIdle ==
  /\ pc = "look" /\ tx = "off"
  /\ over' = None
  /\ SleepFor(IdleTick)
  /\ UNCHANGED <<tx, age, swr, carrier, bad, rearmed>>

LookKeyed ==
  /\ pc = "look" /\ tx # "off"
  /\ pc' = "judge"
  /\ UNCHANGED <<tx, age, swr, over, sleep, late, carrier, bad, rearmed>>

\* The start time of a flag that has gone meanwhile counts as now.
InGrace == tx = "off" \/ age < Grace(tx)
SwrDue == ~InGrace /\ swr \in Above(tx) /\ over # None /\ over >= Sustain

\* Mutant: the grace window only postpones the decision.
JudgedInGrace ==
  CASE InGrace -> over
    [] ~InGrace /\ swr \notin Above(tx) -> None
    [] OTHER -> IF over = None THEN 0 ELSE over

\* Mutant: every look above the threshold restarts the sustain window.
JudgedAfresh ==
  IF InGrace \/ swr \notin Above(tx) THEN None ELSE 0

\* _swrAboveThresholdSince after a look that does not trip.
Judged ==
  CASE InGrace \/ swr \notin Above(tx) -> None
    [] OTHER -> IF over = None THEN 0 ELSE over

\* EvaluateSwrTrip.
Judge ==
  /\ pc = "judge"
  /\ \/ SwrDue /\ over' = None /\ pc' = "swr" /\ UNCHANGED <<sleep, late>>
     \/ ~SwrDue /\ over' = Judged /\ SleepFor(MoxTick)
  /\ UNCHANGED <<tx, age, swr, carrier, bad, rearmed>>

\* TryTripForAlert(SwrTrip).
SwrTrips ==
  /\ pc = "swr"
  /\ Unkeyed
  /\ SleepFor(MoxTick)
  /\ UNCHANGED <<swr, over>>

-----------------------------------------------------------------------------
Init ==
  /\ tx = "off" /\ age = 0 /\ swr = "low"
  /\ over = None /\ sleep = 0 /\ late = 0 /\ pc = "sleep"
  /\ carrier = 0 /\ bad = 0 /\ rearmed = FALSE

Next ==
  \/ Key("mox") \/ Key("tun") \/ ArmTwoTone \/ Unkey \/ LoadChanges
  \/ Tick \/ Oversleep
  \/ Wake \/ TimeoutTrips \/ LookIdle \/ LookKeyed \/ Judge \/ SwrTrips

Spec == Init /\ [][Next]_vars

-----------------------------------------------------------------------------
TypeOK ==
  /\ tx \in {"off", "mox", "tun"} /\ swr \in Swrs
  /\ age \in 0..Horizon /\ carrier \in 0..Horizon /\ bad \in 0..Horizon
  /\ over \in {None} \cup 0..Horizon
  /\ sleep \in 0..IdleTick /\ late \in 0..MaxLate
  /\ rearmed \in BOOLEAN
  /\ pc \in {"sleep", "timeout", "look", "judge", "swr"}

\* No flag stays on longer than the timeout and what the loop may oversleep,
\* by however many operators it is kept keyed or preempted (PRD FR-6; "a single
\* MOX/TUN transmission may not exceed 120 s", TxMetersService.cs:101).  A
\* two-tone test armed over a MOX starts the count again, see README.
CarrierBounded == ~rearmed => carrier <= TxTimeout + MaxLate

\* A bad match is tripped in bounded time: the idle sleep in which the key
\* went down, or the grace window, then the sustain window and two looks.
SwrTripInTime == bad <= IdleTick + Sustain + 2 * (MoxTick + MaxLate)

\* An SWR trip is decided on one transmission alone: the sustain window that
\* runs out lies wholly after the grace window of what is keyed now, however
\* fast the operator unkeyed, re-keyed or changed the mode between two looks.
\* It needs a loop that is Punctual.
TripWithinOneTransmission ==
  [][pc' = "swr" /\ pc # "swr" => age >= Grace(tx) + Sustain]_vars
=============================================================================
