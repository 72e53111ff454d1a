---------------------------- MODULE ExternalPtt ----------------------------
(***************************************************************************)
(* ExternalPttService on top of TxKeying: the radio reports its hardware   *)
(* PTT line, the service promotes it to MOX and releases MOX 250 ms after  *)
(* the line has dropped.  Three threads meet here: the receive thread that *)
(* reports the edges, the timer callback of the hang window, and whoever   *)
(* raises TxActiveChanged.  The service hears the edges of a client only   *)
(* from OnConnected to OnDisconnected; the client reports them before and  *)
(* after, and a connect that fails raises no Disconnected.                 *)
(***************************************************************************)
EXTENDS TxKeying

CONSTANTS
  RxThread, HangThread    \* two of the callers of TxService

ASSUME ThreadsAssumption ==
  /\ {RxThread, HangThread} \subseteq Callers /\ RxThread # HangThread
  /\ "mox" \in Ops /\ "Hardware" \in Sources

VARIABLES
  line,      \* Protocol1Client.HardwarePtt of the client that runs
  client,    \* ExternalPttService._client: none, the live one, or one whose
             \* connect failed, with the level it reported last
  owned,     \* ExternalPttService._owned
  timer,     \* TRUE iff the hang timer is armed
  rxPc,      \* where the receive thread is in HandleRising
  hangPc,    \* where the timer callback is in OnHangElapsed
  raced,     \* history: the line rose between the callback's look at it and
             \* the end of the callback
  shared,    \* history: somebody else has used the transmitter
  missed     \* history: the last press went unheard, or found MOX on over an
             \* unkeyed wire, left over from a lost link

past == <<raced, shared, missed>>
pttVars == <<line, client, owned, timer, rxPc, hangPc, past>>
allVars == <<vars, pttVars>>

Others == Callers \ {RxThread, HangThread}
HardwareMox(on) == [op |-> "mox", on |-> on, source |-> "Hardware"]

-----------------------------------------------------------------------------
(* HandleRising, on the receive thread: it handles one edge at a time.     *)

\* A client runs, and its receive loop takes the next edge once it has handled
\* the last one.
EdgeMayArrive ==
  /\ rxPc = "idle"
  /\ link \in {"p1opening", "p1settling", "p1told", "p1up",
              "p1dropping", "p1detached", "p1closing"}

Heard == client = "live"

Rising ==
  /\ EdgeMayArrive /\ ~line /\ Heard
  /\ line' = TRUE /\ timer' = FALSE
  /\ rxPc' = "gate"
  /\ raced' = (raced \/ hangPc \notin {"idle", "look"})
  /\ missed' = (moxOn /\ ~hw["wireMox"])
  /\ UNCHANGED <<vars, client, owned, hangPc, shared>>

\* An edge nobody is subscribed to.
Unheard ==
  /\ EdgeMayArrive /\ ~Heard
  /\ line' = ~line
  /\ missed' = TRUE
  /\ UNCHANGED <<vars, client, owned, timer, rxPc, hangPc, raced, shared>>

\* IsMoxOn || IsTunOn || IsTwoToneOn: the host is keyed already.
HostKeyed == moxOn \/ tunOn \/ hw["twoTone"]

Gate ==
  /\ rxPc = "gate"
  /\ rxPc' = IF HostKeyed THEN "idle" ELSE "claim"
  /\ UNCHANGED <<vars, line, client, owned, timer, hangPc, past>>

Claim ==
  /\ rxPc = "claim"
  /\ rxPc' = IF owned THEN "idle" ELSE "key"
  /\ owned' = TRUE
  /\ UNCHANGED <<vars, line, client, timer, hangPc, past>>

KeyMox ==
  /\ rxPc = "key"
  /\ Enter(RxThread, HardwareMox(TRUE)) \/ Refuse(RxThread, HardwareMox(TRUE))
  /\ rxPc' = "keying"
  /\ UNCHANGED <<line, client, owned, timer, hangPc, past>>

\* Mutant: a refused key-down keeps the claim.
KeyedKeepsClaim ==
  /\ rxPc = "keying" /\ Idle(RxThread)
  /\ rxPc' = "idle"
  /\ UNCHANGED <<vars, line, client, owned, timer, hangPc, past>>

\* TrySetMox has returned; a refusal gives the claim back.
Keyed ==
  /\ rxPc = "keying" /\ Idle(RxThread)
  /\ owned' = (owned /\ ret[RxThread] = "ok")
  /\ rxPc' = "idle"
  /\ UNCHANGED <<vars, line, client, timer, hangPc, past>>

\* Mutant: the falling edge arms the timer only if the service has no claim.
FallingUnowned ==
  /\ EdgeMayArrive /\ line /\ Heard
  /\ line' = FALSE /\ timer' = ~owned
  /\ UNCHANGED <<vars, client, owned, rxPc, hangPc, past>>

\* HandleFalling only arms the hang timer.
Falling ==
  /\ EdgeMayArrive /\ line /\ Heard
  /\ line' = FALSE /\ timer' = TRUE
  /\ UNCHANGED <<vars, client, owned, rxPc, hangPc, past>>

(* OnHangElapsed, on a pool thread.                                        *)

HangFires ==
  /\ timer /\ hangPc = "idle"
  /\ timer' = FALSE /\ hangPc' = "look"
  /\ UNCHANGED <<vars, line, client, owned, rxPc, past>>

\* Mutant: the callback does not look at the line again.
HangLooksAway ==
  /\ hangPc = "look"
  /\ hangPc' = "take"
  /\ UNCHANGED <<vars, line, client, owned, timer, rxPc, past>>

\* _client is not null and its HardwarePtt is high.
High == client = "deadHigh" \/ (Heard /\ line)

\* The level is looked at once, before the claim is taken.
HangLooks ==
  /\ hangPc = "look"
  /\ hangPc' = IF High THEN "idle" ELSE "take"
  /\ UNCHANGED <<vars, line, client, owned, timer, rxPc, past>>

HangTakes ==
  /\ hangPc = "take"
  /\ hangPc' = IF owned THEN "release" ELSE "idle"
  /\ owned' = FALSE
  /\ UNCHANGED <<vars, line, client, timer, rxPc, past>>

HangReleases ==
  /\ hangPc = "release"
  /\ Enter(HangThread, HardwareMox(FALSE))
  /\ hangPc' = "releasing"
  /\ UNCHANGED <<line, client, owned, timer, rxPc, past>>

HangDone ==
  /\ hangPc = "releasing" /\ Idle(HangThread)
  /\ hangPc' = "idle"
  /\ UNCHANGED <<vars, line, client, owned, timer, rxPc, past>>

-----------------------------------------------------------------------------
(* Steps of TxService as this service sees them.                           *)

\* OnTxActiveChanged: any falling edge drops the claim.
Hears(c) == owned' = (owned /\ ~(Next1(c).fx = "raise" /\ ~Next1(c).on))

TxStep(c) ==
  \/ Lock(c) /\ UNCHANGED pttVars
  \/ Effect(c) /\ Hears(c) /\ UNCHANGED <<line, client, timer, rxPc, hangPc, past>>

\* A call of somebody else; one that is refused changes nothing seen here.
OtherCall(c) ==
  /\ \E k \in Request : k.source # "Hardware" /\ Enter(c, k)
  /\ shared' = TRUE
  /\ UNCHANGED <<line, client, owned, timer, rxPc, hangPc, raced, missed>>

OnConnected ==
  /\ P1Tell
  /\ client' = "live" /\ owned' = FALSE
  /\ UNCHANGED <<line, timer, rxPc, hangPc, past>>

OnDisconnected ==
  /\ P1Untell
  /\ client' = "none" /\ owned' = FALSE /\ timer' = FALSE
  /\ UNCHANGED <<line, rxPc, hangPc, past>>

Dead(level) == IF level THEN "deadHigh" ELSE "deadLow"

\* The receive thread is joined; a client still referred to keeps its level,
\* the next one starts with its line low.
ClientEnds ==
  /\ P1Close /\ rxPc = "idle"
  /\ client' = IF Heard THEN Dead(line) ELSE client
  /\ line' = FALSE
  /\ UNCHANGED <<owned, timer, rxPc, hangPc, past>>

\* The other steps of the link pass this service by.
LinkElse ==
  /\ P1Open \/ P1Swap \/ P1Up \/ P1Fail \/ P1Drop \/ P1Detach \/ P2Step
  /\ UNCHANGED pttVars

RxStep == Gate \/ Claim \/ KeyMox \/ Keyed
HangStep == HangLooks \/ HangTakes \/ HangReleases \/ HangDone

PttNext ==
  \/ Rising \/ Falling \/ Unheard \/ HangFires
  \/ RxStep \/ HangStep
  \/ \E c \in Callers : TxStep(c)
  \/ \E c \in Others : OtherCall(c)
  \/ OnConnected \/ OnDisconnected \/ ClientEnds \/ LinkElse

PttInit ==
  /\ Init
  /\ line = FALSE /\ client = "none" /\ owned = FALSE /\ timer = FALSE
  /\ rxPc = "idle" /\ hangPc = "idle"
  /\ raced = FALSE /\ shared = FALSE /\ missed = FALSE

PttSpec == PttInit /\ [][PttNext]_allVars

\* A teardown that has begun goes on: its waits are bounded.
TearDown ==
  (P1Detach /\ UNCHANGED pttVars) \/ OnDisconnected \/ ClientEnds

\* Threads that have work run, and the operating system fires timers; nobody
\* is obliged to press or release a key, to call the service or to connect.
PttFairness ==
  /\ WF_allVars(TearDown)
  /\ WF_allVars(RxStep) /\ WF_allVars(HangStep) /\ WF_allVars(HangFires)
  /\ \A c \in Callers : WF_allVars(TxStep(c))

FairPttSpec == PttSpec /\ PttFairness

-----------------------------------------------------------------------------
PttTypeOK ==
  /\ TypeOK
  /\ client \in {"none", "live", "deadLow", "deadHigh"}
  /\ line \in BOOLEAN /\ owned \in BOOLEAN /\ timer \in BOOLEAN
  /\ rxPc \in {"idle", "gate", "claim", "key", "keying"}
  /\ hangPc \in {"idle", "look", "take", "release", "releasing"}
  /\ raced \in BOOLEAN /\ shared \in BOOLEAN /\ missed \in BOOLEAN

PttQuiet == Quiet /\ AtRest /\ rxPc = "idle" /\ hangPc = "idle" /\ ~timer

\* The service still refers to a client whose connect has failed.
Orphaned == client \in {"deadLow", "deadHigh"}

\* With the key as the only user of the transmitter the claim is exactly the
\* carrier once nothing is in flight, whatever the band guard and the link do:
\* no claim is left over after a release, a refusal or a lost link, and no
\* carrier is left without the claim that will end it.  Only a connect that
\* failed after it was announced may leave a claim over, until the next one.
ClaimMatchesCarrier ==
  PttQuiet /\ ~shared /\ ~raced /\ ~Orphaned => owned = hw["wireMox"]

\* With the key as the only user, a released key is always followed by the
\* end of its carrier or by a new key press: no stuck transmitter.
KeyReleaseEndsTx ==
  (hw["wireMox"] /\ ~line) ~> (~hw["wireMox"] \/ line \/ shared \/ raced)

\* With the key as the only user, a key that is held down keeps the carrier on
\* the wire unless its key-down was refused or its press was missed: the hang
\* window bridges the gaps between characters, and an elapsed timer whose
\* callback has not yet looked at the line does no harm.
HeldKeyKeepsMox ==
  PttQuiet /\ ~shared /\ ~raced /\ line /\ ~missed /\ ret[RxThread] = "ok" =>
    hw["wireMox"]

\* Whatever the line and the hang timer do, and whoever else uses the
\* transmitter, the hang callback never takes down a MOX of another source.
HangReleasesOnlyOwnMox ==
  [][\A s \in Sources \ {"Hardware"} :
        owner = s /\ owner' # s => call[HangThread]' = call[HangThread]]_allVars

(* What the source says and the code does not do; see README.              *)

\* ExternalPttService.cs:59: "True iff the most recent MOX-on we caused has
\* not been released yet."
OutstandingMoxIsClaimed == PttQuiet /\ owner = "Hardware" => owned
=============================================================================
