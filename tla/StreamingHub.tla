---------------------------- MODULE StreamingHub ----------------------------
(***************************************************************************)
(* The hub that sends frames to the clients (StreamingHub).  Every client  *)
(* has a bounded queue from which the oldest frame is dropped, and a loop  *)
(* that sends.  A joining client is registered first and told the phase of *)
(* the FFT planning (wisdom) afterwards.  The phase is announced from two  *)
(* threads of WdspWisdomInitializer that no lock keeps apart: the one that *)
(* changes it and the one that polls the status.  A frame is a display     *)
(* frame or a wisdom frame with its phase.                                 *)
(***************************************************************************)
EXTENDS Naturals, Sequences

CONSTANTS
  Clients,      \* one connection each
  Backlog,      \* MaxBacklogPerClient: 4
  LastPhase     \* bound: how far the planning of the FFTs gets, Ready at most

ASSUME HubAssumption == Backlog \in Nat \ {0} /\ LastPhase \in 0..2

VARIABLES
  link,         \* where each client's session is
  queue,        \* _queue
  primed,       \* the phase read for a joining client
  phase,        \* WdspWisdomInitializer._phase
  at, saying,   \* how far either thread is with a broadcast, and of which phase
  wisdom,       \* _wisdomPhase of the hub
  shownWisdom,  \* the phase each client has been sent last
  missed,       \* history: its frame of this phase was dropped or overtaken
  crossed       \* history: an older phase was cached or queued after a newer one

sessionVars == <<link, primed, shownWisdom>>
wisdomVars == <<phase, at, saying, wisdom, crossed>>
hubVars == <<sessionVars, queue, wisdomVars, missed>>

Idle == 0
Building == 1
Ready == 2
Announcers == {"initializer", "poller"}

Display == [kind |-> "display"]
Wisdom(n) == [kind |-> "wisdom", n |-> n]

HubInit ==
  /\ link = [c \in Clients |-> "out"] /\ queue = [c \in Clients |-> <<>>]
  /\ primed = [c \in Clients |-> Idle]
  /\ phase = Idle /\ wisdom = Idle
  /\ at = [a \in Announcers |-> "rest"] /\ saying = [a \in Announcers |-> Idle]
  /\ shownWisdom = [c \in Clients |-> Idle]
  /\ missed = [c \in Clients |-> FALSE] /\ crossed = FALSE

\* Mutant: a client is registered when it has been primed.
RegisteredLate(c) == link[c] = "running"

Registered(c) == link[c] \in {"registered", "reading", "running"}

\* TryWrite with DropOldest.
TryEnqueue(c, frame) ==
  Append(IF Len(queue[c]) = Backlog THEN Tail(queue[c]) ELSE queue[c], frame)

\* A frame of the phase the initializer is in waits in the queue.
Waiting(q) == \E i \in DOMAIN q : q[i] = Wisdom(phase)

\* What a broadcast puts into every queue.
Broadcast(frame) ==
  /\ queue' = [c \in Clients |-> IF Registered(c) THEN TryEnqueue(c, frame) ELSE queue[c]]
  /\ missed' = [c \in Clients |->
       /\ ~(Registered(c) /\ frame = Wisdom(phase))
       /\ missed[c] \/ (Waiting(queue[c]) /\ ~Waiting(queue'[c]))]

-----------------------------------------------------------------------------
(* AttachClientAsync.                                                      *)

Step(c, from, to) ==
  /\ link[c] = from /\ link' = [link EXCEPT ![c] = to]
  /\ UNCHANGED <<wisdomVars, shownWisdom>>

Register(c) == Step(c, "out", "registered") /\ UNCHANGED <<queue, primed, missed>>

ReadWisdom(c) ==
  /\ Step(c, "registered", "reading")
  /\ primed' = [primed EXCEPT ![c] = wisdom]
  /\ UNCHANGED <<queue, missed>>

\* What was read before a broadcast may be queued behind it.
Prime(c) ==
  /\ Step(c, "reading", "running")
  /\ queue' = [queue EXCEPT ![c] = TryEnqueue(c, Wisdom(primed[c]))]
  /\ missed' = [missed EXCEPT ![c] = primed[c] # phase /\ (@ \/ Waiting(queue[c]))]
  /\ UNCHANGED primed

Send(c) ==
  /\ link[c] = "running" /\ queue[c] # <<>>
  /\ queue' = [queue EXCEPT ![c] = Tail(@)]
  /\ LET f == Head(queue[c])
     IN shownWisdom' = [shownWisdom EXCEPT ![c] = IF f.kind = "wisdom" THEN f.n ELSE @]
  /\ UNCHANGED <<link, primed, wisdomVars, missed>>

\* Either loop ends: the session with it.
Leave(c) ==
  /\ Step(c, "running", "gone")
  /\ queue' = [queue EXCEPT ![c] = <<>>]
  /\ UNCHANGED <<primed, missed>>

Session(c) == Register(c) \/ ReadWisdom(c) \/ Prime(c) \/ Leave(c)

-----------------------------------------------------------------------------
(* WdspWisdomInitializer and Broadcast(WisdomStatusFrame).                 *)

Goes(a, from, to) == at[a] = from /\ at' = [at EXCEPT ![a] = to]

\* Building, and at the end Ready: PhaseChanged carries the phase.
SetPhase ==
  /\ phase < LastPhase /\ Goes("initializer", "rest", "told")
  /\ phase' = phase + 1
  /\ saying' = [saying EXCEPT !["initializer"] = phase']
  /\ missed' = [c \in Clients |-> FALSE]
  /\ UNCHANGED <<sessionVars, queue, wisdom, crossed>>

\* Started once Building is announced, the poller finds a new status ...
PollStatus ==
  /\ phase = Building /\ at["initializer"] = "rest"
  /\ Goes("poller", "rest", "polled")
  /\ UNCHANGED <<sessionVars, queue, phase, saying, wisdom, crossed, missed>>

\* ... and StatusChanged reads the phase anew.
StatusChanged ==
  /\ Goes("poller", "polled", "told")
  /\ saying' = [saying EXCEPT !["poller"] = phase]
  /\ UNCHANGED <<sessionVars, queue, phase, wisdom, crossed, missed>>

SetWisdomPhase(a) ==
  /\ Goes(a, "told", "cached")
  /\ wisdom' = saying[a]
  /\ crossed' = (crossed \/ saying[a] < wisdom)
  /\ UNCHANGED <<sessionVars, queue, phase, saying, missed>>

Announce(a) ==
  /\ Goes(a, "cached", "rest")
  /\ Broadcast(Wisdom(saying[a]))
  /\ crossed' = (crossed \/ (saying[a] < phase /\ at["initializer"] = "rest"))
  /\ UNCHANGED <<sessionVars, phase, saying, wisdom>>

\* What either thread goes through with once it has begun.
Announcing == StatusChanged \/ \E a \in Announcers : SetWisdomPhase(a) \/ Announce(a)

=============================================================================
