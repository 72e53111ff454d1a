------------------------------ MODULE CwEngine ------------------------------
(***************************************************************************)
(* CwEngine on top of TxKeying: texts are queued by API threads and played *)
(* one at a time by the worker thread, which keys MOX as source Cwx, feeds *)
(* the TX ring chunk by chunk and releases MOX.  Abort and the falling     *)
(* TxActiveChanged cancel the job in flight from other threads.            *)
(***************************************************************************)
EXTENDS TxKeying, Functions

CONSTANTS
  Worker,      \* the caller of TxService that plays the jobs
  MaxJobs,     \* bound: jobs sent in a behaviour
  Chunks,      \* bound: ring writes of a job
  MaxAborts,   \* bound: Abort calls in a behaviour
  MaxLost      \* bound: requests cancelled while they send

ASSUME WorkerAssumption ==
  Worker \in Callers /\ "mox" \in Ops /\ "Cwx" \in Sources
ASSUME CwBoundsAssumption ==
  /\ MaxJobs \in Nat /\ Chunks \in Nat /\ MaxAborts \in Nat
  /\ MaxLost \in Nat

VARIABLES
  jobs,        \* _jobs, the unbounded channel
  pending,     \* _pendingJobs
  sending,     \* the job a SendAsync has counted and not yet written, or 0
  sent,        \* number of jobs given out
  job,         \* the job the worker plays, or 0
  left,        \* its chunks still to be written
  pc,          \* where the worker is
  currentAbort,\* TRUE iff _currentAbort is set: the token of the job
  cancelled,   \* TRUE iff that token is cancelled
  abortPc,     \* where Abort is
  aborts,      \* number of Abort calls
  doomed,      \* history: jobs accepted when the running Abort began
  survived,    \* history: the job was accepted before an Abort that returned
  lost,        \* history: jobs counted and never written
  spill        \* history: chunks of the job written after its cancellation

queueVars == <<jobs, pending, sending, sent, lost>>
playVars == <<job, left, pc, currentAbort, spill>>
abortVars == <<abortPc, aborts, doomed, survived>>
cwVars == <<queueVars, playVars, cancelled, abortVars>>
allVars == <<vars, cwVars>>

CwxMox(on) == [op |-> "mox", on |-> on, source |-> "Cwx"]

-----------------------------------------------------------------------------
(* SendAsync, on a request thread.                                         *)

\* Mutant: the job is counted after it has been written.
CountLate ==
  /\ sending = 0 /\ sent < MaxJobs
  /\ sent' = sent + 1 /\ sending' = sent'
  /\ UNCHANGED <<vars, jobs, pending, lost, playVars, cancelled, abortVars>>

Count ==
  /\ sending = 0 /\ sent < MaxJobs
  /\ sent' = sent + 1 /\ sending' = sent'
  /\ pending' = pending + 1
  /\ UNCHANGED <<vars, jobs, lost, playVars, cancelled, abortVars>>

Write ==
  /\ sending # 0
  /\ jobs' = Append(jobs, sending) /\ sending' = 0
  /\ UNCHANGED <<vars, pending, sent, lost, playVars, cancelled, abortVars>>

\* WriteAsync refuses a request that has been cancelled; the count stays.
WriteCancelled ==
  /\ sending # 0 /\ lost < MaxLost
  /\ sending' = 0 /\ lost' = lost + 1
  /\ UNCHANGED <<vars, jobs, pending, sent, playVars, cancelled, abortVars>>

-----------------------------------------------------------------------------
(* Abort, on a request thread.                                             *)

AbortBegins ==
  /\ abortPc = "idle" /\ aborts < MaxAborts
  /\ aborts' = aborts + 1
  /\ abortPc' = "drain"
  /\ doomed' = Range(jobs) \cup ({job} \ {0})
  /\ UNCHANGED <<vars, queueVars, playVars, cancelled, survived>>

AbortDrains ==
  /\ abortPc = "drain" /\ jobs # << >>
  /\ jobs' = Tail(jobs)
  /\ abortPc' = "uncount"
  /\ UNCHANGED <<vars, pending, sending, sent, lost, playVars, cancelled,
                 aborts, doomed, survived>>

\* Mutant: jobs discarded by an abort stay counted.
AbortForgetsCount ==
  /\ abortPc = "uncount"
  /\ abortPc' = "drain"
  /\ UNCHANGED <<vars, queueVars, playVars, cancelled, aborts, doomed,
                 survived>>

AbortUncounts ==
  /\ abortPc = "uncount"
  /\ pending' = pending - 1
  /\ abortPc' = "drain"
  /\ UNCHANGED <<vars, jobs, sending, sent, lost, playVars, cancelled,
                 aborts, doomed, survived>>

\* Cancel(_currentAbort), if there is one, and the call returns.
AbortCancels ==
  /\ abortPc = "drain" /\ jobs = << >>
  /\ cancelled' = (cancelled \/ currentAbort)
  /\ abortPc' = "idle"
  /\ survived' = (survived \/ job \in doomed) /\ doomed' = {}
  /\ UNCHANGED <<vars, queueVars, playVars, aborts>>

-----------------------------------------------------------------------------
(* The worker.                                                             *)

Goto(p) == pc' = p
One(b) == IF b THEN 1 ELSE 0
Cancelled == currentAbort /\ cancelled

Dequeue ==
  /\ pc = "read" /\ jobs # << >>
  /\ job' = Head(jobs) /\ jobs' = Tail(jobs) /\ left' = Chunks /\ spill' = 0
  /\ Goto("uncount")
  /\ UNCHANGED <<vars, pending, sending, sent, lost, currentAbort,
                 cancelled, abortVars>>

Uncount ==
  /\ pc = "uncount"
  /\ pending' = pending - 1
  /\ Goto("arm")
  /\ UNCHANGED <<vars, jobs, sending, sent, lost, job, left, currentAbort,
                 spill,
                 cancelled, abortVars>>

Arm ==
  /\ pc = "arm"
  /\ currentAbort' = TRUE /\ cancelled' = FALSE
  /\ Goto("key")
  /\ UNCHANGED <<vars, queueVars, job, left, spill, abortVars>>

\* TrySetMox(true, Cwx), with its interlocks.
Key ==
  /\ pc = "key"
  /\ Enter(Worker, CwxMox(TRUE)) \/ Refuse(Worker, CwxMox(TRUE))
  /\ Goto("keying")
  /\ UNCHANGED <<queueVars, job, left, currentAbort, spill, cancelled,
                 abortVars>>

\* The call has returned: MOX was refused, or is on, whoever owns it.
Keyed ==
  /\ pc = "keying" /\ Idle(Worker)
  /\ Goto(IF ret[Worker] = "ok" THEN "play" ELSE "end")
  /\ UNCHANGED <<vars, queueVars, job, left, currentAbort, spill, cancelled,
                 abortVars>>

\* Mutant: the token is looked at between jobs only.
LooksAway ==
  /\ pc = "play" /\ left > 0
  /\ Goto("write")
  /\ UNCHANGED <<vars, queueVars, job, left, currentAbort, spill, cancelled,
                 abortVars>>

\* ct.ThrowIfCancellationRequested, before each symbol and chunk.
Looks ==
  /\ pc = "play" /\ ~Cancelled /\ left > 0
  /\ Goto("write")
  /\ UNCHANGED <<vars, queueVars, job, left, currentAbort, spill, cancelled,
                 abortVars>>

WriteChunk ==
  /\ pc = "write"
  /\ left' = left - 1
  /\ spill' = spill + One(Cancelled)
  /\ Goto("play")
  /\ UNCHANGED <<vars, queueVars, job, currentAbort, cancelled, abortVars>>

\* The last symbol is out and the tail delay has passed.
Finish ==
  /\ pc = "play" /\ ~Cancelled /\ left = 0
  /\ Goto("release")
  /\ UNCHANGED <<vars, queueVars, job, left, currentAbort, spill, cancelled,
                 abortVars>>

\* Mutant: a cancelled job ends without releasing MOX.
GiveUpKeyed ==
  /\ pc = "play" /\ Cancelled
  /\ Goto("end")
  /\ UNCHANGED <<vars, queueVars, job, left, currentAbort, spill, cancelled,
                 abortVars>>

\* Mutant: a cancelled job ends the worker loop.
GiveUpForGood ==
  /\ pc = "play" /\ Cancelled
  /\ Goto("exit")
  /\ UNCHANGED <<vars, queueVars, job, left, currentAbort, spill, cancelled,
                 abortVars>>

GiveUp ==
  /\ pc = "play" /\ Cancelled
  /\ Goto("release")
  /\ UNCHANGED <<vars, queueVars, job, left, currentAbort, spill, cancelled,
                 abortVars>>

\* TryReleaseMox: only if MOX is still ours when it is looked at.
Release ==
  /\ pc = "release"
  /\ \/ owner = "Cwx" /\ Enter(Worker, CwxMox(FALSE)) /\ Goto("releasing")
     \/ owner # "Cwx" /\ Goto("end") /\ UNCHANGED vars
  /\ UNCHANGED <<queueVars, job, left, currentAbort, spill, cancelled,
                 abortVars>>

Released ==
  /\ pc = "releasing" /\ Idle(Worker)
  /\ Goto("end")
  /\ UNCHANGED <<vars, queueVars, job, left, currentAbort, spill, cancelled,
                 abortVars>>

End ==
  /\ pc = "end"
  /\ currentAbort' = FALSE /\ cancelled' = FALSE
  /\ job' = 0 /\ left' = 0 /\ spill' = 0 /\ survived' = FALSE
  /\ Goto("read")
  /\ UNCHANGED <<vars, queueVars, abortPc, aborts, doomed>>

WorkerStep ==
  \/ Dequeue \/ Uncount \/ Arm \/ Key \/ Keyed
  \/ Looks \/ WriteChunk \/ Finish \/ GiveUp
  \/ Release \/ Released \/ End

-----------------------------------------------------------------------------
(* TxService as the engine sees it.                                        *)

\* Mutant: the falling edge is taken for the engine's own release.
HearsNothing(c) == UNCHANGED cancelled

\* OnTxActiveChanged: any falling edge cancels the job in flight.
Hears(c) ==
  cancelled' = (cancelled \/ (currentAbort /\ Next1(c).fx = "raise"
                                            /\ ~Next1(c).on))

TxStep(c) ==
  \/ Lock(c) /\ UNCHANGED cwVars
  \/ Effect(c) /\ Hears(c) /\ UNCHANGED <<queueVars, playVars, abortVars>>

\* A call of somebody else; one that is refused changes nothing seen here.
OtherCall ==
  /\ \E c \in Callers \ {Worker}, k \in Request :
        k.source # "Cwx" /\ Enter(c, k)
  /\ UNCHANGED cwVars

CwLink == LinkStep /\ UNCHANGED cwVars

SendStep == Write \/ WriteCancelled
AbortStep == AbortDrains \/ AbortUncounts \/ AbortCancels

CwNext ==
  \/ Count \/ SendStep
  \/ AbortBegins \/ AbortStep
  \/ WorkerStep
  \/ \E c \in Callers : TxStep(c)
  \/ OtherCall \/ CwLink

CwInit ==
  /\ Init
  /\ jobs = << >> /\ pending = 0 /\ sending = 0 /\ sent = 0
  /\ job = 0 /\ left = 0 /\ pc = "read" /\ currentAbort = FALSE
  /\ cancelled = FALSE /\ lost = 0 /\ spill = 0
  /\ abortPc = "idle" /\ aborts = 0 /\ doomed = {} /\ survived = FALSE

CwSpec == CwInit /\ [][CwNext]_allVars

\* Threads that have work run; nobody has to send, abort or key.
CwFairness ==
  /\ WF_allVars(WorkerStep) /\ WF_allVars(AbortStep) /\ WF_allVars(SendStep)
  /\ \A c \in Callers : WF_allVars(TxStep(c))

FairCwSpec == CwSpec /\ CwFairness

-----------------------------------------------------------------------------
JobIds == 0..MaxJobs

CwTypeOK ==
  /\ TypeOK
  /\ jobs \in Seq(1..MaxJobs)
  /\ pending \in Nat
  /\ sending \in JobIds /\ sent \in JobIds /\ job \in JobIds
  /\ left \in 0..Chunks
  /\ currentAbort \in BOOLEAN /\ cancelled \in BOOLEAN
  /\ doomed \subseteq 1..MaxJobs /\ survived \in BOOLEAN
  /\ lost \in 0..MaxLost /\ spill \in 0..Chunks
  /\ pc \in {"read", "uncount", "arm", "key", "keying", "play", "write",
             "release", "releasing", "end"}
  /\ abortPc \in {"idle", "drain", "uncount"} /\ aborts \in 0..MaxAborts

\* The depth counter that stands in for the channel's missing Count is the
\* queue plus exactly the jobs between a count and its write, or between a
\* read and its uncount, whoever drains: never negative, and drifting only by
\* the requests that were cancelled while they sent.
PendingCounts ==
  pending = Len(jobs) + One(sending # 0) + One(pc = "uncount")
              + One(abortPc = "uncount") + lost

\* The worker never goes back to its queue with MOX still owned by CW,
\* whether the job ended, was cancelled or was refused, and whoever else
\* keyed or released meanwhile.
NoCwCarrierLeft == pc = "read" => owner # "Cwx"

\* While a job plays uncancelled and no call is in flight, TxService holds MOX:
\* a release by the operator, which clears the flag, always reaches the job
\* (CwEngine.cs:302).  The flag, not the wire: effects of another call that
\* come late may leave the wire unkeyed under it, see README, section 5.
PlaysUnderMox == Quiet /\ pc \in {"play", "write"} /\ ~Cancelled => moxOn

\* A job that an Abort or a falling edge has cancelled writes at most the
\* chunk it was about to write, whenever the cancellation falls.
OneChunkAfterCancel == spill <= 1

\* Once texts stop coming, every one that was accepted is played or dropped
\* and the worker rests with an empty queue and, by NoCwCarrierLeft, without
\* MOX, whatever the operator does to the transmitter meanwhile.
QueueDrains ==
  (pc # "read" \/ jobs # << >>) ~> (pc = "read" /\ jobs = << >>)

(* What the source says and the code does not do; see README.              *)

\* CwEngine.cs:128: "Hard cancel. Drains the queue and signals the in-flight
\* playback to drop the rest of the symbols."
NoPlayAfterAbort == pc = "play" /\ survived => Cancelled
=============================================================================
