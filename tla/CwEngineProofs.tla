--------------------------- MODULE CwEngineProofs ---------------------------
(***************************************************************************)
(* The CW keyer for every number of jobs, chunks, aborts and cancelled     *)
(* requests, over every set of callers and operations of TxService.        *)
(***************************************************************************)
EXTENDS CwEngine, TxKeyingProofs

-----------------------------------------------------------------------------
(* The keyer uses TxService as TxKeying specifies it.                      *)

LEMMA CwxRequests == ASSUME NEW on \in BOOLEAN PROVE CwxMox(on) \in Request
BY WorkerAssumption, OpsAssumption, SMT DEF CwxMox, Request, Calls, AllOps

\* The steps of the queue, of an abort and of the worker between its two calls.
Apart ==
  \/ Count \/ SendStep \/ AbortBegins \/ AbortStep
  \/ Dequeue \/ Uncount \/ Arm \/ Keyed \/ Looks \/ WriteChunk \/ Finish \/ GiveUp
  \/ Released \/ End

LEMMA ApartStays == ASSUME Apart PROVE UNCHANGED vars
BY Zenon DEF Apart, Count, SendStep, Write, WriteCancelled, AbortBegins, AbortStep, AbortDrains,
   AbortUncounts, AbortCancels, Dequeue, Uncount, Arm, Keyed, Looks, WriteChunk, Finish, GiveUp,
   Released, End

LEMMA CwCases ==
  ASSUME [CwNext]_allVars
  PROVE  \/ Apart \/ Key \/ Release \/ OtherCall \/ CwLink \/ UNCHANGED allVars
         \/ \E c \in Callers : TxStep(c)
BY Zenon DEF CwNext, WorkerStep, Apart

LEMMA KeyingSteps == ASSUME [CwNext]_allVars PROVE [Next]_vars
<1>1. CASE Apart
  BY <1>1, ApartStays
<1>2. CASE Key
  <2>1. Worker \in Callers /\ CwxMox(TRUE) \in Request
    BY WorkerAssumption, CwxRequests
  <2> QED
    BY <1>2, <2>1, Zenon DEF Key, Next, Thread
<1>3. CASE Release
  <2>1. Worker \in Callers /\ CwxMox(FALSE) \in Request
    BY WorkerAssumption, CwxRequests
  <2> QED
    BY <1>3, <2>1, Zenon DEF Release, Next, Thread
<1>4. CASE OtherCall
  BY <1>4, Zenon DEF OtherCall, Next, Thread
<1>5. CASE CwLink
  BY <1>5, Zenon DEF CwLink, Next
<1>6. CASE UNCHANGED allVars
  BY <1>6 DEF allVars
<1>7. CASE \E c \in Callers : TxStep(c)
  BY <1>7, Zenon DEF TxStep, Next, Thread
<1> QED
  BY <1>1, <1>2, <1>3, <1>4, <1>5, <1>6, <1>7, CwCases, Zenon

\* Every behaviour of the keyer is one of TxKeying: what is proved of TxService
\* for any callers holds under it.
THEOREM KeysThroughTxService == CwSpec => Spec
<1>1. CwInit => Init
  BY DEF CwInit
<1> QED
  BY <1>1, KeyingSteps, PTL DEF CwSpec, Spec

-----------------------------------------------------------------------------
(* Types and positions.                                                    *)

Places == {"read", "uncount", "arm", "key", "keying", "play", "write",
           "release", "releasing", "end"}

PlaceType ==
  /\ pc \in Places /\ abortPc \in {"idle", "drain", "uncount"}
  /\ currentAbort \in BOOLEAN /\ cancelled \in BOOLEAN /\ survived \in BOOLEAN

LEMMA PlaceNames ==
  /\ {"read", "uncount", "arm", "key", "keying"} \subseteq Places
  /\ {"play", "write", "release", "releasing", "end"} \subseteq Places
BY SMT DEF Places

LEMMA PlaceStep == ASSUME PlaceType, [CwNext]_allVars PROVE PlaceType'
<1> USE PlaceNames DEF PlaceType, queueVars, playVars, abortVars, cwVars, Goto
<1>1. CASE Count \/ SendStep \/ CwLink \/ OtherCall \/ UNCHANGED allVars
  BY <1>1, Zenon DEF Count, SendStep, Write, WriteCancelled, CwLink, OtherCall, allVars
<1>2. CASE AbortBegins \/ AbortStep
  BY <1>2, Zenon DEF AbortBegins, AbortStep, AbortDrains, AbortUncounts, AbortCancels
<1>3. CASE Dequeue \/ Uncount \/ Arm \/ Key \/ Keyed
  BY <1>3, Zenon DEF Dequeue, Uncount, Arm, Key, Keyed
<1>4. CASE Looks \/ WriteChunk \/ Finish \/ GiveUp
  BY <1>4, Zenon DEF Looks, WriteChunk, Finish, GiveUp
<1>5. CASE Release \/ Released \/ End
  BY <1>5, Zenon DEF Release, Released, End
<1>6. ASSUME NEW c \in Callers, TxStep(c)
      PROVE  PlaceType'
  BY <1>6, Zenon DEF TxStep, Hears
<1> QED
  BY <1>1, <1>2, <1>3, <1>4, <1>5, <1>6, Zenon DEF CwNext, WorkerStep

-----------------------------------------------------------------------------
(* The queue and its depth counter.                                        *)

QueueType ==
  /\ jobs \in Seq(1..MaxJobs) /\ pending \in Nat
  /\ sending \in JobIds /\ sent \in JobIds /\ lost \in 0..MaxLost

QueueInv == QueueType /\ PendingCounts

LEMMA OneIs == One(TRUE) = 1 /\ One(FALSE) = 0 /\ \A b \in BOOLEAN : One(b) \in {0, 1}
BY DEF One

LEMMA Numbers == ASSUME QueueInv PROVE Len(jobs) \in Nat /\ lost \in Nat /\ pending \in Nat /\ PendingCounts
BY CwBoundsAssumption, SMT DEF QueueInv, QueueType

LEMMA QueueRests ==
  ASSUME QueueInv, UNCHANGED queueVars,
         pc' = "uncount" <=> pc = "uncount", abortPc' = "uncount" <=> abortPc = "uncount"
  PROVE  QueueInv'
<1>1. QueueType'
  BY Zenon DEF QueueInv, QueueType, queueVars
<1>2. One(pc = "uncount") = One(pc' = "uncount") /\ One(abortPc = "uncount") = One(abortPc' = "uncount")
  BY Zenon DEF One
<1> QED
  BY <1>1, <1>2, Zenon DEF QueueInv, PendingCounts, queueVars

LEMMA QueueStep == ASSUME PlaceType, QueueInv, [CwNext]_allVars PROVE QueueInv'
<1>1. CASE Count
  <2>1. /\ sent < MaxJobs /\ sending = 0 /\ sent' = sent + 1 /\ sending' = sent + 1
        /\ pending' = pending + 1 /\ UNCHANGED <<jobs, lost, pc, abortPc>>
    BY <1>1 DEF Count, playVars, abortVars
  <2>2. /\ sent \in Nat /\ pending \in Nat /\ MaxJobs \in Nat /\ sending' # 0
        /\ sending' \in JobIds /\ sent' \in JobIds
    BY <2>1, CwBoundsAssumption, SMT DEF QueueInv, QueueType, JobIds
  <2>3. QueueType'
    BY <2>1, <2>2, SMT DEF QueueInv, QueueType
  <2>4. One(sending # 0)' = 1 /\ One(sending # 0) = 0
    BY <2>1, <2>2, OneIs, Zenon
  <2>5. One(pc = "uncount")' = One(pc = "uncount") /\ One(abortPc = "uncount")' = One(abortPc = "uncount")
        /\ One(pc = "uncount") \in {0, 1} /\ One(abortPc = "uncount") \in {0, 1}
    BY <2>1, OneIs, Zenon
  <2> QED
    BY <2>1, <2>3, <2>4, <2>5, Numbers, SMT DEF QueueInv, PendingCounts
<1>2. CASE Write
  <2>1. /\ sending # 0 /\ sending' = 0 /\ jobs' = Append(jobs, sending)
        /\ UNCHANGED <<pending, sent, lost, pc, abortPc>>
    BY <1>2 DEF Write, playVars, abortVars
  <2>2. sending \in 1..MaxJobs
    BY <2>1, CwBoundsAssumption, SMT DEF QueueInv, QueueType, JobIds
  <2>3. jobs' \in Seq(1..MaxJobs) /\ Len(jobs') = Len(jobs) + 1 /\ Len(jobs) \in Nat
    BY <2>1, <2>2, SMT DEF QueueInv, QueueType
  <2>4. QueueType'
    BY <2>1, <2>3, CwBoundsAssumption, SMT DEF QueueInv, QueueType, JobIds
  <2> QED
    BY <2>1, <2>3, <2>4, SMT DEF QueueInv, QueueType, PendingCounts, One
<1>3. CASE WriteCancelled
  <2>1. /\ sending # 0 /\ lost < MaxLost /\ sending' = 0 /\ lost' = lost + 1
        /\ UNCHANGED <<pending, jobs, sent, pc, abortPc>>
    BY <1>3 DEF WriteCancelled, playVars, abortVars
  <2>2. QueueType'
    BY <2>1, CwBoundsAssumption, SMT DEF QueueInv, QueueType, JobIds
  <2>3. One(sending # 0)' = 0 /\ One(sending # 0) = 1
    BY <2>1, OneIs, Zenon
  <2>4. One(pc = "uncount")' = One(pc = "uncount") /\ One(abortPc = "uncount")' = One(abortPc = "uncount")
        /\ One(pc = "uncount") \in {0, 1} /\ One(abortPc = "uncount") \in {0, 1}
    BY <2>1, OneIs, Zenon
  <2> QED
    BY <2>1, <2>2, <2>3, <2>4, Numbers, SMT DEF QueueInv, PendingCounts
<1>4. ASSUME jobs # << >>, jobs' = Tail(jobs)
      PROVE  jobs' \in Seq(1..MaxJobs) /\ Len(jobs') = Len(jobs) - 1 /\ Len(jobs) \in Nat \ {0}
  BY <1>4, SMT DEF QueueInv, QueueType
<1>5. CASE AbortDrains
  <2>1. /\ jobs # << >> /\ jobs' = Tail(jobs) /\ abortPc = "drain" /\ abortPc' = "uncount"
        /\ UNCHANGED <<pending, sending, sent, lost, pc>>
    BY <1>5 DEF AbortDrains, playVars
  <2>2. QueueType'
    BY <1>4, <2>1, Zenon DEF QueueInv, QueueType
  <2>3. One(abortPc = "uncount")' = 1 /\ One(abortPc = "uncount") = 0
    <3>1. "drain" # "uncount" /\ "read" # "uncount"
      BY SMT
    <3> QED
      BY <2>1, <3>1, OneIs, Zenon
  <2>4. One(pc = "uncount")' = One(pc = "uncount") /\ One(sending # 0)' = One(sending # 0)
        /\ One(pc = "uncount") \in {0, 1} /\ One(sending # 0) \in {0, 1}
    BY <2>1, OneIs, Zenon
  <2> QED
    BY <1>4, <2>1, <2>2, <2>3, <2>4, Numbers, SMT DEF QueueInv, PendingCounts
<1>6. CASE Dequeue
  <2>1. /\ jobs # << >> /\ jobs' = Tail(jobs) /\ pc = "read" /\ pc' = "uncount"
        /\ UNCHANGED <<pending, sending, sent, lost, abortPc>>
    BY <1>6 DEF Dequeue, Goto, abortVars
  <2>2. QueueType'
    BY <1>4, <2>1, Zenon DEF QueueInv, QueueType
  <2>3. One(pc = "uncount")' = 1 /\ One(pc = "uncount") = 0
    <3>1. "drain" # "uncount" /\ "read" # "uncount"
      BY SMT
    <3> QED
      BY <2>1, <3>1, OneIs, Zenon
  <2>4. One(abortPc = "uncount")' = One(abortPc = "uncount") /\ One(sending # 0)' = One(sending # 0)
        /\ One(abortPc = "uncount") \in {0, 1} /\ One(sending # 0) \in {0, 1}
    BY <2>1, OneIs, Zenon
  <2> QED
    BY <1>4, <2>1, <2>2, <2>3, <2>4, Numbers, SMT DEF QueueInv, PendingCounts
<1>7. ASSUME pending' = pending - 1, UNCHANGED <<jobs, sending, sent, lost>>,
             \/ pc = "uncount" /\ pc' = "arm" /\ abortPc' = abortPc
             \/ abortPc = "uncount" /\ abortPc' = "drain" /\ pc' = pc
      PROVE  QueueInv'
  <2>1. Len(jobs) \in Nat /\ lost \in Nat
    BY CwBoundsAssumption, SMT DEF QueueInv, QueueType
  <2>2. One(sending # 0)' = One(sending # 0) /\ One(sending # 0) \in {0, 1}
    BY <1>7, OneIs, Zenon
  <2>3. /\ One(pc = "uncount") \in {0, 1} /\ One(pc = "uncount")' \in {0, 1}
        /\ One(abortPc = "uncount") \in {0, 1} /\ One(abortPc = "uncount")' \in {0, 1}
    BY OneIs, Zenon
  <2>4. \/ One(pc = "uncount") = 1 /\ One(pc = "uncount")' = 0 /\ One(abortPc = "uncount")' = One(abortPc = "uncount")
        \/ One(abortPc = "uncount") = 1 /\ One(abortPc = "uncount")' = 0 /\ One(pc = "uncount")' = One(pc = "uncount")
    <3>1. "arm" # "uncount" /\ "drain" # "uncount"
      BY SMT
    <3> QED
      BY <1>7, <3>1, OneIs, Zenon
  <2>5. pending' \in Nat /\ PendingCounts'
    BY <1>7, <2>1, <2>2, <2>3, <2>4, Numbers, SMT DEF PendingCounts
  <2> QED
    BY <1>7, <2>5, Zenon DEF QueueInv, QueueType
<1>8. CASE Uncount \/ AbortUncounts
  BY <1>7, <1>8, Zenon DEF Uncount, AbortUncounts, Goto, playVars, abortVars
<1>9. CASE AbortBegins \/ AbortCancels
  <2>1. UNCHANGED <<queueVars, pc>> /\ abortPc \in {"idle", "drain"} /\ abortPc' \in {"idle", "drain"}
    BY <1>9, Zenon DEF AbortBegins, AbortCancels, playVars
  <2>2. abortPc # "uncount" /\ abortPc' # "uncount"
    BY <2>1, SMT
  <2> QED
    BY <2>1, <2>2, QueueRests, Zenon
<1>10. ASSUME UNCHANGED <<queueVars, abortPc>>, pc # "uncount", pc' # "uncount"
       PROVE  QueueInv'
  BY <1>10, QueueRests, Zenon
<1>11. CASE Arm \/ Key \/ Keyed \/ Looks \/ WriteChunk
  <2>1. UNCHANGED <<queueVars, abortPc>>
    BY <1>11, Zenon DEF Arm, Key, Keyed, Looks, WriteChunk, abortVars
  <2>2. pc \in {"arm", "key", "keying", "play", "write"}
    BY <1>11, Zenon DEF Arm, Key, Keyed, Looks, WriteChunk
  <2>3. pc' \in {"key", "keying", "play", "end", "write"}
    BY <1>11, Zenon DEF Arm, Key, Keyed, Looks, WriteChunk, Goto
  <2>4. pc # "uncount" /\ pc' # "uncount"
    BY <2>2, <2>3, SMT
  <2> QED
    BY <1>10, <2>1, <2>4
<1>12. CASE Finish \/ GiveUp \/ Release \/ Released \/ End
  <2>1. UNCHANGED <<queueVars, abortPc>>
    BY <1>12, Zenon DEF Finish, GiveUp, Release, Released, End, abortVars
  <2>2. pc \in {"play", "release", "releasing", "end"}
    BY <1>12, Zenon DEF Finish, GiveUp, Release, Released, End
  <2>3. pc' \in {"release", "releasing", "end", "read"}
    BY <1>12, Zenon DEF Finish, GiveUp, Release, Released, End, Goto
  <2>4. pc # "uncount" /\ pc' # "uncount"
    BY <2>2, <2>3, SMT
  <2> QED
    BY <1>10, <2>1, <2>4
<1>13. CASE OtherCall \/ CwLink \/ (\E c \in Callers : TxStep(c)) \/ UNCHANGED allVars
  <2>1. UNCHANGED <<queueVars, pc, abortPc>>
    BY <1>13, Zenon DEF OtherCall, CwLink, TxStep, cwVars, allVars, playVars, abortVars
  <2> QED
    BY <2>1, QueueRests, Zenon
<1> QED
  BY <1>1, <1>2, <1>3, <1>5, <1>6, <1>8, <1>9, <1>11, <1>12, <1>13, Zenon
  DEF CwNext, WorkerStep, SendStep, AbortStep

LEMMA QueueInit == CwInit => QueueInv
<1> SUFFICES ASSUME CwInit
             PROVE  QueueInv
  OBVIOUS
<1>1. jobs = << >> /\ pending = 0 /\ sending = 0 /\ sent = 0 /\ lost = 0
  BY DEF CwInit
<1>2. One(sending # 0) = 0 /\ One(pc = "uncount") = 0 /\ One(abortPc = "uncount") = 0
  <2>1. pc # "uncount" /\ abortPc # "uncount"
    BY SMT DEF CwInit
  <2> QED
    BY <1>1, <2>1, OneIs, Zenon
<1>3. QueueType
  BY <1>1, CwBoundsAssumption, SMT DEF QueueType, JobIds
<1>4. PendingCounts
  BY <1>1, <1>2, SMT DEF PendingCounts
<1> QED
  BY <1>3, <1>4 DEF QueueInv

LEMMA PlaceInit == CwInit => PlaceType
BY PlaceNames, Zenon DEF CwInit, PlaceType

\* The depth counter is the queue and the jobs on their way into or out of it,
\* whoever sends, cancels, aborts or plays.
THEOREM EveryJobCounted == CwSpec => []PendingCounts
<1>1. QueueInv => PendingCounts
  BY DEF QueueInv
<1> QED
  BY <1>1, PlaceInit, PlaceStep, QueueInit, QueueStep, PTL DEF CwSpec

-----------------------------------------------------------------------------
(* The job that is played, its token and its chunks.                       *)

JobType ==
  /\ job \in JobIds /\ left \in 0..Chunks /\ spill \in 0..Chunks
  /\ doomed \subseteq 1..MaxJobs /\ aborts \in 0..MaxAborts

\* The job has its token while it is played, and a chunk is begun only by a
\* job that was not cancelled when it looked.
TokenInv == currentAbort <=> pc \notin {"read", "uncount", "arm"}
SpillInv ==
  /\ pc = "write" => left > 0 /\ spill = 0
  /\ spill <= 1 /\ (spill # 0 => Cancelled)

JobInv == JobType /\ TokenInv /\ SpillInv

LEMMA JobInit == CwInit => JobInv
BY CwBoundsAssumption, SMT DEF CwInit, JobInv, JobType, TokenInv, SpillInv, JobIds

\* What does not move the job keeps its books, and a cancellation is for good.
LEMMA JobRests ==
  ASSUME JobInv, UNCHANGED <<job, left, spill, pc, currentAbort>>, Cancelled => cancelled',
         doomed' \subseteq 1..MaxJobs, aborts' \in 0..MaxAborts
  PROVE  JobInv'
BY Zenon DEF JobInv, JobType, TokenInv, SpillInv, Cancelled

LEMMA JobMoves ==
  ASSUME JobInv, UNCHANGED <<job, left, spill, currentAbort, cancelled, doomed, aborts>>,
         pc \in {"key", "keying", "play", "release", "releasing"},
         pc' \in {"keying", "play", "release", "releasing", "end"}
  PROVE  JobInv'
<1>1. pc' # "write" /\ pc' \notin {"read", "uncount", "arm"} /\ pc \notin {"read", "uncount", "arm"}
  BY SMT
<1> QED
  BY <1>1, Zenon DEF JobInv, JobType, TokenInv, SpillInv, Cancelled

LEMMA JobsQueued ==
  ASSUME QueueInv
  PROVE  /\ \A i \in DOMAIN jobs : jobs[i] \in 1..MaxJobs
         /\ jobs # << >> => Head(jobs) \in 1..MaxJobs
<1>1. jobs \in Seq(1..MaxJobs)
  BY DEF QueueInv, QueueType
<1> DEFINE J == 1..MaxJobs
<1> HIDE DEF J
<1>2. jobs \in Seq(J)
  BY <1>1 DEF J
<1>3. \A i \in DOMAIN jobs : jobs[i] \in J
  BY <1>2, SMT
<1>4. jobs # << >> => Head(jobs) \in J
  BY <1>2, SMT
<1> QED
  BY <1>3, <1>4 DEF J

LEMMA AbortJob ==
  ASSUME PlaceType, QueueInv, JobInv, AbortBegins \/ AbortStep
  PROVE  JobInv'
<1>1. UNCHANGED <<job, left, spill, pc, currentAbort>>
  BY Zenon DEF AbortBegins, AbortStep, AbortDrains, AbortUncounts, AbortCancels, playVars
<1>2. Cancelled => cancelled'
  <2>1. cancelled' = cancelled \/ cancelled' = (cancelled \/ currentAbort)
    BY Zenon DEF AbortBegins, AbortStep, AbortDrains, AbortUncounts, AbortCancels
  <2> QED
    BY <2>1, Zenon DEF Cancelled
<1>3. doomed' \subseteq 1..MaxJobs /\ aborts' \in 0..MaxAborts
  <2>1. CASE AbortBegins
    <3>1. aborts < MaxAborts /\ aborts' = aborts + 1 /\ doomed' = Range(jobs) \cup ({job} \ {0})
      BY <2>1 DEF AbortBegins
    <3>2. Range(jobs) \subseteq 1..MaxJobs
      BY JobsQueued, Zenon DEF Range
    <3>3. {job} \ {0} \subseteq 1..MaxJobs /\ aborts' \in 0..MaxAborts
      BY <3>1, CwBoundsAssumption, SMT DEF JobInv, JobType, JobIds
    <3> QED
      BY <3>1, <3>2, <3>3, Zenon
  <2>2. CASE AbortStep
    BY <2>2, Zenon DEF AbortStep, AbortDrains, AbortUncounts, AbortCancels, JobInv, JobType
  <2> QED
    BY <2>1, <2>2
<1> QED
  BY <1>1, <1>2, <1>3, JobRests

LEMMA WorkerJob ==
  ASSUME PlaceType, QueueInv, JobInv, WorkerStep
  PROVE  JobInv'
<1> USE DEF abortVars, Goto
<1>1. CASE Dequeue
  <2>1. /\ jobs # << >> /\ job' = Head(jobs) /\ left' = Chunks /\ spill' = 0
        /\ pc = "read" /\ pc' = "uncount" /\ UNCHANGED <<currentAbort, doomed, aborts>>
    BY <1>1 DEF Dequeue
  <2>2. job' \in JobIds
    BY <2>1, JobsQueued, SMT DEF JobIds
  <2>3. JobType'
    BY <2>1, <2>2, CwBoundsAssumption, SMT DEF JobInv, JobType
  <2>4. TokenInv' /\ SpillInv'
    BY <2>1, SMT DEF JobInv, TokenInv, SpillInv
  <2> QED
    BY <2>3, <2>4 DEF JobInv
<1>2. CASE Uncount
  <2>1. /\ pc = "uncount" /\ pc' = "arm"
        /\ UNCHANGED <<job, left, spill, currentAbort, cancelled, doomed, aborts>>
    BY <1>2 DEF Uncount
  <2>2. TokenInv' /\ pc' # "write"
    BY <2>1, SMT DEF JobInv, TokenInv
  <2> QED
    BY <2>1, <2>2, Zenon DEF JobInv, JobType, SpillInv, Cancelled
<1>3. CASE Arm
  <2>1. /\ pc = "arm" /\ pc' = "key" /\ currentAbort' = TRUE
        /\ UNCHANGED <<job, left, spill, doomed, aborts>>
    BY <1>3 DEF Arm
  <2>2. ~Cancelled /\ TokenInv' /\ pc' # "write"
    BY <2>1, SMT DEF JobInv, TokenInv, Cancelled
  <2>3. spill = 0
    BY <2>2, Zenon DEF JobInv, SpillInv
  <2>4. SpillInv'
    BY <2>1, <2>2, <2>3, SMT DEF SpillInv
  <2> QED
    BY <2>1, <2>2, <2>4, Zenon DEF JobInv, JobType
<1>4. CASE Key \/ Keyed \/ Finish \/ GiveUp \/ Release \/ Released
  <2>1. UNCHANGED <<job, left, spill, currentAbort, cancelled, doomed, aborts>>
    BY <1>4, Zenon DEF Key, Keyed, Finish, GiveUp, Release, Released
  <2>2. /\ pc \in {"key", "keying", "play", "release", "releasing"}
        /\ pc' \in {"keying", "play", "release", "releasing", "end"}
    BY <1>4, Zenon DEF Key, Keyed, Finish, GiveUp, Release, Released
  <2> QED
    BY <2>1, <2>2, JobMoves
<1>5. CASE Looks
  <2>1. /\ pc = "play" /\ pc' = "write" /\ ~Cancelled /\ left > 0
        /\ UNCHANGED <<job, left, spill, currentAbort, cancelled, doomed, aborts>>
    BY <1>5 DEF Looks
  <2>2. TokenInv'
    BY <2>1, SMT DEF JobInv, TokenInv
  <2>3. SpillInv'
    BY <2>1, Zenon DEF JobInv, SpillInv, Cancelled
  <2> QED
    BY <2>1, <2>2, <2>3, Zenon DEF JobInv, JobType
<1>6. CASE WriteChunk
  <2>1. /\ pc = "write" /\ pc' = "play" /\ left' = left - 1 /\ spill' = spill + One(Cancelled)
        /\ UNCHANGED <<job, currentAbort, cancelled, doomed, aborts>>
    BY <1>6 DEF WriteChunk
  <2>2. TokenInv' /\ pc' # "write"
    BY <2>1, SMT DEF JobInv, TokenInv
  <2>3. left > 0 /\ spill = 0
    BY <2>1, Zenon DEF JobInv, SpillInv
  <2>4. Cancelled' = Cancelled /\ One(Cancelled) \in {0, 1} /\ (~Cancelled => One(Cancelled) = 0)
    BY <2>1, OneIs, Zenon DEF Cancelled
  <2>5. spill' \in {0, 1} /\ (spill' # 0 => Cancelled')
    BY <2>1, <2>3, <2>4, SMT
  <2>6. left' \in 0..Chunks /\ spill' \in 0..Chunks /\ spill' <= 1
    BY <2>1, <2>3, <2>5, CwBoundsAssumption, SMT DEF JobInv, JobType
  <2> QED
    BY <2>1, <2>2, <2>5, <2>6, Zenon DEF JobInv, JobType, SpillInv
<1>7. CASE End
  <2>1. /\ pc' = "read" /\ job' = 0 /\ left' = 0 /\ spill' = 0 /\ currentAbort' = FALSE
        /\ UNCHANGED <<doomed, aborts>>
    BY <1>7 DEF End
  <2>2. JobType'
    BY <2>1, CwBoundsAssumption, SMT DEF JobInv, JobType, JobIds
  <2>3. TokenInv' /\ SpillInv'
    BY <2>1, SMT DEF TokenInv, SpillInv
  <2> QED
    BY <2>2, <2>3 DEF JobInv
<1> QED
  BY <1>1, <1>2, <1>3, <1>4, <1>5, <1>6, <1>7, Zenon DEF WorkerStep

LEMMA JobStep == ASSUME PlaceType, QueueInv, JobInv, [CwNext]_allVars PROVE JobInv'
<1>1. CASE \/ Count \/ SendStep \/ OtherCall \/ CwLink \/ UNCHANGED allVars
           \/ \E c \in Callers : TxStep(c)
  <2>1. /\ UNCHANGED <<job, left, spill, pc, currentAbort, doomed, aborts>>
    BY <1>1, Zenon DEF Count, SendStep, Write, WriteCancelled, OtherCall, CwLink, TxStep, Hears,
       cwVars, allVars, playVars, abortVars
  <2>2. cancelled' = cancelled \/ \E b : cancelled' = (cancelled \/ b)
    BY <1>1, Zenon DEF Count, SendStep, Write, WriteCancelled, OtherCall, CwLink, TxStep, Hears,
       cwVars, allVars, playVars, abortVars
  <2>3. Cancelled => cancelled'
    BY <2>2, Zenon DEF Cancelled
  <2> QED
    BY <2>1, <2>3, JobRests, Zenon DEF JobInv, JobType
<1> QED
  BY <1>1, AbortJob, WorkerJob, Zenon DEF CwNext

\* Queue, counters, tokens and positions keep their types for every bound.
THEOREM CwTypeCorrect == CwSpec => []CwTypeOK
<1>1. TypeOK /\ PlaceType /\ QueueInv /\ JobInv => CwTypeOK
  <2> SUFFICES ASSUME TypeOK, PlaceType, QueueInv, JobInv
               PROVE  CwTypeOK
    OBVIOUS
  <2>1. TypeOK /\ QueueType /\ JobType /\ PlaceType
    BY DEF QueueInv, JobInv
  <2> QED
    BY <2>1, Zenon DEF CwTypeOK, QueueType, JobType, PlaceType, Places
<1> QED
  BY <1>1, KeysThroughTxService, TypeCorrect, PlaceInit, PlaceStep, QueueInit, QueueStep,
     JobInit, JobStep, PTL DEF CwSpec

\* A cancelled job writes at most the chunk it had begun.
THEOREM StopsAtOnce == CwSpec => []OneChunkAfterCancel
<1>1. JobInv => OneChunkAfterCancel
  BY DEF JobInv, SpillInv, OneChunkAfterCancel
<1> QED
  BY <1>1, PlaceInit, PlaceStep, QueueInit, QueueStep, JobInit, JobStep, PTL DEF CwSpec

-----------------------------------------------------------------------------
(* The carrier of a job: who may call as Cwx, and where the worker is while *)
(* MOX belongs to it.                                                       *)

Holding == {"keying", "play", "write", "release", "releasing"}

\* Only the worker calls as Cwx, and only where it waits for its call.
CallerInv ==
  /\ \A c \in Callers \ {Worker} : call[c].source # "Cwx"
  /\ pc \notin {"keying", "releasing"} => Idle(Worker)
  /\ pc = "keying" => call[Worker] \in {NoCall, CwxMox(TRUE)}
  /\ pc = "releasing" => call[Worker] \in {NoCall, CwxMox(FALSE)}

\* MOX is Cwx's from the key-down that succeeded to the release that returned.
HeldInv ==
  /\ owner = "Cwx" => pc \in Holding
  /\ pc = "keying" /\ (call[Worker] # NoCall \/ ret[Worker] # "ok") => owner # "Cwx"
  /\ pc = "releasing" /\ call[Worker] = NoCall => owner # "Cwx"

LEMMA CwxNames ==
  /\ NoCall.source # "Cwx" /\ \A on : CwxMox(on) # NoCall /\ CwxMox(on).on = on /\ CwxMox(on).source = "Cwx"
  /\ \A on : CwxMox(on).op = "mox"
  /\ "UI" # "Cwx" /\ "none" # "Cwx" /\ "fail" # "ok" /\ "keying" # "releasing"
BY SMT DEF NoCall, CwxMox

\* What a critical section may do to the owner.
LEMMA LockOwner ==
  ASSUME TypeOK, KeyInv, NEW c \in Callers, Lock(c)
  PROVE  /\ owner' = owner \/ owner' \in {"none", "UI"} \/ owner' = call[c].source
         /\ call[c] = CwxMox(FALSE) => owner' # "Cwx"
         /\ call[c] = CwxMox(TRUE) => ret'[c] = "ok" /\ lastFired'
<1>1. ASSUME NEW r, NEW e, Return(c, r, e) PROVE ret'[c] = r
  BY <1>1, Zenon DEF Return, TypeOK
<1>2. owner' = owner \/ owner' \in {"none", "UI"} \/ owner' = call[c].source
  BY Zenon DEF Lock, MoxNoOp, MoxForeign, MoxKey, MoxUnkey, TunNoOp, TunKey, TunUnkey, TwoToneArm,
     TwoToneDisarm, Trip, SetFlags, flags
<1>3. (\E on : call[c] = CwxMox(on)) => call[c].op = "mox"
  BY CwxNames, Zenon
<1>4. call[c].op = "mox" => MoxNoOp(c) \/ MoxForeign(c) \/ MoxKey(c) \/ MoxUnkey(c)
  <2>1. "tun" # "mox" /\ "twotone" # "mox" /\ "trip" # "mox"
    BY SMT
  <2> QED
    BY <2>1, Zenon DEF Lock, TunNoOp, TunKey, TunUnkey, TwoToneArm, TwoToneDisarm, Trip
<1>5. moxOn \in BOOLEAN /\ ((owner # "none") = moxOn) /\ lastFired = (moxOn \/ tunOn) /\ tunOn \in BOOLEAN
  BY FlagTypes DEF KeyInv, OwnerIffMox
<1>6. ASSUME call[c] = CwxMox(FALSE) PROVE owner' # "Cwx"
  <2>1. call[c].on = FALSE /\ call[c].source = "Cwx"
    BY <1>6, CwxNames
  <2>2. CASE MoxNoOp(c)
    BY <1>5, <2>1, <2>2, CwxNames DEF MoxNoOp, flags
  <2>3. CASE MoxForeign(c)
    BY <2>1, <2>3, Zenon DEF MoxForeign, ForeignDrop, flags
  <2>4. CASE MoxKey(c)
    BY <2>1, <2>4, Zenon DEF MoxKey
  <2>5. CASE MoxUnkey(c)
    BY <2>5, CwxNames, Zenon DEF MoxUnkey, SetFlags
  <2> QED
    BY <1>3, <1>4, <1>6, <2>2, <2>3, <2>4, <2>5
<1>7. ASSUME call[c] = CwxMox(TRUE) PROVE ret'[c] = "ok" /\ lastFired'
  <2>1. call[c].on = TRUE
    BY <1>7, CwxNames
  <2>2. CASE MoxNoOp(c)
    BY <1>1, <1>5, <2>1, <2>2 DEF MoxNoOp, flags
  <2>3. CASE MoxKey(c)
    BY <1>1, <2>3, Zenon DEF MoxKey, SetFlags
  <2>4. CASE MoxForeign(c) \/ MoxUnkey(c)
    BY <2>1, <2>4, Zenon DEF MoxForeign, MoxUnkey, ForeignDrop
  <2> QED
    BY <1>3, <1>4, <1>7, <2>2, <2>3, <2>4
<1> QED
  BY <1>2, <1>6, <1>7

\* Steps that leave the worker, its call and the owner where they are.
LEMMA HeldRests ==
  ASSUME CallerInv, HeldInv, UNCHANGED <<pc, owner>>, Idle(Worker) => Idle(Worker)',
         call'[Worker] = call[Worker], ret'[Worker] = ret[Worker],
         \A c \in Callers \ {Worker} : call'[c].source # "Cwx"
  PROVE  CallerInv' /\ HeldInv'
<1>1. CallerInv'
  BY Zenon DEF CallerInv
<1>2. HeldInv'
  BY Zenon DEF HeldInv
<1> QED
  BY <1>1, <1>2

LEMMA HeldTxStep ==
  ASSUME TypeOK, KeyInv, CallerInv, HeldInv, NEW c \in Callers, TxStep(c)
  PROVE  CallerInv' /\ HeldInv'
<1> USE WorkerAssumption
<1>1. UNCHANGED pc
  BY Zenon DEF TxStep, cwVars, playVars
<1>2. CASE Effect(c)
  <2>1. UNCHANGED <<owner, call, ret>> /\ todo[c] # << >> /\ \A d \in Callers \ {c} : todo'[d] = todo[d]
    BY <1>2, EffectPops DEF flags
  <2>2. Idle(Worker) => Idle(Worker)'
    BY <2>1, Zenon DEF Idle
  <2>3. \A d \in Callers \ {Worker} : call'[d].source # "Cwx"
    BY <2>1, Zenon DEF CallerInv
  <2> QED
    BY <1>1, <2>1, <2>2, <2>3, HeldRests, Zenon
<1>3. CASE Lock(c) /\ c # Worker
  <2>1. /\ call'[c] = NoCall /\ \A d \in Callers \ {c} : call'[d] = call[d] /\ todo'[d] = todo[d] /\ ret'[d] = ret[d]
    BY <1>3, LockReturns
  <2>2. \A d \in Callers \ {Worker} : call'[d].source # "Cwx"
    BY <1>3, <2>1, CwxNames, Zenon DEF CallerInv
  <2>3. Idle(Worker) <=> Idle(Worker)'
    BY <1>3, <2>1, Zenon DEF Idle
  <2>4. owner # "Cwx" => owner' # "Cwx"
    BY <1>3, LockOwner, CwxNames, Zenon DEF CallerInv
  <2>5. call'[Worker] = call[Worker] /\ ret'[Worker] = ret[Worker]
    BY <1>3, <2>1
  <2>6. CallerInv'
    BY <1>1, <2>2, <2>3, <2>5, Zenon DEF CallerInv
  <2>7. HeldInv'
    BY <1>1, <2>4, <2>5, Zenon DEF HeldInv
  <2> QED
    BY <2>6, <2>7
<1>4. CASE Lock(Worker)
  <2>1. /\ call[Worker] # NoCall /\ call'[Worker] = NoCall /\ \A d \in Callers \ {Worker} : call'[d] = call[d]
    BY <1>4, LockReturns
  <2>2. pc \in {"keying", "releasing"}
    BY <2>1, Zenon DEF CallerInv, Idle
  <2>3. CASE pc = "keying"
    <3>1. ret'[Worker] = "ok"
      BY <1>4, <2>1, <2>3, LockOwner, Zenon DEF CallerInv
    <3>2. pc # "releasing" /\ pc \in Holding
      BY <2>3, SMT DEF Holding
    <3>3. CallerInv'
      BY <1>1, <2>1, <2>2, <3>2, Zenon DEF CallerInv
    <3>4. HeldInv'
      BY <1>1, <2>1, <3>1, <3>2, Zenon DEF HeldInv
    <3> QED
      BY <3>3, <3>4
  <2>4. CASE pc = "releasing"
    <3>1. owner' # "Cwx"
      BY <1>4, <2>1, <2>4, LockOwner, Zenon DEF CallerInv
    <3>2. pc # "keying"
      BY <2>4, SMT
    <3>3. CallerInv'
      BY <1>1, <2>1, <2>2, <3>2, Zenon DEF CallerInv
    <3>4. HeldInv'
      BY <3>1, Zenon DEF HeldInv
    <3> QED
      BY <3>3, <3>4
  <2> QED
    BY <2>2, <2>3, <2>4
<1> QED
  BY <1>2, <1>3, <1>4, Zenon DEF TxStep

LEMMA HeldWorker ==
  ASSUME TypeOK, CallerInv, HeldInv, WorkerStep
  PROVE  CallerInv' /\ HeldInv'
<1> USE WorkerAssumption DEF Goto
<1>1. ASSUME UNCHANGED vars PROVE UNCHANGED <<owner, call, ret, todo>> /\ (Idle(Worker)' <=> Idle(Worker))
  BY <1>1, Zenon DEF vars, flags, Idle
<1>2. ASSUME UNCHANGED vars, Idle(Worker), owner # "Cwx" \/ pc' \in Holding, pc' \notin {"keying", "releasing"}
      PROVE  CallerInv' /\ HeldInv'
  <2>1. CallerInv'
    BY <1>1, <1>2, Zenon DEF CallerInv
  <2>2. HeldInv'
    BY <1>1, <1>2, Zenon DEF HeldInv
  <2> QED
    BY <2>1, <2>2
<1>3. CASE Dequeue \/ Uncount \/ Arm \/ Looks \/ WriteChunk \/ Finish \/ GiveUp \/ End
  <2>1. UNCHANGED vars
    BY <1>3, Zenon DEF Dequeue, Uncount, Arm, Looks, WriteChunk, Finish, GiveUp, End
  <2>2. \/ pc \in {"read", "uncount", "arm", "end"} /\ pc' \in {"uncount", "arm", "key", "read"}
        \/ pc \in {"play", "write"} /\ pc' \in {"write", "play", "release"}
    BY <1>3, Zenon DEF Dequeue, Uncount, Arm, Looks, WriteChunk, Finish, GiveUp, End
  <2>3. pc \notin {"keying", "releasing"} /\ pc' \notin {"keying", "releasing"} /\ (pc \in Holding => pc' \in Holding)
    BY <2>2, SMT DEF Holding
  <2> QED
    BY <1>2, <2>1, <2>3, Zenon DEF CallerInv, HeldInv
<1>4. CASE Key
  <2>1. pc = "key" /\ pc' = "keying" /\ pc # "keying" /\ pc # "releasing" /\ pc' # "releasing" /\ pc \notin Holding
        /\ pc' \in Holding
    BY <1>4, SMT DEF Key, Holding
  <2>2. owner # "Cwx"
    BY <2>1, Zenon DEF HeldInv
  <2>3. CASE Enter(Worker, CwxMox(TRUE))
    <3>1. /\ call'[Worker] = CwxMox(TRUE) /\ owner' = owner
          /\ \A d \in Callers \ {Worker} : call'[d] = call[d]
      BY <2>3, CwxRequests, EnterIs DEF flags
    <3>2. CallerInv'
      BY <2>1, <3>1, Zenon DEF CallerInv
    <3>3. HeldInv'
      BY <2>1, <2>2, <3>1, Zenon DEF HeldInv
    <3> QED
      BY <3>2, <3>3
  <2>4. CASE Refuse(Worker, CwxMox(TRUE))
    <3>1. /\ UNCHANGED <<owner, call>> /\ call[Worker] = NoCall
      BY <2>4, Zenon DEF Refuse, flags, Idle
    <3>2. CallerInv'
      BY <2>1, <3>1, Zenon DEF CallerInv
    <3>3. HeldInv'
      BY <2>1, <2>2, <3>1, Zenon DEF HeldInv
    <3> QED
      BY <3>2, <3>3
  <2> QED
    BY <1>4, <2>3, <2>4, Zenon DEF Key
<1>5. CASE Keyed
  <2>1. /\ pc = "keying" /\ Idle(Worker) /\ UNCHANGED vars
        /\ pc' = IF ret[Worker] = "ok" THEN "play" ELSE "end"
    BY <1>5, Zenon DEF Keyed
  <2>2. ret[Worker] # "ok" => owner # "Cwx"
    BY <2>1, Zenon DEF HeldInv
  <2>3. pc' \notin {"keying", "releasing"} /\ (ret[Worker] = "ok" => pc' \in Holding)
    BY <2>1, SMT DEF Holding
  <2> QED
    BY <1>2, <2>1, <2>2, <2>3, Zenon
<1>6. CASE Release
  <2>1. pc = "release" /\ pc # "keying"
    BY <1>6, SMT DEF Release
  <2>2. CASE owner = "Cwx" /\ Enter(Worker, CwxMox(FALSE)) /\ pc' = "releasing"
    <3>1. /\ call'[Worker] = CwxMox(FALSE) /\ call'[Worker] # NoCall
          /\ \A d \in Callers \ {Worker} : call'[d] = call[d]
      BY <2>2, CwxRequests, EnterIs
    <3>2. pc' # "keying" /\ pc' \in Holding
      BY <2>2, SMT DEF Holding
    <3>3. CallerInv'
      BY <2>2, <3>1, <3>2, Zenon DEF CallerInv
    <3>4. HeldInv'
      BY <3>1, <3>2, Zenon DEF HeldInv
    <3> QED
      BY <3>3, <3>4
  <2>3. CASE owner # "Cwx" /\ pc' = "end" /\ UNCHANGED vars
    <3>1. pc \notin {"keying", "releasing"} /\ pc' \notin {"keying", "releasing"}
      BY <2>1, <2>3, SMT
    <3> QED
      BY <1>2, <2>3, <3>1, Zenon DEF CallerInv
  <2> QED
    BY <1>6, <2>2, <2>3, Zenon DEF Release
<1>7. CASE Released
  <2>1. pc = "releasing" /\ Idle(Worker) /\ UNCHANGED vars /\ pc' = "end"
    BY <1>7, Zenon DEF Released
  <2>2. owner # "Cwx"
    BY <2>1, Zenon DEF HeldInv, Idle
  <2>3. pc' \notin {"keying", "releasing"}
    BY <2>1, SMT
  <2> QED
    BY <1>2, <2>1, <2>2, <2>3, Zenon
<1> QED
  BY <1>3, <1>4, <1>5, <1>6, <1>7, Zenon DEF WorkerStep

LEMMA HeldStep ==
  ASSUME TypeOK, KeyInv, CallerInv, HeldInv, [CwNext]_allVars
  PROVE  CallerInv' /\ HeldInv'
<1> USE WorkerAssumption
<1>1. CASE Count \/ SendStep \/ AbortBegins \/ AbortStep \/ CwLink \/ UNCHANGED allVars
  <2>1. UNCHANGED <<pc, owner, call, ret, todo>>
    BY <1>1, LinkFacts, ZenonT(30) DEF Count, SendStep, Write, WriteCancelled, AbortBegins, AbortStep, AbortDrains,
       AbortUncounts, AbortCancels, CwLink, allVars, cwVars, playVars, vars, flags
  <2>2. Idle(Worker) => Idle(Worker)'
    BY <2>1, Zenon DEF Idle
  <2> QED
    BY <2>1, <2>2, HeldRests, Zenon DEF CallerInv
<1>2. CASE OtherCall
  <2>1. PICK c \in Callers \ {Worker}, k \in Request : k.source # "Cwx" /\ Enter(c, k)
    BY <1>2, Zenon DEF OtherCall
  <2>2. /\ call'[c] = k /\ UNCHANGED <<flags, todo>>
        /\ \A d \in Callers \ {c} : call'[d] = call[d] /\ ret'[d] = ret[d]
    BY <2>1, EnterIs
  <2>3. UNCHANGED pc
    BY <1>2, Zenon DEF OtherCall, cwVars, playVars
  <2>4. Idle(Worker) => Idle(Worker)'
    BY <2>1, <2>2, Zenon DEF Idle
  <2>5. \A d \in Callers \ {Worker} : call'[d].source # "Cwx"
    BY <2>1, <2>2, Zenon DEF CallerInv
  <2> QED
    BY <2>1, <2>2, <2>3, <2>4, <2>5, HeldRests, Zenon DEF flags
<1> QED
  BY <1>1, <1>2, HeldWorker, HeldTxStep, Zenon DEF CwNext

LEMMA HeldInit == ASSUME CwInit PROVE CallerInv /\ HeldInv
<1>1. pc = "read" /\ owner = "none" /\ (\A c \in Callers : Idle(c))
  BY Zenon DEF CwInit, Init, Idle
<1>2. pc \notin {"keying", "releasing"} /\ pc # "keying" /\ pc # "releasing" /\ owner # "Cwx"
  BY <1>1, SMT
<1>3. CallerInv
  BY <1>1, <1>2, CwxNames, WorkerAssumption, Zenon DEF CallerInv, Idle
<1> QED
  BY <1>2, <1>3, Zenon DEF HeldInv

\* The worker is never back at its queue with MOX still Cwx's, whatever other
\* callers, cancellations and the link do meanwhile.
THEOREM NothingLeftKeyed == CwSpec => []NoCwCarrierLeft
<1>1. HeldInv => NoCwCarrierLeft
  <2>1. "read" \notin Holding
    BY SMT DEF Holding
  <2> QED
    BY <2>1, Zenon DEF HeldInv, NoCwCarrierLeft
<1>2. CwInit => CallerInv /\ HeldInv
  BY HeldInit
<1>3. TypeOK /\ KeyInv /\ CallerInv /\ HeldInv /\ [CwNext]_allVars => CallerInv' /\ HeldInv'
  BY HeldStep
<1> QED
  BY <1>1, <1>2, <1>3, KeysThroughTxService, TypeCorrect, KeyingSafe, PTL DEF CwSpec

-----------------------------------------------------------------------------
(* The operator's release reaches the job that is played: while a job that  *)
(* is not cancelled plays, TxService's flags are on or a falling edge is on *)
(* its way to it.                                                           *)

Playing ==
  \/ pc \in {"play", "write"}
  \/ pc = "keying" /\ call[Worker] = NoCall /\ ret[Worker] = "ok"

Fall(s) == \E i \in DOMAIN s : s[i].fx = "raise" /\ ~s[i].on

OnAirInv == Playing => Cancelled \/ lastFired \/ \E c \in Callers : Fall(todo[c])

\* A fall in a list is its head or still in its tail.
LEMMA FallTail ==
  ASSUME NEW s \in Seq(Effects), s # << >>, Fall(s)
  PROVE  (Head(s).fx = "raise" /\ ~Head(s).on) \/ Fall(Tail(s))
<1>1. PICK i \in DOMAIN s : s[i].fx = "raise" /\ ~s[i].on
  BY Zenon DEF Fall
<1> DEFINE E == Effects
<1> HIDE DEF E
<1>2. s \in Seq(E)
  BY DEF E
<1>3. CASE i = 1
  BY <1>1, <1>2, <1>3, SMT
<1>4. CASE i # 1
  <2>1. i - 1 \in DOMAIN Tail(s) /\ Tail(s)[i - 1] = s[i]
    BY <1>1, <1>2, <1>4, SMT
  <2> QED
    BY <1>1, <2>1, Zenon DEF Fall
<1> QED
  BY <1>3, <1>4

LEMMA OnAirRests ==
  ASSUME OnAirInv, Playing' => Playing, Cancelled => Cancelled', lastFired => lastFired', UNCHANGED todo
  PROVE  OnAirInv'
BY Zenon DEF OnAirInv

LEMMA OnAirLock ==
  ASSUME TypeOK, KeyInv, CallsApart, CallerInv, OnAirInv, NEW c \in Callers, Lock(c), UNCHANGED cwVars
  PROVE  OnAirInv'
<1> USE WorkerAssumption
<1>1. /\ call[c] # NoCall /\ call'[c] = NoCall
      /\ \A d \in Callers \ {c} : call'[d] = call[d] /\ todo'[d] = todo[d] /\ ret'[d] = ret[d]
  BY LockReturns
<1>2. UNCHANGED pc /\ Cancelled' = Cancelled
  BY Zenon DEF cwVars, playVars, Cancelled
<1>3. todo[c] = << >>
  BY <1>1, Zenon DEF CallsApart
<1>4. ~Fall(todo[c])
  <2>1. DOMAIN << >> = {}
    BY SMT
  <2> QED
    BY <1>3, <2>1, Zenon DEF Fall
<1>5. ASSUME lastFired, ~lastFired' PROVE Fall(todo'[c])
  <2>1. Told(todo'[c], "raise", lastFired, lastFired')
    BY LockTells
  <2>2. Says(todo'[c], "raise", lastFired', FALSE)
    BY <1>5, <2>1, Zenon DEF Told
  <2> QED
    BY <1>5, <2>2, Zenon DEF Says, Fall
<1>6. CASE Playing
  <2>1. CASE Cancelled
    BY <1>2, <2>1, Zenon DEF OnAirInv
  <2>2. CASE lastFired
    BY <1>5, <2>2, Zenon DEF OnAirInv
  <2>3. ASSUME NEW d \in Callers, Fall(todo[d]) PROVE OnAirInv'
    <3>1. d # c
      BY <1>4, <2>3, Zenon
    <3> QED
      BY <1>1, <2>3, <3>1, Zenon DEF OnAirInv
  <2> QED
    BY <1>6, <2>1, <2>2, <2>3, Zenon DEF OnAirInv
<1>7. ASSUME ~Playing, Playing' PROVE lastFired'
  <2>1. pc = "keying" /\ c = Worker
    BY <1>1, <1>2, <1>7, Zenon DEF Playing
  <2>2. call[Worker] = CwxMox(TRUE)
    BY <1>1, <2>1, Zenon DEF CallerInv
  <2> QED
    BY <2>1, <2>2, LockOwner
<1> QED
  BY <1>6, <1>7, Zenon DEF OnAirInv

LEMMA OnAirEffect ==
  ASSUME TypeOK, TokenInv, OnAirInv, NEW c \in Callers, Effect(c), Hears(c), UNCHANGED playVars
  PROVE  OnAirInv'
<1>1. /\ todo[c] \in Seq(Effects) /\ todo[c] # << >> /\ todo'[c] = Tail(todo[c])
      /\ \A d \in Callers \ {c} : todo'[d] = todo[d]
      /\ UNCHANGED <<call, ret, lastFired>>
  BY EffectPops DEF flags
<1>2. UNCHANGED <<pc, currentAbort>>
  BY Zenon DEF playVars
<1>3. Playing' = Playing
  BY <1>1, <1>2, Zenon DEF Playing
<1>4. Cancelled => Cancelled'
  BY <1>2, Zenon DEF Hears, Cancelled
<1>5. Playing => currentAbort
  <2>1. Playing => pc \notin {"read", "uncount", "arm"}
    BY SMT DEF Playing
  <2> QED
    BY <2>1, Zenon DEF TokenInv
<1>6. ASSUME Playing, Fall(todo[c]) PROVE Cancelled' \/ Fall(todo'[c])
  <2>1. CASE Fall(Tail(todo[c]))
    BY <1>1, <2>1, Zenon
  <2>2. CASE Head(todo[c]).fx = "raise" /\ ~Head(todo[c]).on
    BY <1>2, <1>5, <1>6, <2>2, Zenon DEF Hears, Next1, Cancelled
  <2> QED
    BY <1>1, <1>6, <2>1, <2>2, FallTail
<1> QED
  BY <1>1, <1>3, <1>4, <1>6, Zenon DEF OnAirInv

LEMMA OnAirWorker == ASSUME TypeOK, CallerInv, OnAirInv, WorkerStep PROVE OnAirInv'
<1> USE WorkerAssumption DEF Goto
<1>1. ASSUME UNCHANGED vars PROVE UNCHANGED <<call, ret, todo, lastFired>>
  BY <1>1, Zenon DEF vars, flags
<1>2. ASSUME pc' \notin {"keying", "play", "write"} PROVE OnAirInv'
  BY <1>2, Zenon DEF OnAirInv, Playing
<1>3. CASE Dequeue \/ Uncount \/ Arm \/ Finish \/ GiveUp \/ Release \/ Released \/ End
  <2>1. pc' \in {"uncount", "arm", "key", "release", "releasing", "end", "read"}
    BY <1>3, Zenon DEF Dequeue, Uncount, Arm, Finish, GiveUp, Release, Released, End
  <2>2. pc' \notin {"keying", "play", "write"}
    BY <2>1, SMT
  <2> QED
    BY <1>2, <2>2
<1>4. CASE Key
  <2>1. pc' \notin {"play", "write"}
    BY <1>4, SMT DEF Key
  <2>2. CASE Enter(Worker, CwxMox(TRUE))
    <3>1. call'[Worker] # NoCall
      BY <2>2, CwxRequests, EnterIs
    <3> QED
      BY <2>1, <3>1, Zenon DEF OnAirInv, Playing
  <2>3. CASE Refuse(Worker, CwxMox(TRUE))
    <3>1. ret'[Worker] = "fail"
      BY <2>3, Zenon DEF Refuse, TypeOK
    <3> QED
      BY <2>1, <3>1, CwxNames, Zenon DEF OnAirInv, Playing
  <2> QED
    BY <1>4, <2>2, <2>3, Zenon DEF Key
<1>5. CASE Keyed \/ Looks \/ WriteChunk
  <2>1. UNCHANGED <<vars, currentAbort, cancelled>>
    BY <1>5, Zenon DEF Keyed, Looks, WriteChunk
  <2>2. Playing' => Playing
    <3>1. CASE Keyed
      <4>1. pc = "keying" /\ call[Worker] = NoCall
            /\ pc' = IF ret[Worker] = "ok" THEN "play" ELSE "end"
        BY <3>1, Zenon DEF Keyed, Idle
      <4>2. "end" \notin {"play", "write", "keying"}
        BY SMT
      <4> QED
        BY <4>1, <4>2, Zenon DEF Playing
    <3>2. CASE Looks \/ WriteChunk
      BY <3>2, Zenon DEF Looks, WriteChunk, Playing
    <3> QED
      BY <1>5, <3>1, <3>2
  <2>3. Cancelled => Cancelled'
    BY <2>1, Zenon DEF Cancelled
  <2> QED
    BY <1>1, <2>1, <2>2, <2>3, OnAirRests
<1> QED
  BY <1>3, <1>4, <1>5, Zenon DEF WorkerStep

LEMMA OnAirStep ==
  ASSUME TypeOK, KeyInv, CallsApart, CallerInv, TokenInv, OnAirInv, [CwNext]_allVars
  PROVE  OnAirInv'
<1> USE WorkerAssumption
<1>1. CASE Count \/ SendStep \/ AbortBegins \/ AbortStep \/ CwLink \/ UNCHANGED allVars
  <2>1. UNCHANGED <<pc, currentAbort, lastFired, call, ret, todo>>
    BY <1>1, LinkFacts, ZenonT(30) DEF Count, SendStep, Write, WriteCancelled, AbortBegins, AbortStep, AbortDrains,
       AbortUncounts, AbortCancels, CwLink, allVars, cwVars, playVars, vars, flags
  <2>2. cancelled => cancelled'
    BY <1>1, Zenon DEF Count, SendStep, Write, WriteCancelled, AbortBegins, AbortStep, AbortDrains, AbortUncounts,
       AbortCancels, CwLink, allVars, cwVars
  <2>3. Playing' = Playing /\ (Cancelled => Cancelled')
    BY <2>1, <2>2, Zenon DEF Playing, Cancelled
  <2> QED
    BY <2>1, <2>3, OnAirRests
<1>2. CASE OtherCall
  <2>1. PICK c \in Callers \ {Worker}, k \in Request : Enter(c, k)
    BY <1>2, Zenon DEF OtherCall
  <2>2. UNCHANGED <<flags, todo>> /\ \A d \in Callers \ {c} : call'[d] = call[d] /\ ret'[d] = ret[d]
    BY <2>1, EnterIs
  <2>3. UNCHANGED <<pc, currentAbort, cancelled>>
    BY <1>2, Zenon DEF OtherCall, cwVars, playVars
  <2>4. Playing' = Playing /\ Cancelled' = Cancelled /\ lastFired' = lastFired
    BY <2>1, <2>2, <2>3, Zenon DEF Playing, Cancelled, flags
  <2> QED
    BY <2>2, <2>4, OnAirRests
<1>3. ASSUME NEW c \in Callers, TxStep(c) PROVE OnAirInv'
  BY <1>3, OnAirLock, OnAirEffect, Zenon DEF TxStep
<1> QED
  BY <1>1, <1>2, <1>3, OnAirWorker, Zenon DEF CwNext

LEMMA OnAirInit == ASSUME CwInit PROVE OnAirInv
<1>1. pc \notin {"play", "write", "keying"}
  BY SMT DEF CwInit
<1> QED
  BY <1>1, Zenon DEF OnAirInv, Playing

LEMMA OnAirAlways == CwSpec => [](OnAirInv /\ KeyInv /\ CallsApart /\ TypeOK)
<1>1. CwInit => CallerInv /\ HeldInv /\ OnAirInv
  BY HeldInit, OnAirInit
<1>2. JobInv => TokenInv
  BY DEF JobInv
<1>3. TypeOK /\ KeyInv /\ CallerInv /\ HeldInv /\ [CwNext]_allVars => CallerInv' /\ HeldInv'
  BY HeldStep
<1>4. TypeOK /\ KeyInv /\ CallsApart /\ CallerInv /\ TokenInv /\ OnAirInv /\ [CwNext]_allVars => OnAirInv'
  BY OnAirStep
<1> QED
  BY <1>1, <1>2, <1>3, <1>4, KeysThroughTxService, TypeCorrect, KeyingSafe, CallsStayApart,
     PlaceInit, PlaceStep, QueueInit, QueueStep, JobInit, JobStep, PTL DEF CwSpec

\* With all calls returned, TxService still counts the radio as keyed while a
\* job that is not cancelled plays.
PlaysKeyed == Quiet /\ pc \in {"play", "write"} /\ ~Cancelled => OnAir

LEMMA OnAirKeyed == ASSUME OnAirInv, KeyInv PROVE PlaysKeyed
<1>1. DOMAIN << >> = {}
  BY SMT
<1>2. Quiet => \A c \in Callers : ~Fall(todo[c])
  BY <1>1, Zenon DEF Quiet, Idle, Fall
<1>3. lastFired = (moxOn \/ tunOn)
  BY Zenon DEF KeyInv, EdgeDetector
<1> QED
  BY <1>2, <1>3, Zenon DEF OnAirInv, PlaysKeyed, Playing, OnAir

\* Whoever takes the channel, a job that is not cancelled plays on only while
\* TxService's flags say MOX or TUN: no release, two-tone test or trip that
\* clears them goes past the job.  The wire itself may differ from the flags
\* after two calls crossed in their effects (README, section 5).
THEOREM PlaysOnAir == CwSpec => []PlaysKeyed
<1>1. OnAirInv /\ KeyInv => PlaysKeyed
  BY OnAirKeyed
<1> QED
  BY <1>1, OnAirAlways, PTL

\* Where nobody tunes, the flag is MOX's.
NoTune == ~tunOn /\ \A c \in Callers : call[c].op # "tun"

LEMMA NoTuneStep ==
  ASSUME "tun" \notin Ops, TypeOK, NoTune, [Next]_vars
  PROVE  NoTune'
<1>1. NoCall.op # "tun"
  BY SMT DEF NoCall
<1>2. ASSUME NEW c \in Callers, NEW k \in Request, Enter(c, k) PROVE NoTune'
  <2>1. k.op # "tun"
    BY SMT DEF Request
  <2>2. call'[c] = k /\ (\A d \in Callers \ {c} : call'[d] = call[d]) /\ UNCHANGED flags
    BY <1>2, EnterIs
  <2> QED
    BY <2>1, <2>2, Zenon DEF NoTune, flags
<1>3. ASSUME NEW c \in Callers, Lock(c) PROVE NoTune'
  <2>1. call'[c] = NoCall /\ \A d \in Callers \ {c} : call'[d] = call[d]
    BY <1>3, LockReturns
  <2>2. ~tunOn'
    BY <1>3, Zenon DEF NoTune, Lock, MoxNoOp, MoxForeign, MoxKey, MoxUnkey, TunNoOp, TunKey, TunUnkey,
       TwoToneArm, TwoToneDisarm, Trip, SetFlags, flags
  <2> QED
    BY <1>1, <2>1, <2>2, Zenon DEF NoTune
<1>4. CASE UNCHANGED <<tunOn, call>>
  BY <1>4, Zenon DEF NoTune
<1>5. ASSUME NEW c \in Callers, NEW k \in Request, Refuse(c, k) PROVE UNCHANGED <<tunOn, call>>
  BY <1>5, Zenon DEF Refuse, flags
<1>6. ASSUME NEW c \in Callers, Effect(c) PROVE UNCHANGED <<tunOn, call>>
  BY <1>6, EffectPops, Zenon DEF flags
<1>7. CASE LinkStep \/ UNCHANGED vars
  BY <1>4, <1>7, LinkFacts, Zenon DEF vars, flags
<1> QED
  BY <1>2, <1>3, <1>4, <1>5, <1>6, <1>7, Zenon DEF Next, Thread

\* Where TUN is not in use, the MOX flag is on whenever no call is in flight
\* and a job that is not cancelled plays.
THEOREM PlaysKeyedByMox == ASSUME "tun" \notin Ops PROVE CwSpec => []PlaysUnderMox
<1>1. Init => NoTune
  <2>1. NoCall.op # "tun"
    BY SMT DEF NoCall
  <2> QED
    BY <2>1, Zenon DEF Init, NoTune
<1>2. TypeOK /\ NoTune /\ [Next]_vars => NoTune'
  BY NoTuneStep
<1>3. PlaysKeyed /\ NoTune => PlaysUnderMox
  BY Zenon DEF PlaysKeyed, NoTune, OnAir, PlaysUnderMox
<1>4. Spec => []NoTune
  BY <1>1, <1>2, TypeCorrect, PTL DEF Spec
<1> QED
  BY <1>3, <1>4, PlaysOnAir, KeysThroughTxService, PTL
=============================================================================
