-------------------------- MODULE RadioLinkProofs --------------------------
(***************************************************************************)
(* Connecting and disconnecting for every set of requests and every number *)
(* of clients and engines: engines whatever requests overlap, and the link *)
(* after requests that do not.                                             *)
(***************************************************************************)
EXTENDS RadioLink, TLAPS

-----------------------------------------------------------------------------
(* Types.                                                                  *)

LEMMA FreshIsClient == ASSUME NEW c \in Fresh PROVE c \in Clients /\ c # None
BY BoundsAssumption, SMT DEF Fresh, Clients, None

LEMMA UnusedIsEngine == ASSUME NEW e \in Unused PROVE e \in Engines /\ e # None /\ kind[e] = "unused"
BY BoundsAssumption, SMT DEF Unused, Engines, None

LEMMA SwapType ==
  ASSUME TypeOK, NEW r \in Requests, NEW k \in Kinds, Swap(r, k)
  PROVE  /\ kind' \in [Engines -> {"unused", "closed"} \cup Kinds] /\ engine' \in Engines
         /\ old' \in [Requests -> Engines \cup {None}]
<1>1. PICK e \in Unused : /\ kind' = [kind EXCEPT ![e] = k] /\ engine' = e
                          /\ old' = [old EXCEPT ![r] = engine]
  BY DEF Swap
<1>2. e \in Engines
  BY UnusedIsEngine
<1> QED
  BY <1>1, <1>2, Zenon DEF TypeOK

LEMMA StrandType ==
  ASSUME TypeOK, Strand
  PROVE  kind' \in [Engines -> {"unused", "closed"} \cup Kinds] /\ stranded' \in SUBSET Engines
<1>1. PICK e \in Unused : kind' = [kind EXCEPT ![e] = "wdsp"] /\ stranded' = stranded \cup {e}
  BY DEF Strand
<1>2. e \in Engines /\ "wdsp" \in Kinds
  BY UnusedIsEngine, SMT DEF Kinds
<1>3. kind \in [Engines -> {"unused", "closed"} \cup Kinds] /\ stranded \in SUBSET Engines
  BY DEF TypeOK
<1>4. stranded' \in SUBSET Engines
  BY <1>1, <1>2, <1>3, SMT
<1>5. kind' \in [Engines -> {"unused", "closed"} \cup Kinds]
  BY <1>1, <1>2, <1>3, Zenon
<1> QED
  BY <1>4, <1>5

LEMMA TearDownType ==
  ASSUME TypeOK, NEW r \in Requests, TearDownOld(r)
  PROVE  /\ kind' \in [Engines -> {"unused", "closed"} \cup Kinds]
         /\ old' \in [Requests -> Engines \cup {None}]
BY Zenon DEF TypeOK, TearDownOld

LEMMA SinkType ==
  ASSUME TypeOK, NEW slot \in {"p1", "p2"}, NEW c \in Clients \cup {None},
         Attach(slot, c) \/ Detach(slot)
  PROVE  sink' \in [p1: Clients \cup {None}, p2: Clients \cup {None}] /\ sinkAttached' \in BOOLEAN
<1> DEFINE Slots == Clients \cup {None}
<1>1. sink \in [p1: Slots, p2: Slots] /\ None \in Slots
  BY DEF TypeOK
<1> HIDE DEF Slots
<1>2. ASSUME NEW d \in Slots, sink' = [sink EXCEPT ![slot] = d]
      PROVE  sink' \in [p1: Slots, p2: Slots]
  <2>1. CASE slot = "p1"
    BY <1>1, <1>2, <2>1, SMT
  <2>2. CASE slot = "p2"
    BY <1>1, <1>2, <2>2, SMT
  <2> QED
    BY <2>1, <2>2
<1>3. c \in Slots
  BY DEF Slots
<1> QED
  BY <1>1, <1>2, <1>3, Zenon DEF Attach, Detach, Slots

LEMMA SetClientType ==
  ASSUME TypeOK, NEW c, NEW s \in {"new", "running", "silent", "closed"}, SetClient(c, s)
  PROVE  client' \in [Clients -> {"unused", "new", "running", "silent", "closed"}]
BY Zenon DEF TypeOK, SetClient

LEMMA P1Type ==
  ASSUME TypeOK, NEW r \in Requests, P1Next(r)
  PROVE  TypeOK'
<1> USE DEF P1Steps, radio, pipeline, history, Goto
<1>1. CASE P1Claim(r)
  <2>1. PICK c \in Fresh : /\ mine' = [mine EXCEPT ![r] = c]
                           /\ client' = [client EXCEPT ![c] = "new"] /\ activeClient' = c
    BY <1>1 DEF P1Claim, SetClient
  <2>2. c \in Clients
    BY FreshIsClient
  <2>3. tangled' \in BOOLEAN
    BY <1>1, Zenon DEF P1Claim, Start
  <2> QED
    BY <1>1, <2>1, <2>2, <2>3, SMT DEF TypeOK, P1Claim
<1>2. CASE P1Open(r)
  <2>1. client' \in [Clients -> {"unused", "new", "running", "silent", "closed"}]
    BY <1>2, SetClientType, Zenon DEF P1Open
  <2>2. pc' \in [Requests -> {"idle"} \cup P1Steps \cup P2Steps]
    BY <1>2, SMT DEF P1Open, TypeOK
  <2> QED
    BY <1>2, <2>1, <2>2, Zenon DEF TypeOK, P1Open
<1>3. CASE P1Connected(r)
  BY <1>3, SMT DEF TypeOK, P1Connected
<1>4. CASE P1Swap(r)
  <2>1. Swap(r, "wdsp") /\ "wdsp" \in Kinds
    BY <1>4 DEF P1Swap, Kinds
  <2> QED
    BY <1>4, <2>1, SwapType, SMT DEF TypeOK, P1Swap
<1>5. CASE P1Attach(r)
  <2>1. mine[r] \in Clients \cup {None} /\ TearDownOld(r) /\ Attach("p1", mine[r])
    BY <1>5 DEF P1Attach, TypeOK
  <2>2. sink' \in [p1: Clients \cup {None}, p2: Clients \cup {None}] /\ sinkAttached' \in BOOLEAN
    BY <2>1, SinkType
  <2>3. pc' \in [Requests -> {"idle"} \cup P1Steps \cup P2Steps] /\ leftover' \in BOOLEAN
    <3>1. pc \in [Requests -> {"idle"} \cup P1Steps \cup P2Steps]
      BY DEF TypeOK
    <3>2. pc' = [pc EXCEPT ![r] = "p1Replay"] /\ leftover' = FALSE
      BY <1>5 DEF P1Attach
    <3> QED
      BY <3>1, <3>2
  <2> QED
    BY <1>5, <2>1, <2>2, <2>3, TearDownType, Zenon DEF TypeOK, P1Attach
<1>6. CASE P1Catch(r)
  <2>1. SetClient(mine[r], "closed")
    BY <1>6 DEF P1Catch
  <2>2. client' \in [Clients -> {"unused", "new", "running", "silent", "closed"}]
    BY <2>1, SetClientType, Zenon
  <2> QED
    BY <1>6, <2>2, SMT DEF TypeOK, P1Catch
<1>7. CASE P1Release(r)
  <2>1. tangled' \in BOOLEAN
    BY <1>7, Zenon DEF P1Release, Start
  <2> QED
    BY <1>7, <2>1, SMT DEF TypeOK, P1Release
<1>8. CASE P1Detach(r)
  <2>1. Detach("p1") /\ None \in Clients \cup {None}
    BY <1>8 DEF P1Detach
  <2> QED
    BY <1>8, <2>1, SinkType, SMT DEF TypeOK, P1Detach
<1>9. CASE P1Unswap(r)
  <2>1. Swap(r, "synthetic") /\ "synthetic" \in Kinds
    BY <1>9 DEF P1Unswap, Kinds
  <2> QED
    BY <1>9, <2>1, SwapType, SMT DEF TypeOK, P1Unswap
<1>10. CASE P1TearDown(r)
  <2>1. TearDownOld(r) /\ SetClient(mine[r], "closed")
    BY <1>10 DEF P1TearDown
  <2>2. client' \in [Clients -> {"unused", "new", "running", "silent", "closed"}]
    BY <2>1, SetClientType, Zenon
  <2> QED
    BY <1>10, <2>1, <2>2, TearDownType, SMT DEF TypeOK, P1TearDown
<1>11. CASE P1Disconnected(r)
  BY <1>11, SMT DEF TypeOK, P1Disconnected
<1>12. CASE P1Replay(r)
  BY <1>12, SMT DEF TypeOK, P1Replay
<1>13. CASE P1Throws(r)
  <2>1. kind' \in [Engines -> {"unused", "closed"} \cup Kinds] /\ stranded' \in SUBSET Engines
    BY <1>13, StrandType, Zenon DEF P1Throws, TypeOK
  <2>2. leftover' \in BOOLEAN
    BY <1>13, Zenon DEF P1Throws
  <2>3. pc' \in [Requests -> {"idle"} \cup P1Steps \cup P2Steps]
    BY <1>13, SMT DEF P1Throws, TypeOK
  <2> QED
    BY <1>13, <2>1, <2>2, <2>3, Zenon DEF P1Throws, TypeOK
<1> QED
  BY <1>1, <1>2, <1>3, <1>4, <1>5, <1>6, <1>7, <1>8, <1>9, <1>10, <1>11, <1>12, <1>13 DEF P1Next

LEMMA P2Type ==
  ASSUME TypeOK, NEW r \in Requests, P2Next(r)
  PROVE  TypeOK'
<1> USE DEF P2Steps, radio, pipeline, history, Goto
<1>1. CASE P2Check(r)
  <2>1. PICK c \in Fresh : /\ mine' = [mine EXCEPT ![r] = c]
                           /\ client' = [client EXCEPT ![c] = "new"]
    BY <1>1 DEF P2Check, SetClient
  <2>2. c \in Clients
    BY FreshIsClient
  <2>3. tangled' \in BOOLEAN
    BY <1>1, Zenon DEF P2Check, Start
  <2> QED
    BY <1>1, <2>1, <2>2, <2>3, SMT DEF TypeOK, P2Check
<1>2. CASE P2Bind(r)
  BY <1>2, SMT DEF TypeOK, P2Bind
<1>3. CASE P2Start(r) \/ P2StartFails(r)
  BY <1>3, SMT DEF TypeOK, P2Start, P2StartFails, SetClient
<1>4. CASE P2Swap(r) \/ P2Fallback(r)
  <2>1. PICK k \in Kinds : Swap(r, k)
    BY <1>4 DEF P2Swap, P2Fallback, Kinds
  <2>2. pc' \in [Requests -> {"idle"} \cup P1Steps \cup P2Steps]
    BY <1>4, SMT DEF P2Swap, P2Fallback, TypeOK
  <2> QED
    BY <1>4, <2>1, <2>2, SwapType, Zenon DEF TypeOK, P2Swap, P2Fallback
<1>5. CASE P2Publish(r)
  <2>1. mine[r] \in Clients \cup {None} /\ TearDownOld(r) /\ Attach("p2", mine[r])
    BY <1>5 DEF P2Publish, TypeOK
  <2> QED
    BY <1>5, <2>1, TearDownType, SinkType, SMT DEF TypeOK, P2Publish
<1>6. CASE P2Mark(r)
  BY <1>6, SMT DEF TypeOK, P2Mark
<1>7. CASE P2Release(r)
  <2>1. tangled' \in BOOLEAN
    BY <1>7, Zenon DEF P2Release, Start
  <2> QED
    BY <1>7, <2>1, SMT DEF TypeOK, P2Release
<1>8. CASE P2Detach(r)
  <2>1. Detach("p2") /\ None \in Clients \cup {None}
    BY <1>8 DEF P2Detach
  <2> QED
    BY <1>8, <2>1, SinkType, SMT DEF TypeOK, P2Detach
<1>9. CASE P2Stop(r)
  <2>1. SetClient(mine[r], "closed")
    BY <1>9 DEF P2Stop
  <2>2. client' \in [Clients -> {"unused", "new", "running", "silent", "closed"}]
    BY <2>1, SetClientType, Zenon
  <2> QED
    BY <1>9, <2>2, SMT DEF TypeOK, P2Stop
<1>10. CASE P2Unswap(r)
  <2>1. Swap(r, "synthetic") /\ "synthetic" \in Kinds
    BY <1>10 DEF P2Unswap, Kinds
  <2> QED
    BY <1>10, <2>1, SwapType, SMT DEF TypeOK, P2Unswap
<1>11. CASE P2Unmark(r)
  <2>1. TearDownOld(r)
    BY <1>11 DEF P2Unmark
  <2>2. pc' \in [Requests -> {"idle"} \cup P1Steps \cup P2Steps]
    BY <1>11, SMT DEF P2Unmark, TypeOK
  <2>3. status' \in {"Disconnected", "Connecting", "Connected", "Error"} /\ p2Active' \in BOOLEAN
    BY <1>11 DEF P2Unmark
  <2> QED
    BY <1>11, <2>1, <2>2, <2>3, TearDownType, Zenon DEF TypeOK, P2Unmark
<1>12. CASE P2OpenFails(r)
  <2>1. kind' \in [Engines -> {"unused", "closed"} \cup Kinds] /\ stranded' \in SUBSET Engines
    BY <1>12, StrandType, Zenon DEF P2OpenFails, TypeOK
  <2>2. pc' \in [Requests -> {"idle"} \cup P1Steps \cup P2Steps]
    BY <1>12, SMT DEF P2OpenFails, TypeOK
  <2> QED
    BY <1>12, <2>1, <2>2, Zenon DEF P2OpenFails, TypeOK
<1>13. CASE P2Throws(r)
  <2>1. /\ kind' \in [Engines -> {"unused", "closed"} \cup Kinds]
        /\ old' \in [Requests -> Engines \cup {None}]
    BY <1>13, TearDownType, Zenon DEF P2Throws, TypeOK
  <2>2. p2Client' \in Clients \cup {None}
    BY <1>13, SMT DEF P2Throws, TypeOK
  <2>3. pc' \in [Requests -> {"idle"} \cup P1Steps \cup P2Steps] /\ tangled' \in BOOLEAN
    BY <1>13, SMT DEF P2Throws, TypeOK
  <2> QED
    BY <1>13, <2>1, <2>2, <2>3, Zenon DEF P2Throws, TypeOK
<1> QED
  BY <1>1, <1>2, <1>3, <1>4, <1>5, <1>6, <1>7, <1>8, <1>9, <1>10, <1>11, <1>12, <1>13 DEF P2Next

LEMMA TypeInit == Init => TypeOK
<1> SUFFICES ASSUME Init
             PROVE  TypeOK
  OBVIOUS
<1>1. 1 \in Engines /\ "synthetic" \in Kinds
  BY BoundsAssumption, SMT DEF Engines, Kinds
<1>2. sink \in [p1: Clients \cup {None}, p2: Clients \cup {None}]
  BY Zenon DEF Init
<1>3. kind \in [Engines -> {"unused", "closed"} \cup Kinds]
  BY <1>1 DEF Init
<1>4. /\ mine \in [Requests -> Clients \cup {None}] /\ old \in [Requests -> Engines \cup {None}]
      /\ client \in [Clients -> {"unused", "new", "running", "silent", "closed"}]
      /\ pc \in [Requests -> {"idle"} \cup P1Steps \cup P2Steps]
  BY DEF Init
<1> QED
  BY <1>1, <1>2, <1>3, <1>4, Zenon DEF Init, TypeOK

LEMMA TypeStep == TypeOK /\ [Next]_vars => TypeOK'
<1>1. TypeOK /\ UNCHANGED vars => TypeOK'
  BY Zenon DEF TypeOK, vars, request, radio, pipeline, history
<1>2. TypeOK /\ RadioVanishes => TypeOK'
  BY SMT DEF TypeOK, RadioVanishes, SetClient, request, radio, pipeline, history
<1> QED
  BY <1>1, <1>2, P1Type, P2Type DEF Next

\* Requests, clients, engines, status and sink keep their types, for every set of
\* requests and every number of clients and engines.
THEOREM TypeCorrect == Spec => []TypeOK
BY TypeInit, TypeStep, PTL DEF Spec

-----------------------------------------------------------------------------
(* Engines, whatever requests overlap and wherever they throw.             *)

\* Who still has a swapped-out engine in hand.
Held == {"p1Attach", "p1TearDown", "p2Publish", "p2Unmark"}

StrandedOpened == \A e \in stranded : kind[e] # "unused"

EngineInv ==
  /\ EngineLifecycle
  /\ StrandedOpened
  /\ \A r \in Requests : pc[r] \notin Held => old[r] = None

\* The engine pointer moves: what it pointed to is in hand.
LEMMA SwapKeeps ==
  ASSUME TypeOK, EngineInv, NEW r \in Requests, old[r] = None, NEW k \in Kinds, Swap(r, k),
         UNCHANGED stranded
  PROVE  EngineLifecycle' /\ StrandedOpened' /\ kind'[engine'] = k
<1>1. PICK e \in Unused : /\ kind' = [kind EXCEPT ![e] = k] /\ engine' = e
                          /\ old' = [old EXCEPT ![r] = engine]
  BY DEF Swap
<1>2. e \in Engines /\ kind[e] = "unused" /\ "unused" \notin Kinds /\ e # None
  BY UnusedIsEngine, SMT DEF Kinds
<1>3. engine \in Engines /\ kind[engine] \in Kinds /\ e # engine /\ engine \notin stranded
  BY <1>2, Zenon DEF TypeOK, EngineInv, EngineLifecycle
<1>31. e \notin stranded /\ \A d \in stranded : d \in Engines
  BY <1>2, Zenon DEF TypeOK, EngineInv, StrandedOpened
<1>4. engine # None
  BY <1>3, BoundsAssumption, SMT DEF Engines, None
<1>5. kind'[e] = k /\ \A d \in Engines : d # e => kind'[d] = kind[d]
  BY <1>1, <1>2, Zenon DEF TypeOK
<1>6. old'[r] = engine /\ \A s \in Requests : s # r => old'[s] = old[s]
  BY <1>1, Zenon DEF TypeOK
<1>7. ASSUME NEW s \in Requests, s # r, old[s] # None
      PROVE  /\ old[s] \in Engines /\ kind[old[s]] \in Kinds /\ old[s] # engine /\ old[s] # e
             /\ old[s] \notin stranded
  <2>1. old[s] \in Engines
    BY <1>7, SMT DEF TypeOK
  <2>2. kind[old[s]] \in Kinds /\ old[s] # engine /\ old[s] \notin stranded
    BY <1>7, Zenon DEF EngineInv, EngineLifecycle
  <2> QED
    BY <1>2, <2>1, <2>2, Zenon
<1>8. ASSUME NEW s \in Requests, old'[s] # None
      PROVE  kind'[old'[s]] \in Kinds /\ old'[s] # engine' /\ old'[s] \notin stranded'
  <2>1. CASE s = r
    <3>1. old'[s] = engine /\ engine' = e
      BY <1>1, <1>6, <2>1
    <3> QED
      BY <1>3, <1>5, <3>1, Zenon
  <2>2. CASE s # r
    <3>1. old'[s] = old[s] /\ old[s] # None
      BY <1>6, <1>8, <2>2, Zenon
    <3>2. old[s] \in Engines /\ kind[old[s]] \in Kinds /\ old[s] # e /\ old[s] \notin stranded
      BY <1>7, <2>2, <3>1, Zenon
    <3>3. kind'[old[s]] \in Kinds
      BY <1>5, <3>2, Zenon
    <3>4. old[s] # engine' /\ old[s] \notin stranded'
      BY <1>1, <3>2, Zenon
    <3> QED
      BY <3>1, <3>3, <3>4
  <2> QED
    BY <2>1, <2>2
<1>9. ASSUME NEW s \in Requests, NEW q \in Requests, old'[s] = old'[q], old'[s] # None
      PROVE  s = q
  <2>1. CASE s = r \/ q = r
    <3>1. ASSUME NEW p \in Requests, p # r, old'[p] # None
          PROVE  old'[p] # old'[r]
      <4>1. old'[p] = old[p] /\ old[p] # None
        BY <1>6, <3>1, Zenon
      <4> QED
        BY <1>6, <1>7, <3>1, <4>1, Zenon
    <3> QED
      BY <1>9, <2>1, <3>1, Zenon
  <2>2. CASE s # r /\ q # r
    <3>1. old[s] = old[q] /\ old[s] # None
      BY <1>6, <1>9, <2>2, Zenon
    <3> QED
      BY <3>1, Zenon DEF EngineInv, EngineLifecycle
  <2> QED
    BY <2>1, <2>2
<1>10. ASSUME NEW d \in Engines, kind'[d] \in Kinds, d # engine', d \notin stranded'
       PROVE  \E s \in Requests : old'[s] = d
  <2>1. CASE d = engine
    BY <1>6, <2>1, Zenon
  <2>2. CASE d # engine
    <3>1. PICK s \in Requests : old[s] = d
      BY <1>1, <1>5, <1>10, <2>2, Zenon DEF EngineInv, EngineLifecycle
    <3>2. d # None
      BY BoundsAssumption, SMT DEF Engines, None
    <3> QED
      BY <1>6, <3>1, <3>2, Zenon
  <2> QED
    BY <2>1, <2>2
<1>11. StrandedOpened'
  BY <1>5, <1>31, Zenon DEF EngineInv, StrandedOpened
<1> QED
  BY <1>1, <1>5, <1>31, <1>8, <1>9, <1>10, <1>11, Zenon DEF EngineLifecycle

\* The engine in hand is closed: it is nobody else's, nor the current one.
LEMMA TearDownKeeps ==
  ASSUME TypeOK, EngineInv, NEW r \in Requests, TearDownOld(r),
         UNCHANGED <<engine, stranded>>
  PROVE  EngineLifecycle' /\ StrandedOpened' /\ kind'[engine'] = kind[engine]
<1>1. /\ kind' = [kind EXCEPT ![old[r]] = "closed"] /\ old' = [old EXCEPT ![r] = None]
      /\ "closed" \notin Kinds
  BY SMT DEF TearDownOld, Kinds
<1>2. old'[r] = None /\ \A s \in Requests : s # r => old'[s] = old[s]
  BY <1>1, Zenon DEF TypeOK
<1>3. engine \in Engines /\ engine # None /\ engine # old[r]
  <2>1. engine \in Engines /\ engine # None
    BY BoundsAssumption, SMT DEF TypeOK, Engines, None
  <2> QED
    BY <2>1, Zenon DEF EngineInv, EngineLifecycle
<1>4. \A d \in Engines : d # old[r] => kind'[d] = kind[d]
  BY <1>1, Zenon DEF TypeOK
<1>5. \A d \in Engines : d = old[r] => kind'[d] = "closed"
  BY <1>1, Zenon DEF TypeOK
<1>6. ASSUME NEW s \in Requests, old'[s] # None
      PROVE  kind'[old'[s]] \in Kinds /\ old'[s] # engine' /\ old'[s] \notin stranded'
  <2>1. s # r /\ old[s] # None /\ old'[s] = old[s] /\ old[s] \in Engines
    <3>1. s # r /\ old'[s] = old[s] /\ old[s] # None
      BY <1>2, <1>6, Zenon
    <3>2. old[s] \in Engines
      BY <3>1, SMT DEF TypeOK
    <3> QED
      BY <3>1, <3>2
  <2>2. old[s] # old[r] /\ kind[old[s]] \in Kinds /\ old[s] # engine /\ old[s] \notin stranded
    BY <2>1, Zenon DEF EngineInv, EngineLifecycle
  <2> QED
    BY <1>4, <2>1, <2>2, Zenon
<1>7. ASSUME NEW s \in Requests, NEW q \in Requests, old'[s] = old'[q], old'[s] # None
      PROVE  s = q
  BY <1>2, <1>7, Zenon DEF EngineInv, EngineLifecycle
<1>8. ASSUME NEW d \in Engines, kind'[d] \in Kinds, d # engine', d \notin stranded'
      PROVE  \E s \in Requests : old'[s] = d
  <2>1. d # old[r] /\ kind[d] \in Kinds /\ d # engine /\ d \notin stranded
    BY <1>1, <1>4, <1>5, <1>8, Zenon
  <2>2. PICK s \in Requests : old[s] = d
    BY <2>1, Zenon DEF EngineInv, EngineLifecycle
  <2> QED
    BY <1>2, <2>1, <2>2, Zenon
<1>9. StrandedOpened'
  <2>1. \A d \in stranded : d \in Engines /\ kind[d] # "unused"
    BY Zenon DEF TypeOK, EngineInv, StrandedOpened
  <2>2. "closed" # "unused"
    OBVIOUS
  <2> QED
    BY <1>4, <1>5, <2>1, <2>2, Zenon DEF StrandedOpened
<1> QED
  BY <1>3, <1>4, <1>6, <1>7, <1>8, <1>9, Zenon DEF EngineInv, EngineLifecycle

\* An engine is opened and forgotten: the others are as they were.
LEMMA StrandKeeps ==
  ASSUME TypeOK, EngineInv, Strand \/ UNCHANGED <<kind, stranded>>, UNCHANGED <<engine, old>>
  PROVE  EngineLifecycle' /\ StrandedOpened' /\ kind'[engine'] = kind[engine]
<1>1. CASE UNCHANGED <<kind, stranded>>
  BY <1>1, Zenon DEF EngineInv, EngineLifecycle, StrandedOpened
<1>2. CASE Strand
  <2>1. PICK e \in Unused : kind' = [kind EXCEPT ![e] = "wdsp"] /\ stranded' = stranded \cup {e}
    BY <1>2 DEF Strand
  <2>2. e \in Engines /\ kind[e] = "unused" /\ "unused" \notin Kinds /\ "wdsp" \in Kinds /\ "wdsp" # "unused"
    BY UnusedIsEngine, SMT DEF Kinds
  <2>3. kind'[e] = "wdsp" /\ \A d \in Engines : d # e => kind'[d] = kind[d]
    BY <2>1, <2>2, Zenon DEF TypeOK
  <2>4. engine \in Engines /\ engine # e /\ engine \notin stranded /\ kind[engine] \in Kinds
    BY <2>2, Zenon DEF TypeOK, EngineInv, EngineLifecycle
  <2>5. kind'[engine'] = kind[engine] /\ engine' \notin stranded'
    BY <2>1, <2>3, <2>4, Zenon
  <2>6. ASSUME NEW r \in Requests, old'[r] # None
        PROVE  kind'[old'[r]] \in Kinds /\ old'[r] # engine' /\ old'[r] \notin stranded'
    <3>1. old[r] \in Engines
      BY <2>6, SMT DEF TypeOK
    <3>2. kind[old[r]] \in Kinds /\ old[r] # engine /\ old[r] \notin stranded
      BY <2>6, Zenon DEF EngineInv, EngineLifecycle
    <3> QED
      BY <2>1, <2>2, <2>3, <3>1, <3>2, Zenon
  <2>7. \A r, s \in Requests : old'[r] = old'[s] /\ old'[r] # None => r = s
    BY Zenon DEF EngineInv, EngineLifecycle
  <2>8. ASSUME NEW d \in Engines, kind'[d] \in Kinds, d # engine', d \notin stranded'
        PROVE  \E r \in Requests : old'[r] = d
    BY <2>1, <2>3, <2>8, Zenon DEF EngineInv, EngineLifecycle
  <2>9. StrandedOpened'
    BY <2>1, <2>2, <2>3, Zenon DEF TypeOK, EngineInv, StrandedOpened
  <2> QED
    BY <2>4, <2>5, <2>6, <2>7, <2>8, <2>9, Zenon DEF EngineLifecycle
<1> QED
  BY <1>1, <1>2

\* A step that leaves the engines alone.
LEMMA EngineStays ==
  ASSUME EngineInv, UNCHANGED <<engine, kind, stranded, old>>
  PROVE  EngineLifecycle' /\ StrandedOpened'
BY Zenon DEF EngineInv, EngineLifecycle, StrandedOpened

\* A request steps, and lets go of the engine before it leaves the steps in between.
LEMMA HandsStep ==
  ASSUME TypeOK, EngineInv, EngineLifecycle', StrandedOpened', NEW r \in Requests, NEW step, Goto(r, step),
         \A s \in Requests : s # r => old'[s] = old[s],
         step \in Held \/ old'[r] = None
  PROVE  EngineInv'
<1>1. pc'[r] = step /\ \A s \in Requests : s # r => pc'[s] = pc[s]
  BY Zenon DEF TypeOK, Goto
<1> QED
  BY <1>1, Zenon DEF EngineInv

LEMMA OldAfter ==
  ASSUME TypeOK, NEW r \in Requests
  PROVE  /\ TearDownOld(r) => old'[r] = None
         /\ TearDownOld(r) \/ (\E k \in Kinds : Swap(r, k)) => \A s \in Requests : s # r => old'[s] = old[s]
BY Zenon DEF TypeOK, TearDownOld, Swap

LEMMA P1Engine ==
  ASSUME TypeOK, EngineInv, NEW r \in Requests, P1Next(r)
  PROVE  EngineInv'
<1> USE DEF radio, pipeline
<1>1. "wdsp" \in Kinds /\ "synthetic" \in Kinds
  BY DEF Kinds
<1>2. CASE \/ P1Claim(r) \/ P1Open(r) \/ P1Connected(r) \/ P1Replay(r) \/ P1Catch(r)
           \/ P1Release(r) \/ P1Detach(r) \/ P1Disconnected(r)
  <2>1. UNCHANGED <<engine, kind, stranded, old>> /\ (\E step : Goto(r, step))
    BY <1>2, Zenon DEF P1Claim, P1Open, P1Connected, P1Replay, P1Catch, P1Release, P1Detach, P1Disconnected
  <2>2. pc[r] \notin Held
    BY <1>2, SMT DEF P1Claim, P1Open, P1Connected, P1Replay, P1Catch, P1Release, P1Detach,
       P1Disconnected, Start, Busy, Held
  <2>3. old'[r] = None
    BY <2>1, <2>2, Zenon DEF EngineInv
  <2>4. \A s \in Requests : s # r => old'[s] = old[s]
    BY <2>1
  <2> QED
    BY <2>1, <2>3, <2>4, EngineStays, HandsStep
<1>3. CASE P1Swap(r)
  <2>1. Swap(r, "wdsp") /\ UNCHANGED stranded /\ pc[r] = "p1Swap" /\ Goto(r, "p1Attach")
    BY <1>3 DEF P1Swap
  <2>2. old[r] = None /\ "p1Attach" \in Held
    BY <2>1, SMT DEF EngineInv, Held
  <2> QED
    BY <1>1, <2>1, <2>2, SwapKeeps, HandsStep, OldAfter
<1>4. CASE P1Unswap(r)
  <2>1. Swap(r, "synthetic") /\ UNCHANGED stranded /\ pc[r] = "p1Unswap" /\ Goto(r, "p1TearDown")
    BY <1>4 DEF P1Unswap
  <2>2. old[r] = None /\ "p1TearDown" \in Held
    BY <2>1, SMT DEF EngineInv, Held
  <2> QED
    BY <1>1, <2>1, <2>2, SwapKeeps, HandsStep, OldAfter
<1>5. CASE P1Attach(r) \/ P1TearDown(r)
  <2>1. TearDownOld(r) /\ UNCHANGED <<engine, stranded>> /\ (\E step : Goto(r, step))
    BY <1>5, Zenon DEF P1Attach, P1TearDown
  <2> QED
    BY <2>1, TearDownKeeps, HandsStep, OldAfter
<1>6. CASE P1Throws(r)
  <2>1. /\ Strand \/ UNCHANGED <<kind, stranded>>
        /\ UNCHANGED <<engine, old>> /\ Goto(r, "p1Catch")
    BY <1>6, Zenon DEF P1Throws
  <2>2. pc[r] \notin Held
    BY <1>6, SMT DEF P1Throws, Held
  <2>3. old'[r] = None
    BY <2>1, <2>2, Zenon DEF EngineInv
  <2> QED
    BY <2>1, <2>3, StrandKeeps, HandsStep
<1> QED
  BY <1>2, <1>3, <1>4, <1>5, <1>6, Zenon DEF P1Next

LEMMA P2Engine ==
  ASSUME TypeOK, EngineInv, NEW r \in Requests, P2Next(r)
  PROVE  EngineInv'
<1> USE DEF radio, pipeline
<1>1. {"wdsp", "synthetic"} = Kinds
  BY DEF Kinds
<1>2. CASE \/ P2Check(r) \/ P2Bind(r) \/ P2Start(r) \/ P2StartFails(r) \/ P2Mark(r)
           \/ P2Release(r) \/ P2Detach(r) \/ P2Stop(r)
  <2>1. UNCHANGED <<engine, kind, stranded, old>> /\ (\E step : Goto(r, step))
    BY <1>2, Zenon DEF P2Check, P2Bind, P2Start, P2StartFails, P2Mark, P2Release, P2Detach, P2Stop
  <2>2. pc[r] \notin Held
    BY <1>2, SMT DEF P2Check, P2Bind, P2Start, P2StartFails, P2Mark, P2Release, P2Detach, P2Stop,
       Start, Busy, Held
  <2>3. old'[r] = None
    BY <2>1, <2>2, Zenon DEF EngineInv
  <2>4. \A s \in Requests : s # r => old'[s] = old[s]
    BY <2>1
  <2> QED
    BY <2>1, <2>3, <2>4, EngineStays, HandsStep
<1>3. CASE P2Swap(r) \/ P2Fallback(r)
  <2>1. PICK k \in Kinds : Swap(r, k)
    BY <1>1, <1>3 DEF P2Swap, P2Fallback
  <2>2. pc[r] \in {"p2Swap", "p2Fallback"} /\ Goto(r, "p2Publish") /\ UNCHANGED stranded
    BY <1>3 DEF P2Swap, P2Fallback
  <2>3. old[r] = None /\ "p2Publish" \in Held
    BY <2>2, SMT DEF EngineInv, Held
  <2> QED
    BY <2>1, <2>2, <2>3, SwapKeeps, HandsStep, OldAfter
<1>4. CASE P2Unswap(r)
  <2>1. /\ Swap(r, "synthetic") /\ UNCHANGED stranded /\ pc[r] = "p2Unswap"
        /\ Goto(r, "p2Unmark") /\ "synthetic" \in Kinds
    BY <1>1, <1>4 DEF P2Unswap
  <2>2. old[r] = None /\ "p2Unmark" \in Held
    BY <2>1, SMT DEF EngineInv, Held
  <2> QED
    BY <2>1, <2>2, SwapKeeps, HandsStep, OldAfter
<1>5. CASE P2Publish(r) \/ P2Unmark(r) \/ (P2Throws(r) /\ TearDownOld(r))
  <2>1. TearDownOld(r) /\ UNCHANGED <<engine, stranded>> /\ (\E step : Goto(r, step))
    BY <1>5, Zenon DEF P2Publish, P2Unmark, P2Throws
  <2> QED
    BY <2>1, TearDownKeeps, HandsStep, OldAfter
<1>6. CASE P2OpenFails(r) \/ (P2Throws(r) /\ ~TearDownOld(r))
  <2>1. /\ Strand \/ UNCHANGED <<kind, stranded>>
        /\ UNCHANGED <<engine, old>> /\ (\E step : Goto(r, step))
    BY <1>6, Zenon DEF P2OpenFails, P2Throws
  <2>2. pc[r] \notin Held
    BY <1>6, SMT DEF P2OpenFails, P2Throws, Held
  <2>3. old'[r] = None
    BY <2>1, <2>2, Zenon DEF EngineInv
  <2> QED
    BY <2>1, <2>3, StrandKeeps, HandsStep
<1> QED
  BY <1>2, <1>3, <1>4, <1>5, <1>6, Zenon DEF P2Next

LEMMA EngineInit == Init => EngineInv
<1> SUFFICES ASSUME Init
             PROVE  EngineInv
  OBVIOUS
<1>1. engine = 1 /\ kind[1] = "synthetic" /\ \A e \in Engines : e # 1 => kind[e] = "unused"
  BY BoundsAssumption, SMT DEF Init, Engines
<1>2. \A r \in Requests : old[r] = None
  BY DEF Init
<1>3. "synthetic" \in Kinds /\ "unused" \notin Kinds
  BY SMT DEF Kinds
<1>4. stranded = {}
  BY DEF Init
<1> QED
  BY <1>1, <1>2, <1>3, <1>4, Zenon DEF EngineInv, EngineLifecycle, StrandedOpened

LEMMA EngineStep == TypeOK /\ EngineInv /\ [Next]_vars => EngineInv'
<1>1. EngineInv /\ UNCHANGED <<engine, kind, stranded, old, pc>> => EngineInv'
  BY EngineStays, Zenon DEF EngineInv
<1>2. EngineInv /\ (RadioVanishes \/ UNCHANGED vars) => EngineInv'
  BY <1>1 DEF RadioVanishes, vars, request, pipeline
<1> QED
  BY <1>2, P1Engine, P2Engine DEF Next

\* Whatever requests overlap and wherever they throw, the engine in use is open
\* and every other open one is in the hands of the one request that will close it,
\* or was opened by a connect that threw before it installed it.
THEOREM EnginesAccountedFor == Spec => []EngineLifecycle
<1>1. EngineInv => EngineLifecycle
  BY DEF EngineInv
<1> QED
  BY <1>1, TypeInit, TypeStep, EngineInit, EngineStep, PTL DEF Spec

-----------------------------------------------------------------------------
(* The link, while requests do not overlap, a Protocol 1 request does not  *)
(* meet a Protocol 2 client and no Protocol 2 connect throws half way.     *)

NoClient == activeClient = None /\ p2Client = None
NoSink == sink = [p1 |-> None, p2 |-> None] /\ ~sinkAttached

\* Nothing attached, and no engine, but what a failed connect has left.
Clear == sink.p2 = None /\ (~leftover => NoSink)
Plain == ~leftover => kind[engine] = "synthetic"

Receivers(S) == \A c \in Clients : client[c] = "running" => c \in S
Silent == Receivers({})

\* Where the link is while a request is at each of its steps.
P1Coming(r) ==
  /\ activeClient = mine[r] /\ mine[r] # None /\ p2Client = None /\ ~p2Active
  /\ Receivers({mine[r]})

P1Phase(r) ==
  /\ pc[r] \in {"p1Open", "p1Connected", "p1Swap", "p1Catch"}
       => P1Coming(r) /\ Clear /\ Plain
  /\ pc[r] \in {"p1Swap", "p1Attach", "p1Replay"} => P1Coming(r) /\ status = "Connected"
  /\ pc[r] = "p1Attach" => Clear /\ kind[engine] = "wdsp"
  /\ pc[r] = "p1Replay" => /\ sink = [p1 |-> mine[r], p2 |-> None] /\ sinkAttached
                          /\ kind[engine] = "wdsp" /\ ~leftover
  /\ pc[r] = "p1Detach" => NoClient /\ ~p2Active /\ Receivers({mine[r]}) /\ sink.p2 = None
  /\ pc[r] \in {"p1Unswap", "p1TearDown"}
       => NoClient /\ ~p2Active /\ Receivers({mine[r]}) /\ Clear
  /\ pc[r] = "p1TearDown" => kind[engine] = "synthetic"
  /\ pc[r] = "p1Disconnected" => NoClient /\ ~p2Active /\ Silent /\ Clear /\ Plain

P2Phase(r) ==
  /\ pc[r] \in {"p2Bind", "p2Start"}
       => /\ NoClient /\ ~p2Active /\ Silent /\ Clear /\ status # "Connected" /\ Plain
          /\ mine[r] # None
  /\ pc[r] \in {"p2Swap", "p2Fallback", "p2Publish"}
       => NoClient /\ Receivers({mine[r]}) /\ Clear /\ mine[r] # None
  /\ pc[r] = "p2Mark"
       => /\ activeClient = None /\ p2Client = mine[r] /\ mine[r] # None
          /\ sink.p2 = mine[r] /\ sinkAttached
          /\ ~leftover => sink = [p1 |-> None, p2 |-> mine[r]]
          /\ Receivers({mine[r]})
  /\ pc[r] = "p2Detach"
       => NoClient /\ Receivers({mine[r]}) /\ (~leftover => sink.p1 = None)
  /\ pc[r] = "p2Stop" => NoClient /\ Receivers({mine[r]}) /\ Clear
  /\ pc[r] \in {"p2Unswap", "p2Unmark"} => NoClient /\ Silent /\ Clear
  /\ pc[r] = "p2Unmark" => kind[engine] = "synthetic"

Coherent ==
  /\ IsConnected <=> (status = "Connected")
  /\ p2Active <=> (p2Client # None)
  /\ ~(activeClient # None /\ p2Active)
  /\ activeClient # None
       => sink.p1 = activeClient /\ sinkAttached /\ kind[engine] = "wdsp" /\ ~leftover
  /\ sink.p2 = p2Client
  /\ p2Active => sinkAttached
  /\ ~leftover => /\ sink = [p1 |-> activeClient, p2 |-> p2Client]
                  /\ sinkAttached <=> IsConnected
                  /\ ~IsConnected => kind[engine] = "synthetic"
  /\ Receivers({activeClient, p2Client})

\* One request at a time, and the link is where that request is.
LinkInv ==
  ~tangled => /\ \A r, s \in Requests : Busy(r) /\ Busy(s) => r = s
              /\ \A r \in Requests : P1Phase(r) /\ P2Phase(r)
              /\ Resting => Coherent

LEMMA RequestsApart ==
  ASSUME NEW r \in Requests
  PROVE  (pc[r] = "idle" => P1Phase(r) /\ P2Phase(r)) /\ (Busy(r) <=> pc[r] # "idle")
BY SMT DEF P1Phase, P2Phase, Busy

LEMMA NotIdle == \A step \in P1Steps \cup P2Steps : step # "idle"
BY SMT DEF P1Steps, P2Steps

LEMMA StepNames ==
  /\ {"p1Open", "p1Detach", "p1Disconnected"} \subseteq P1Steps
  /\ {"p2Bind", "p2Detach"} \subseteq P2Steps
BY SMT DEF P1Steps, P2Steps

\* What a coherent link without a client is.
LEMMA CoherentAtRest ==
  ASSUME TypeOK, Coherent, NoClient
  PROVE  ~p2Active /\ Clear /\ Silent /\ status # "Connected" /\ Plain
<1>1. ~p2Active /\ ~IsConnected
  BY Zenon DEF Coherent, NoClient, IsConnected
<1>2. sink.p2 = None /\ (~leftover => sink = [p1 |-> None, p2 |-> None] /\ ~sinkAttached)
  BY <1>1, Zenon DEF Coherent, NoClient
<1>3. Receivers({None, None})
  BY Zenon DEF Coherent, NoClient
<1>4. Silent
  BY <1>3, BoundsAssumption, SMT DEF Silent, Receivers, Clients, None
<1> QED
  BY <1>1, <1>2, <1>4, Zenon DEF Coherent, Clear, NoSink, Plain

\* A request begins, moves on, or ends: what it must leave behind.
LEMMA Begins ==
  ASSUME TypeOK, LinkInv, NEW r \in Requests, NEW clean, Start(r, clean), ~tangled',
         NEW step, step # "idle", Goto(r, step), P1Phase(r)', P2Phase(r)'
  PROVE  LinkInv'
<1>1. Resting /\ pc[r] = "idle"
  BY Zenon DEF Start, Busy
<1>2. pc'[r] = step /\ \A s \in Requests : s # r => pc'[s] = "idle"
  BY <1>1, Zenon DEF TypeOK, Goto, Resting, Busy
<1>3. \A s \in Requests : s # r => P1Phase(s)' /\ P2Phase(s)'
  BY <1>2, SMT DEF P1Phase, P2Phase
<1>4. ~Resting' /\ \A p, q \in Requests : Busy(p)' /\ Busy(q)' => p = q
  BY <1>2, Zenon DEF Resting, Busy
<1> QED
  BY <1>3, <1>4, Zenon DEF LinkInv

LEMMA MovesOn ==
  ASSUME TypeOK, LinkInv, NEW r \in Requests, Busy(r), ~tangled,
         NEW step, step # "idle", Goto(r, step), P1Phase(r)', P2Phase(r)'
  PROVE  LinkInv'
<1>1. pc'[r] = step /\ \A s \in Requests : s # r => pc'[s] = "idle"
  BY Zenon DEF TypeOK, Goto, LinkInv, Busy
<1>2. \A s \in Requests : s # r => P1Phase(s)' /\ P2Phase(s)'
  BY <1>1, SMT DEF P1Phase, P2Phase
<1>3. ~Resting' /\ \A p, q \in Requests : Busy(p)' /\ Busy(q)' => p = q
  BY <1>1, Zenon DEF Resting, Busy
<1> QED
  BY <1>2, <1>3, Zenon DEF LinkInv

LEMMA Ends ==
  ASSUME TypeOK, LinkInv, NEW r \in Requests, Busy(r), ~tangled, Goto(r, "idle"), Coherent'
  PROVE  LinkInv'
<1>1. \A s \in Requests : pc'[s] = "idle"
  BY Zenon DEF TypeOK, Goto, LinkInv, Busy
<1>2. \A s \in Requests : P1Phase(s)' /\ P2Phase(s)' /\ ~Busy(s)'
  BY <1>1, SMT DEF P1Phase, P2Phase, Busy
<1> QED
  BY <1>2, Zenon DEF LinkInv

\* What a teardown or the end of a client leaves.
LEMMA Closes ==
  ASSUME TypeOK, NEW r \in Requests, SetClient(mine[r], "closed"), Receivers({mine[r]})
  PROVE  Silent'
<1>1. /\ client' = [client EXCEPT ![mine[r]] = "closed"]
      /\ client \in [Clients -> {"unused", "new", "running", "silent", "closed"}]
  BY DEF SetClient, TypeOK
<1>2. \A c \in Clients : client'[c] = IF c = mine[r] THEN "closed" ELSE client[c]
  BY <1>1, Zenon
<1> QED
  BY <1>2, SMT DEF Silent, Receivers

LEMMA NewIsSilent ==
  ASSUME TypeOK, NEW c, SetClient(c, "new"), NEW S, Receivers(S)
  PROVE  Receivers(S)'
<1>1. \A d \in Clients : client'[d] \in {client[d], "new"}
  BY Zenon DEF TypeOK, SetClient
<1> QED
  BY <1>1, SMT DEF Receivers

LEMMA RunningIsIts ==
  ASSUME TypeOK, NEW c, SetClient(c, "running"), Receivers({c})
  PROVE  Receivers({c})'
<1>1. \A d \in Clients : d # c => client'[d] = client[d]
  BY Zenon DEF TypeOK, SetClient
<1> QED
  BY <1>1, SMT DEF Receivers

LEMMA OneSlot ==
  ASSUME NEW V, NEW s \in [p1: V, p2: V], NEW c \in V
  PROVE  /\ [s EXCEPT !["p1"] = c] = [p1 |-> c, p2 |-> s.p2]
         /\ [s EXCEPT !["p2"] = c] = [p1 |-> s.p1, p2 |-> c]
<1>1. \A t \in [p1: V, p2: V] : t = [p1 |-> t.p1, p2 |-> t.p2]
  BY SMT
<1>2. [s EXCEPT !["p1"] = c] = [p1 |-> c, p2 |-> s.p2]
  <2> DEFINE t == [s EXCEPT !["p1"] = c]
  <2>1. t \in [p1: V, p2: V] /\ t.p1 = c /\ t.p2 = s.p2
    BY SMT
  <2> QED
    BY <1>1, <2>1, Zenon
<1>3. [s EXCEPT !["p2"] = c] = [p1 |-> s.p1, p2 |-> c]
  <2> DEFINE t == [s EXCEPT !["p2"] = c]
  <2>1. t \in [p1: V, p2: V] /\ t.p2 = c /\ t.p1 = s.p1
    BY SMT
  <2> QED
    BY <1>1, <2>1, Zenon
<1> QED
  BY <1>2, <1>3

\* The two slots, one at a time: a detach of one leaves the other.
LEMMA SinkDetached ==
  ASSUME TypeOK
  PROVE  /\ Detach("p1") => sink' = [p1 |-> None, p2 |-> sink.p2] /\ ~sinkAttached'
         /\ Detach("p2") => sink' = [p1 |-> sink.p1, p2 |-> None] /\ ~sinkAttached'
<1>1. sink \in [p1: Clients \cup {None}, p2: Clients \cup {None}] /\ None \in Clients \cup {None}
  BY DEF TypeOK
<1>2. /\ [sink EXCEPT !["p1"] = None] = [p1 |-> None, p2 |-> sink.p2]
      /\ [sink EXCEPT !["p2"] = None] = [p1 |-> sink.p1, p2 |-> None]
  BY <1>1, OneSlot, ZenonT(30)
<1> QED
  BY <1>2, Zenon DEF Detach

LEMMA SinkAttached ==
  ASSUME TypeOK, NEW c \in Clients \cup {None}
  PROVE  /\ Attach("p1", c) => sink' = [p1 |-> c, p2 |-> sink.p2] /\ sinkAttached'
         /\ Attach("p2", c) => sink' = [p1 |-> sink.p1, p2 |-> c] /\ sinkAttached'
<1>1. sink \in [p1: Clients \cup {None}, p2: Clients \cup {None}]
  BY DEF TypeOK
<1>2. /\ [sink EXCEPT !["p1"] = c] = [p1 |-> c, p2 |-> sink.p2]
      /\ [sink EXCEPT !["p2"] = c] = [p1 |-> sink.p1, p2 |-> c]
  BY <1>1, OneSlot, ZenonT(30)
<1> QED
  BY <1>2, Zenon DEF Attach

\* Detaching leaves the link clear: of Protocol 1 while Protocol 2 is not
\* attached, of Protocol 2 while Protocol 1 is not, but for a failed connect.
LEMMA DetachClears ==
  ASSUME TypeOK, UNCHANGED leftover,
         \/ Detach("p1") /\ sink.p2 = None
         \/ Detach("p2") /\ (~leftover => sink.p1 = None)
  PROVE  Clear'
<1>1. CASE Detach("p1") /\ sink.p2 = None
  <2>1. sink' = [p1 |-> None, p2 |-> None] /\ ~sinkAttached'
    BY <1>1, SinkDetached, Zenon
  <2>2. sink'.p2 = None
    BY <2>1, SMT
  <2> QED
    BY <2>1, <2>2, Zenon DEF Clear, NoSink
<1>2. CASE Detach("p2") /\ (~leftover => sink.p1 = None)
  <2>1. sink' = [p1 |-> sink.p1, p2 |-> None] /\ ~sinkAttached'
    BY <1>2, SinkDetached, Zenon
  <2>2. sink'.p2 = None
    BY <2>1, SMT
  <2>3. ~leftover' => sink' = [p1 |-> None, p2 |-> None]
    BY <1>2, <2>1, Zenon
  <2> QED
    BY <2>1, <2>2, <2>3, Zenon DEF Clear, NoSink
<1> QED
  BY <1>1, <1>2

\* What is clear stays so while the sink and the engine stay.
LEMMA ClearStays ==
  ASSUME UNCHANGED <<sink, sinkAttached>>, leftover => leftover'
  PROVE  /\ Clear => Clear'
         /\ UNCHANGED kind[engine] => (Plain => Plain')
BY Zenon DEF Clear, NoSink, Plain

\* Nothing connected and nothing attached, and the status says so.
LEMMA CoherentDown ==
  ASSUME NoClient, ~p2Active, Silent, Clear, Plain, status' # "Connected",
         UNCHANGED <<client, activeClient, p2Active, p2Client, engine, kind, sink, sinkAttached, leftover>>
  PROVE  Coherent'
<1>1. Receivers({activeClient, p2Client})'
  BY Zenon DEF Silent, Receivers
<1> QED
  BY <1>1, Zenon DEF Coherent, IsConnected, NoClient, Clear, Plain, NoSink

\* Protocol 1, one step of the only request.
LEMMA P1Link ==
  ASSUME TypeOK, EngineInv, LinkInv, NEW r \in Requests, P1Next(r)
  PROVE  LinkInv'
<1> SUFFICES ASSUME ~tangled'
             PROVE  LinkInv'
  BY DEF LinkInv
<1> USE DEF radio, pipeline, history
<1>1. CASE P1Claim(r)
  <2>1. PICK c \in Fresh : /\ mine' = [mine EXCEPT ![r] = c]
                           /\ SetClient(c, "new") /\ activeClient' = c
    BY <1>1 DEF P1Claim
  <2>2. /\ Start(r, p2Client = None) /\ activeClient = None /\ Goto(r, "p1Open")
        /\ UNCHANGED <<p2Active, p2Client, engine, kind, sink, sinkAttached, leftover>>
    BY <1>1 DEF P1Claim
  <2>3. ~tangled /\ Resting /\ p2Client = None
    BY <2>2, Zenon DEF Start
  <2>4. Coherent
    BY <2>3, Zenon DEF LinkInv
  <2>5. ~p2Active /\ Clear /\ Silent /\ Plain
    BY <2>2, <2>3, <2>4, CoherentAtRest, Zenon DEF NoClient
  <2>6. mine'[r] = c /\ c # None
    BY <2>1, FreshIsClient, Zenon DEF TypeOK
  <2>7. Receivers({})'
    BY <2>1, <2>5, NewIsSilent, Zenon DEF Silent
  <2>8. Receivers({mine[r]})'
    BY <2>7, Zenon DEF Receivers
  <2>9. P1Coming(r)' /\ Clear' /\ Plain'
    BY <2>1, <2>2, <2>3, <2>5, <2>6, <2>8, ClearStays, Zenon DEF P1Coming
  <2>10. pc'[r] = "p1Open"
    BY <2>2, Zenon DEF Goto, TypeOK
  <2>11. P1Phase(r)' /\ P2Phase(r)'
    BY <2>9, <2>10, SMT DEF P1Phase, P2Phase
  <2> QED
    BY <2>2, <2>11, NotIdle, StepNames, Begins, Zenon
<1>2. CASE P1Release(r)
  <2>1. /\ Start(r, p2Client = None) /\ mine' = [mine EXCEPT ![r] = activeClient]
        /\ activeClient' = None /\ Goto(r, IF activeClient = None THEN "p1Disconnected" ELSE "p1Detach")
        /\ UNCHANGED <<client, p2Active, p2Client, engine, kind, sink, sinkAttached, leftover>>
    BY <1>2 DEF P1Release
  <2>2. ~tangled /\ Resting /\ p2Client = None
    BY <2>1, Zenon DEF Start
  <2>3. Coherent
    BY <2>2, Zenon DEF LinkInv
  <2>4. ~p2Active /\ sink.p2 = None /\ NoClient' /\ Receivers({activeClient, p2Client})
    BY <2>1, <2>2, <2>3, Zenon DEF Coherent, NoClient
  <2>5. CASE activeClient = None
    <3>1. pc'[r] = "p1Disconnected" /\ Goto(r, "p1Disconnected")
      BY <2>1, <2>5, Zenon DEF Goto, TypeOK
    <3>2. Clear /\ Silent /\ Plain
      BY <2>2, <2>3, <2>5, CoherentAtRest, Zenon DEF NoClient
    <3>3. Clear' /\ Silent' /\ Plain'
      BY <2>1, <3>2, ClearStays, Zenon DEF Silent, Receivers
    <3>4. P1Phase(r)' /\ P2Phase(r)'
      BY <2>1, <2>4, <3>1, <3>3, SMT DEF P1Phase, P2Phase
    <3> QED
      BY <2>1, <3>1, <3>4, NotIdle, StepNames, Begins, Zenon
  <2>6. CASE activeClient # None
    <3>1. pc'[r] = "p1Detach" /\ Goto(r, "p1Detach")
      BY <2>1, <2>6, Zenon DEF Goto, TypeOK
    <3>2. mine'[r] = activeClient /\ sink'.p2 = None
      BY <2>1, <2>4, Zenon DEF TypeOK
    <3>3. Receivers({mine[r]})'
      BY <2>1, <2>2, <2>4, <3>2, BoundsAssumption, SMT DEF Receivers, Clients, None
    <3>4. P1Phase(r)' /\ P2Phase(r)'
      BY <2>1, <2>4, <3>1, <3>2, <3>3, SMT DEF P1Phase, P2Phase
    <3> QED
      BY <2>1, <3>1, <3>4, NotIdle, StepNames, Begins, Zenon
  <2> QED
    BY <2>5, <2>6
<1>3. ASSUME NEW step \in P1Steps, pc[r] = step, UNCHANGED tangled
      PROVE  Busy(r) /\ ~tangled /\ P1Phase(r)
  BY <1>3, SMT DEF P1Steps, Busy, LinkInv
<1>4. CASE P1Open(r)
  <2>1. /\ pc[r] = "p1Open" /\ UNCHANGED tangled /\ "p1Open" \in P1Steps
        /\ SetClient(mine[r], "running") /\ Goto(r, "p1Connected")
        /\ UNCHANGED <<mine, activeClient, p2Active, p2Client, sink, sinkAttached, engine, kind, leftover>>
    BY <1>4 DEF P1Open, P1Steps
  <2>2. P1Coming(r) /\ Clear /\ Plain /\ Busy(r) /\ ~tangled
    BY <1>3, <2>1, Zenon DEF P1Phase
  <2>3. Receivers({mine[r]})'
    <3>1. Receivers({mine[r]})
      BY <2>2 DEF P1Coming
    <3> QED
      BY <2>1, <3>1, RunningIsIts, Zenon DEF Receivers
  <2>4. P1Coming(r)' /\ Clear' /\ Plain' /\ pc'[r] = "p1Connected"
    BY <2>1, <2>2, <2>3, ClearStays, Zenon DEF P1Coming, Goto, TypeOK
  <2>5. P1Phase(r)' /\ P2Phase(r)'
    BY <2>4, SMT DEF P1Phase, P2Phase
  <2> QED
    BY <2>1, <2>2, <2>5, MovesOn, SMT
<1>5. CASE P1Connected(r)
  <2>1. /\ pc[r] = "p1Connected" /\ UNCHANGED tangled /\ "p1Connected" \in P1Steps
        /\ Goto(r, "p1Swap") /\ status' = "Connected"
        /\ UNCHANGED <<mine, client, activeClient, p2Active, p2Client, sink, sinkAttached, engine, kind,
                       leftover>>
    BY <1>5 DEF P1Connected, P1Steps
  <2>2. P1Coming(r) /\ Clear /\ Plain /\ Busy(r) /\ ~tangled
    BY <1>3, <2>1, Zenon DEF P1Phase
  <2>3. P1Coming(r)' /\ Clear' /\ Plain' /\ pc'[r] = "p1Swap"
    BY <2>1, <2>2, ClearStays, Zenon DEF P1Coming, Receivers, Goto, TypeOK
  <2>4. P1Phase(r)' /\ P2Phase(r)'
    BY <2>1, <2>3, SMT DEF P1Phase, P2Phase
  <2> QED
    BY <2>1, <2>2, <2>4, MovesOn, SMT
<1>6. CASE P1Swap(r)
  <2>1. /\ pc[r] = "p1Swap" /\ UNCHANGED tangled /\ "p1Swap" \in P1Steps /\ "wdsp" \in Kinds
        /\ Goto(r, "p1Attach") /\ Swap(r, "wdsp")
        /\ UNCHANGED <<mine, client, activeClient, p2Active, status, p2Client, stranded, sink,
                       sinkAttached, leftover>>
    BY <1>6 DEF P1Swap, P1Steps, Kinds
  <2>2. P1Coming(r) /\ Clear /\ status = "Connected" /\ Busy(r) /\ ~tangled
    BY <1>3, <2>1, Zenon DEF P1Phase
  <2>3. old[r] = None
    BY <2>1, SMT DEF EngineInv, Held
  <2>4. kind'[engine'] = "wdsp"
    BY <2>1, <2>3, SwapKeeps
  <2>5. P1Coming(r)' /\ Clear' /\ pc'[r] = "p1Attach"
    BY <2>1, <2>2, ClearStays, Zenon DEF P1Coming, Receivers, Goto, TypeOK
  <2>6. P1Phase(r)' /\ P2Phase(r)'
    BY <2>1, <2>2, <2>4, <2>5, SMT DEF P1Phase, P2Phase
  <2> QED
    BY <2>1, <2>2, <2>6, MovesOn, SMT
<1>7. CASE P1Attach(r)
  <2>1. /\ pc[r] = "p1Attach" /\ UNCHANGED tangled /\ "p1Attach" \in P1Steps
        /\ Goto(r, "p1Replay") /\ TearDownOld(r) /\ Attach("p1", mine[r]) /\ ~leftover'
        /\ UNCHANGED <<mine, client, activeClient, p2Active, status, p2Client, engine, stranded>>
    BY <1>7 DEF P1Attach, P1Steps
  <2>2. P1Coming(r) /\ Clear /\ status = "Connected" /\ kind[engine] = "wdsp" /\ Busy(r) /\ ~tangled
    BY <1>3, <2>1, Zenon DEF P1Phase
  <2>3. kind'[engine'] = "wdsp"
    BY <2>1, <2>2, TearDownKeeps
  <2>4. sink' = [p1 |-> mine[r], p2 |-> None] /\ sinkAttached'
    <3>1. mine[r] \in Clients \cup {None} /\ sink.p2 = None
      BY <2>2 DEF TypeOK, Clear
    <3> QED
      BY <2>1, <3>1, SinkAttached, Zenon
  <2>5. P1Coming(r)' /\ pc'[r] = "p1Replay"
    BY <2>1, <2>2, Zenon DEF P1Coming, Receivers, Goto, TypeOK
  <2>6. P1Phase(r)' /\ P2Phase(r)'
    BY <2>1, <2>2, <2>3, <2>4, <2>5, SMT DEF P1Phase, P2Phase
  <2> QED
    BY <2>1, <2>2, <2>6, MovesOn, SMT
<1>8. CASE P1Replay(r)
  <2>1. /\ pc[r] = "p1Replay" /\ UNCHANGED tangled /\ "p1Replay" \in P1Steps /\ Goto(r, "idle")
        /\ UNCHANGED <<mine, client, activeClient, p2Active, status, p2Client, engine, kind, sink,
                       sinkAttached, leftover>>
    BY <1>8 DEF P1Replay, P1Steps
  <2>2. /\ P1Coming(r) /\ status = "Connected" /\ kind[engine] = "wdsp" /\ Busy(r) /\ ~tangled
        /\ sink = [p1 |-> mine[r], p2 |-> None] /\ sinkAttached /\ ~leftover
    BY <1>3, <2>1, Zenon DEF P1Phase
  <2>3. Receivers({activeClient, p2Client})'
    BY <2>1, <2>2, SMT DEF P1Coming, Receivers
  <2>4. sink.p1 = activeClient /\ sink.p2 = p2Client /\ sink = [p1 |-> activeClient, p2 |-> p2Client]
    BY <2>2, SMT DEF P1Coming
  <2>5. Coherent'
    BY <2>1, <2>2, <2>3, <2>4, Zenon DEF Coherent, IsConnected, P1Coming
  <2> QED
    BY <2>1, <2>2, <2>5, Ends
<1>9. CASE P1Throws(r)
  <2>1. /\ pc[r] \in {"p1Open", "p1Connected", "p1Swap", "p1Replay"} /\ UNCHANGED tangled
        /\ pc[r] \in P1Steps /\ Goto(r, "p1Catch") /\ leftover' = (leftover \/ pc[r] = "p1Replay")
        /\ Strand \/ UNCHANGED <<kind, stranded>>
        /\ UNCHANGED <<mine, old, client, activeClient, p2Active, p2Client, engine, sink, sinkAttached>>
    BY <1>9, SMT DEF P1Throws, P1Steps
  <2>2. P1Phase(r) /\ Busy(r) /\ ~tangled
    BY <1>3, <2>1, Zenon
  <2>3. P1Coming(r)
    BY <2>1, <2>2, SMT DEF P1Phase
  <2>4. P1Coming(r)' /\ pc'[r] = "p1Catch"
    BY <2>1, <2>3, Zenon DEF P1Coming, Receivers, Goto, TypeOK
  <2>5. UNCHANGED kind[engine]
    BY <2>1, StrandKeeps
  <2>6. Clear' /\ Plain'
    <3>1. CASE pc[r] = "p1Replay"
      <4>1. leftover' /\ sink = [p1 |-> mine[r], p2 |-> None]
        BY <2>1, <2>2, <3>1, Zenon DEF P1Phase
      <4>2. sink'.p2 = None
        BY <2>1, <4>1, SMT
      <4> QED
        BY <4>1, <4>2, Zenon DEF Clear, Plain
    <3>2. CASE pc[r] # "p1Replay"
      <4>1. Clear /\ Plain
        BY <2>1, <2>2, <3>2, SMT DEF P1Phase
      <4>2. leftover => leftover'
        BY <2>1, Zenon
      <4> QED
        BY <2>1, <2>5, <4>1, <4>2, ClearStays
    <3> QED
      BY <3>1, <3>2
  <2>7. P1Phase(r)' /\ P2Phase(r)'
    BY <2>4, <2>6, SMT DEF P1Phase, P2Phase
  <2> QED
    BY <2>1, <2>2, <2>7, MovesOn, SMT
<1>10. CASE P1Catch(r)
  <2>1. /\ pc[r] = "p1Catch" /\ UNCHANGED tangled /\ "p1Catch" \in P1Steps
        /\ Goto(r, "idle") /\ SetClient(mine[r], "closed") /\ activeClient' = None
        /\ status' = "Error" /\ "Error" # "Connected"
        /\ UNCHANGED <<mine, p2Active, p2Client, sink, sinkAttached, engine, kind, leftover>>
    BY <1>10, SMT DEF P1Catch, P1Steps
  <2>2. P1Coming(r) /\ Clear /\ Plain /\ Busy(r) /\ ~tangled
    BY <1>3, <2>1, Zenon DEF P1Phase
  <2>3. Silent'
    BY <2>1, <2>2, Closes DEF P1Coming
  <2>4. Receivers({activeClient, p2Client})'
    BY <2>3, Zenon DEF Silent, Receivers
  <2>5. Coherent'
    BY <2>1, <2>2, <2>4, Zenon DEF Coherent, IsConnected, P1Coming, Clear, Plain, NoSink
  <2> QED
    BY <2>1, <2>2, <2>5, Ends
<1>11. CASE P1Detach(r)
  <2>1. /\ pc[r] = "p1Detach" /\ UNCHANGED tangled /\ "p1Detach" \in P1Steps
        /\ Goto(r, "p1Unswap") /\ Detach("p1")
        /\ UNCHANGED <<mine, client, activeClient, p2Active, p2Client, leftover>>
    BY <1>11 DEF P1Detach, P1Steps
  <2>2. NoClient /\ ~p2Active /\ Receivers({mine[r]}) /\ sink.p2 = None /\ Busy(r) /\ ~tangled
    BY <1>3, <2>1, Zenon DEF P1Phase
  <2>3. Clear'
    BY <2>1, <2>2, DetachClears
  <2>4. NoClient' /\ ~p2Active' /\ Receivers({mine[r]})' /\ pc'[r] = "p1Unswap"
    BY <2>1, <2>2, Zenon DEF NoClient, Receivers, Goto, TypeOK
  <2>5. P1Phase(r)' /\ P2Phase(r)'
    BY <2>3, <2>4, SMT DEF P1Phase, P2Phase
  <2> QED
    BY <2>1, <2>2, <2>5, MovesOn, SMT
<1>12. CASE P1Unswap(r)
  <2>1. /\ pc[r] = "p1Unswap" /\ UNCHANGED tangled /\ "p1Unswap" \in P1Steps /\ "synthetic" \in Kinds
        /\ Goto(r, "p1TearDown") /\ Swap(r, "synthetic")
        /\ UNCHANGED <<mine, client, activeClient, p2Active, p2Client, stranded, sink, sinkAttached,
                       leftover>>
    BY <1>12 DEF P1Unswap, P1Steps, Kinds
  <2>2. NoClient /\ ~p2Active /\ Receivers({mine[r]}) /\ Clear /\ Busy(r) /\ ~tangled
    BY <1>3, <2>1, Zenon DEF P1Phase
  <2>3. old[r] = None
    BY <2>1, SMT DEF EngineInv, Held
  <2>4. kind'[engine'] = "synthetic"
    BY <2>1, <2>3, SwapKeeps
  <2>5. NoClient' /\ ~p2Active' /\ Receivers({mine[r]})' /\ Clear' /\ pc'[r] = "p1TearDown"
    BY <2>1, <2>2, ClearStays, Zenon DEF NoClient, Receivers, Goto, TypeOK
  <2>6. P1Phase(r)' /\ P2Phase(r)'
    BY <2>4, <2>5, SMT DEF P1Phase, P2Phase
  <2> QED
    BY <2>1, <2>2, <2>6, MovesOn, SMT
<1>13. CASE P1TearDown(r)
  <2>1. /\ pc[r] = "p1TearDown" /\ UNCHANGED tangled /\ "p1TearDown" \in P1Steps
        /\ Goto(r, "p1Disconnected") /\ TearDownOld(r) /\ SetClient(mine[r], "closed")
        /\ UNCHANGED <<mine, activeClient, p2Active, p2Client, engine, stranded, sink, sinkAttached,
                       leftover>>
    BY <1>13 DEF P1TearDown, P1Steps
  <2>2. /\ NoClient /\ ~p2Active /\ Receivers({mine[r]}) /\ Clear /\ Busy(r) /\ ~tangled
        /\ kind[engine] = "synthetic"
    BY <1>3, <2>1, Zenon DEF P1Phase
  <2>3. kind'[engine'] = "synthetic"
    BY <2>1, <2>2, TearDownKeeps
  <2>4. Silent'
    BY <2>1, <2>2, Closes
  <2>5. NoClient' /\ ~p2Active' /\ Clear' /\ Plain' /\ pc'[r] = "p1Disconnected"
    BY <2>1, <2>2, <2>3, ClearStays, Zenon DEF NoClient, Plain, Goto, TypeOK
  <2>6. P1Phase(r)' /\ P2Phase(r)'
    BY <2>4, <2>5, SMT DEF P1Phase, P2Phase
  <2> QED
    BY <2>1, <2>2, <2>6, MovesOn, SMT
<1>14. CASE P1Disconnected(r)
  <2>1. /\ pc[r] = "p1Disconnected" /\ UNCHANGED tangled /\ "p1Disconnected" \in P1Steps
        /\ Goto(r, "idle") /\ status' = "Disconnected" /\ "Disconnected" # "Connected"
        /\ UNCHANGED <<mine, client, activeClient, p2Active, p2Client, engine, kind, sink, sinkAttached,
                       leftover>>
    BY <1>14, SMT DEF P1Disconnected, P1Steps
  <2>2. NoClient /\ ~p2Active /\ Silent /\ Clear /\ Plain /\ Busy(r) /\ ~tangled
    BY <1>3, <2>1, Zenon DEF P1Phase
  <2>3. Coherent'
    BY <2>1, <2>2, CoherentDown
  <2> QED
    BY <2>1, <2>2, <2>3, Ends
<1> QED
  BY <1>1, <1>2, <1>4, <1>5, <1>6, <1>7, <1>8, <1>9, <1>10, <1>11, <1>12, <1>13, <1>14 DEF P1Next

\* Protocol 2, one step of the only request.
LEMMA P2Link ==
  ASSUME TypeOK, EngineInv, LinkInv, NEW r \in Requests, P2Next(r)
  PROVE  LinkInv'
<1> SUFFICES ASSUME ~tangled'
             PROVE  LinkInv'
  BY DEF LinkInv
<1> USE DEF radio, pipeline, history
<1>1. CASE P2Check(r)
  <2>1. PICK c \in Fresh : mine' = [mine EXCEPT ![r] = c] /\ SetClient(c, "new")
    BY <1>1 DEF P2Check
  <2>2. /\ Start(r, TRUE) /\ NoClient /\ Goto(r, "p2Bind")
        /\ UNCHANGED <<activeClient, p2Active, status, p2Client, engine, kind, sink, sinkAttached, leftover>>
    BY <1>1 DEF P2Check, NoClient
  <2>3. ~tangled /\ Resting
    BY <2>2, Zenon DEF Start
  <2>4. Coherent
    BY <2>3, Zenon DEF LinkInv
  <2>5. ~p2Active /\ Clear /\ Silent /\ status # "Connected" /\ Plain
    BY <2>2, <2>4, CoherentAtRest, Zenon
  <2>6. mine'[r] # None
    BY <2>1, FreshIsClient, Zenon DEF TypeOK
  <2>7. Silent'
    BY <2>1, <2>5, NewIsSilent, Zenon DEF Silent
  <2>8. NoClient' /\ ~p2Active' /\ Clear' /\ status' # "Connected" /\ Plain'
    BY <2>2, <2>5, ClearStays, Zenon DEF NoClient
  <2>9. pc'[r] = "p2Bind"
    BY <2>2, Zenon DEF Goto, TypeOK
  <2>10. P1Phase(r)' /\ P2Phase(r)'
    BY <2>6, <2>7, <2>8, <2>9, SMT DEF P1Phase, P2Phase
  <2> QED
    BY <2>2, <2>10, NotIdle, StepNames, Begins, Zenon
<1>2. CASE P2Release(r)
  <2>1. /\ Start(r, TRUE) /\ p2Client # None /\ mine' = [mine EXCEPT ![r] = p2Client]
        /\ p2Client' = None /\ Goto(r, "p2Detach")
        /\ UNCHANGED <<client, activeClient, sink, leftover>>
    BY <1>2 DEF P2Release
  <2>2. ~tangled /\ Resting
    BY <2>1, Zenon DEF Start
  <2>3. Coherent
    BY <2>2, Zenon DEF LinkInv
  <2>4. /\ activeClient = None /\ Receivers({activeClient, p2Client})
        /\ ~leftover => sink = [p1 |-> activeClient, p2 |-> p2Client]
    BY <2>1, <2>3, Zenon DEF Coherent
  <2>5. mine'[r] = p2Client /\ pc'[r] = "p2Detach"
    BY <2>1, Zenon DEF TypeOK, Goto
  <2>6. Receivers({mine[r]})'
    BY <2>1, <2>4, <2>5, BoundsAssumption, SMT DEF Receivers, Clients, None
  <2>7. NoClient' /\ (~leftover' => sink'.p1 = None)
    BY <2>1, <2>4, SMT DEF NoClient
  <2>8. P1Phase(r)' /\ P2Phase(r)'
    BY <2>5, <2>6, <2>7, SMT DEF P1Phase, P2Phase
  <2> QED
    BY <2>1, <2>8, NotIdle, StepNames, Begins, Zenon
<1>3. ASSUME NEW step \in P2Steps, pc[r] = step, UNCHANGED tangled
      PROVE  Busy(r) /\ ~tangled /\ P2Phase(r)
  BY <1>3, SMT DEF P2Steps, Busy, LinkInv
<1>4. ASSUME pc[r] \in {"p2Bind", "p2Start"}, Goto(r, "idle"), UNCHANGED tangled,
             UNCHANGED <<client, activeClient, p2Active, status, p2Client, engine, kind, sink, sinkAttached,
                         leftover>>
      PROVE  LinkInv'
  <2>1. Busy(r) /\ ~tangled /\ P2Phase(r)
    BY <1>3, <1>4, SMT DEF P2Steps
  <2>2. NoClient /\ ~p2Active /\ Silent /\ Clear /\ status # "Connected" /\ Plain
    BY <1>4, <2>1, Zenon DEF P2Phase
  <2>3. Coherent'
    BY <1>4, <2>2, CoherentDown
  <2> QED
    BY <1>4, <2>1, <2>3, Ends
<1>5. CASE P2Bind(r)
  <2>1. /\ pc[r] = "p2Bind" /\ UNCHANGED tangled /\ "p2Bind" \in P2Steps
        /\ UNCHANGED <<mine, client, activeClient, p2Active, status, p2Client, engine, kind, sink,
                       sinkAttached, leftover>>
    BY <1>5 DEF P2Bind, P2Steps
  <2>2. CASE Goto(r, "idle")
    BY <1>4, <2>1, <2>2
  <2>3. CASE Goto(r, "p2Start")
    <3>1. /\ NoClient /\ ~p2Active /\ Silent /\ Clear /\ status # "Connected"
          /\ Plain /\ mine[r] # None /\ Busy(r) /\ ~tangled
      BY <1>3, <2>1, Zenon DEF P2Phase
    <3>2. NoClient' /\ ~p2Active' /\ Silent' /\ Clear' /\ Plain' /\ pc'[r] = "p2Start"
      BY <2>1, <2>3, <3>1, ClearStays, Zenon DEF NoClient, Silent, Receivers, Goto, TypeOK
    <3>3. P1Phase(r)' /\ P2Phase(r)'
      BY <2>1, <3>1, <3>2, SMT DEF P1Phase, P2Phase
    <3> QED
      BY <2>3, <3>1, <3>3, MovesOn, SMT
  <2> QED
    BY <1>5, <2>2, <2>3 DEF P2Bind
<1>6. CASE P2StartFails(r)
  BY <1>4, <1>6, Zenon DEF P2StartFails
<1>7. CASE P2Start(r)
  <2>1. /\ pc[r] = "p2Start" /\ UNCHANGED tangled /\ "p2Start" \in P2Steps
        /\ Goto(r, "p2Swap") /\ SetClient(mine[r], "running")
        /\ UNCHANGED <<mine, activeClient, p2Client, sink, sinkAttached, leftover>>
    BY <1>7 DEF P2Start, P2Steps
  <2>2. NoClient /\ Silent /\ Clear /\ mine[r] # None /\ Busy(r) /\ ~tangled
    BY <1>3, <2>1, Zenon DEF P2Phase
  <2>3. Receivers({mine[r]})
    BY <2>2, Zenon DEF Silent, Receivers
  <2>4. Receivers({mine[r]})'
    BY <2>1, <2>3, RunningIsIts, Zenon DEF Receivers
  <2>5. NoClient' /\ Clear' /\ mine'[r] # None /\ pc'[r] = "p2Swap"
    BY <2>1, <2>2, ClearStays, Zenon DEF NoClient, Goto, TypeOK
  <2>6. P1Phase(r)' /\ P2Phase(r)'
    BY <2>4, <2>5, SMT DEF P1Phase, P2Phase
  <2> QED
    BY <2>1, <2>2, <2>6, MovesOn, SMT
<1>8. CASE P2Swap(r) \/ P2OpenFails(r) \/ P2Fallback(r)
  <2>1. PICK step \in {"p2Fallback", "p2Publish"} :
          /\ pc[r] \in {"p2Swap", "p2Fallback"} /\ UNCHANGED tangled /\ pc[r] \in P2Steps
          /\ Goto(r, step)
          /\ UNCHANGED <<mine, client, activeClient, p2Client, sink, sinkAttached, leftover>>
    BY <1>8, SMT DEF P2Swap, P2OpenFails, P2Fallback, P2Steps
  <2>2. P2Phase(r) /\ Busy(r) /\ ~tangled
    BY <1>3, <2>1, Zenon
  <2>3. NoClient /\ Receivers({mine[r]}) /\ Clear /\ mine[r] # None
    BY <2>1, <2>2, SMT DEF P2Phase
  <2>4. NoClient' /\ Receivers({mine[r]})' /\ Clear' /\ mine'[r] # None /\ pc'[r] = step
    BY <2>1, <2>3, ClearStays, Zenon DEF NoClient, Receivers, Goto, TypeOK
  <2>5. P1Phase(r)' /\ P2Phase(r)' /\ step # "idle"
    BY <2>1, <2>4, SMT DEF P1Phase, P2Phase
  <2> QED
    BY <2>1, <2>2, <2>5, MovesOn
<1>9. CASE P2Publish(r)
  <2>1. /\ pc[r] = "p2Publish" /\ UNCHANGED tangled /\ "p2Publish" \in P2Steps
        /\ Goto(r, "p2Mark") /\ p2Client' = mine[r] /\ Attach("p2", mine[r])
        /\ UNCHANGED <<mine, client, activeClient, leftover>>
    BY <1>9 DEF P2Publish, P2Steps
  <2>2. NoClient /\ Receivers({mine[r]}) /\ Clear /\ mine[r] # None /\ Busy(r) /\ ~tangled
    BY <1>3, <2>1, SMT DEF P2Phase
  <2>3. /\ sink'.p2 = mine'[r] /\ sinkAttached'
        /\ ~leftover' => sink' = [p1 |-> None, p2 |-> mine'[r]]
    <3>1. mine[r] \in Clients \cup {None}
      BY DEF TypeOK
    <3>2. sink' = [p1 |-> sink.p1, p2 |-> mine[r]] /\ sinkAttached'
      BY <2>1, <3>1, SinkAttached, Zenon
    <3>3. ~leftover => sink.p1 = None
      BY <2>2, SMT DEF Clear, NoSink
    <3>4. sink'.p2 = mine[r]
      BY <3>2, SMT
    <3> QED
      BY <2>1, <3>2, <3>3, <3>4, Zenon
  <2>4. /\ activeClient' = None /\ p2Client' = mine'[r] /\ mine'[r] # None
        /\ Receivers({mine[r]})' /\ pc'[r] = "p2Mark"
    BY <2>1, <2>2, Zenon DEF NoClient, Receivers, Goto, TypeOK
  <2>5. P1Phase(r)' /\ P2Phase(r)'
    BY <2>3, <2>4, SMT DEF P1Phase, P2Phase
  <2> QED
    BY <2>1, <2>2, <2>5, MovesOn, SMT
<1>10. CASE P2Mark(r)
  <2>1. /\ pc[r] = "p2Mark" /\ UNCHANGED tangled /\ "p2Mark" \in P2Steps
        /\ Goto(r, "idle") /\ p2Active' = TRUE /\ status' = "Connected"
        /\ UNCHANGED <<mine, client, activeClient, p2Client, engine, kind, sink, sinkAttached, leftover>>
    BY <1>10 DEF P2Mark, P2Steps
  <2>2. /\ activeClient = None /\ p2Client = mine[r] /\ mine[r] # None
        /\ sink.p2 = mine[r] /\ sinkAttached /\ (~leftover => sink = [p1 |-> None, p2 |-> mine[r]])
        /\ Receivers({mine[r]}) /\ Busy(r) /\ ~tangled
    BY <1>3, <2>1, Zenon DEF P2Phase
  <2>3. Receivers({activeClient, p2Client})'
    BY <2>1, <2>2, SMT DEF Receivers
  <2>4. Coherent'
    BY <2>1, <2>2, <2>3, Zenon DEF Coherent, IsConnected
  <2> QED
    BY <2>1, <2>2, <2>4, Ends
<1>11. CASE P2Detach(r)
  <2>1. /\ pc[r] = "p2Detach" /\ UNCHANGED tangled /\ "p2Detach" \in P2Steps
        /\ Goto(r, "p2Stop") /\ Detach("p2")
        /\ UNCHANGED <<mine, client, activeClient, p2Client, leftover>>
    BY <1>11 DEF P2Detach, P2Steps
  <2>2. /\ NoClient /\ Receivers({mine[r]}) /\ (~leftover => sink.p1 = None)
        /\ Busy(r) /\ ~tangled
    BY <1>3, <2>1, Zenon DEF P2Phase
  <2>3. Clear'
    BY <2>1, <2>2, DetachClears
  <2>4. NoClient' /\ Receivers({mine[r]})' /\ pc'[r] = "p2Stop"
    BY <2>1, <2>2, Zenon DEF NoClient, Receivers, Goto, TypeOK
  <2>5. P1Phase(r)' /\ P2Phase(r)'
    BY <2>3, <2>4, SMT DEF P1Phase, P2Phase
  <2> QED
    BY <2>1, <2>2, <2>5, MovesOn, SMT
<1>12. CASE P2Stop(r)
  <2>1. /\ pc[r] = "p2Stop" /\ UNCHANGED tangled /\ "p2Stop" \in P2Steps
        /\ Goto(r, "p2Unswap") /\ SetClient(mine[r], "closed")
        /\ UNCHANGED <<mine, activeClient, p2Client, sink, sinkAttached, leftover>>
    BY <1>12 DEF P2Stop, P2Steps
  <2>2. NoClient /\ Receivers({mine[r]}) /\ Clear /\ Busy(r) /\ ~tangled
    BY <1>3, <2>1, Zenon DEF P2Phase
  <2>3. Silent'
    BY <2>1, <2>2, Closes
  <2>4. NoClient' /\ Clear' /\ pc'[r] = "p2Unswap"
    BY <2>1, <2>2, ClearStays, Zenon DEF NoClient, Goto, TypeOK
  <2>5. P1Phase(r)' /\ P2Phase(r)'
    BY <2>3, <2>4, SMT DEF P1Phase, P2Phase
  <2> QED
    BY <2>1, <2>2, <2>5, MovesOn, SMT
<1>13. CASE P2Unswap(r)
  <2>1. /\ pc[r] = "p2Unswap" /\ UNCHANGED tangled /\ "p2Unswap" \in P2Steps /\ "synthetic" \in Kinds
        /\ Goto(r, "p2Unmark") /\ Swap(r, "synthetic")
        /\ UNCHANGED <<mine, client, activeClient, p2Client, stranded, sink, sinkAttached, leftover>>
    BY <1>13 DEF P2Unswap, P2Steps, Kinds
  <2>2. NoClient /\ Silent /\ Clear /\ Busy(r) /\ ~tangled
    BY <1>3, <2>1, Zenon DEF P2Phase
  <2>3. old[r] = None
    BY <2>1, SMT DEF EngineInv, Held
  <2>4. kind'[engine'] = "synthetic"
    BY <2>1, <2>3, SwapKeeps
  <2>5. NoClient' /\ Silent' /\ Clear' /\ pc'[r] = "p2Unmark"
    BY <2>1, <2>2, ClearStays, Zenon DEF NoClient, Silent, Receivers, Goto, TypeOK
  <2>6. P1Phase(r)' /\ P2Phase(r)'
    BY <2>4, <2>5, SMT DEF P1Phase, P2Phase
  <2> QED
    BY <2>1, <2>2, <2>6, MovesOn, SMT
<1>14. CASE P2Unmark(r)
  <2>1. /\ pc[r] = "p2Unmark" /\ UNCHANGED tangled /\ "p2Unmark" \in P2Steps
        /\ Goto(r, "idle") /\ TearDownOld(r) /\ p2Active' = FALSE /\ status' = "Disconnected"
        /\ "Disconnected" # "Connected"
        /\ UNCHANGED <<mine, client, activeClient, p2Client, engine, stranded, sink, sinkAttached, leftover>>
    BY <1>14, SMT DEF P2Unmark, P2Steps
  <2>2. NoClient /\ Silent /\ Clear /\ kind[engine] = "synthetic" /\ Busy(r) /\ ~tangled
    BY <1>3, <2>1, Zenon DEF P2Phase
  <2>3. kind'[engine'] = "synthetic"
    BY <2>1, <2>2, TearDownKeeps
  <2>4. Receivers({activeClient, p2Client})'
    BY <2>1, <2>2, Zenon DEF Silent, Receivers
  <2>5. Coherent'
    BY <2>1, <2>2, <2>3, <2>4, Zenon DEF Coherent, IsConnected, NoClient, Clear, NoSink
  <2> QED
    BY <2>1, <2>2, <2>5, Ends
<1> QED
  BY <1>1, <1>2, <1>5, <1>6, <1>7, <1>8, <1>9, <1>10, <1>11, <1>12, <1>13, <1>14 DEF P2Next, P2Throws

LEMMA LinkInit == Init => LinkInv
<1> SUFFICES ASSUME Init
             PROVE  LinkInv
  OBVIOUS
<1>1. \A r \in Requests : pc[r] = "idle"
  BY DEF Init
<1>2. \A r \in Requests : P1Phase(r) /\ P2Phase(r) /\ ~Busy(r)
  BY <1>1, SMT DEF P1Phase, P2Phase, Busy
<1>3. kind[engine] = "synthetic"
  BY BoundsAssumption, SMT DEF Init, Engines
<1>4. Receivers({activeClient, p2Client})
  BY SMT DEF Init, Receivers
<1>5. ~IsConnected /\ status # "Connected" /\ ~p2Active /\ p2Client = None /\ activeClient = None
  BY SMT DEF Init, IsConnected
<1>6. sink = [p1 |-> activeClient, p2 |-> p2Client] /\ ~sinkAttached /\ sink.p2 = p2Client
  BY SMT DEF Init
<1>7. Coherent
  BY <1>3, <1>4, <1>5, <1>6, Zenon DEF Coherent
<1> QED
  BY <1>2, <1>7, Zenon DEF LinkInv

\* A radio that falls silent leaves fewer receivers, and nothing else moves.
LEMMA FewerReceivers ==
  ASSUME LinkInv, UNCHANGED <<request, radio, pipeline, history>>,
         \A c \in Clients : client'[c] = "running" => client[c] = "running"
  PROVE  LinkInv'
<1> USE DEF request, radio, pipeline, history
<1>1. \A S : Receivers(S) => Receivers(S)'
  BY Zenon DEF Receivers
<1>2. Silent => Silent'
  BY <1>1, Zenon DEF Silent, Receivers
<1>3. UNCHANGED <<NoClient, Clear, Plain>>
  BY Zenon DEF NoClient, NoSink, Clear, Plain
<1>4. \A r \in Requests : Receivers({mine[r]}) => Receivers({mine[r]})'
  BY Zenon DEF Receivers
<1>5. \A r \in Requests : P1Coming(r) => P1Coming(r)'
  BY <1>3, <1>4, Zenon DEF P1Coming
<1>6. \A r \in Requests : P1Phase(r) => P1Phase(r)'
  BY <1>2, <1>3, <1>4, <1>5, Zenon DEF P1Phase
<1>7. \A r \in Requests : P2Phase(r) => P2Phase(r)'
  BY <1>2, <1>3, <1>4, Zenon DEF P2Phase
<1>8. Receivers({activeClient, p2Client}) => Receivers({activeClient, p2Client})'
  BY Zenon DEF Receivers
<1>9. Coherent => Coherent'
  BY <1>8, Zenon DEF Coherent, IsConnected
<1> QED
  BY <1>6, <1>7, <1>9, Zenon DEF LinkInv, Resting, Busy

LEMMA LinkStep == TypeOK /\ EngineInv /\ LinkInv /\ [Next]_vars => LinkInv'
<1>1. LinkInv /\ UNCHANGED vars => LinkInv'
  BY FewerReceivers, Zenon DEF vars
<1>2. TypeOK /\ LinkInv /\ RadioVanishes => LinkInv'
  <2> SUFFICES ASSUME TypeOK, LinkInv, RadioVanishes
               PROVE  LinkInv'
    OBVIOUS
  <2>1. \A c \in Clients : client'[c] = "running" => client[c] = "running"
    BY SMT DEF RadioVanishes, SetClient, TypeOK
  <2> QED
    BY <2>1, FewerReceivers DEF RadioVanishes
<1> QED
  BY <1>1, <1>2, P1Link, P2Link DEF Next

\* After any history of connects, refusals, failures and disconnects of either
\* protocol that did not overlap, without a Protocol 1 request while Protocol 2 was
\* connected and without a Protocol 2 connect that threw half way, status, client,
\* sink, display timer and engine agree at rest; a Protocol 1 connect that failed
\* after it had attached leaves its sink and engine until the next one.
THEOREM LinkAgrees == Spec => []LinkCoherent
<1>1. TypeOK /\ LinkInv => LinkCoherent
  <2> SUFFICES ASSUME TypeOK, LinkInv, Resting, ~tangled
               PROVE  LinkCoherent
    BY DEF LinkCoherent
  <2>1. Coherent
    BY Zenon DEF LinkInv
  <2>2. /\ IsConnected = (status = "Connected")
        /\ ~leftover => sinkAttached = IsConnected
    BY <2>1, Zenon DEF Coherent, TypeOK, IsConnected
  <2>3. p2Active = (p2Client # None)
    BY <2>1, Zenon DEF Coherent, TypeOK
  <2> QED
    BY <2>1, <2>2, <2>3, Zenon DEF Coherent, LinkCoherent
<1> QED
  BY <1>1, TypeInit, TypeStep, EngineInit, EngineStep, LinkInit, LinkStep, PTL DEF Spec

\* After such a history no client but the current one is still receiving.
THEOREM NobodyElseReceives == Spec => []NoOrphanReceiver
<1>1. LinkInv => NoOrphanReceiver
  BY Zenon DEF LinkInv, NoOrphanReceiver, Coherent, Receivers
<1> QED
  BY <1>1, TypeInit, TypeStep, EngineInit, EngineStep, LinkInit, LinkStep, PTL DEF Spec
=============================================================================
