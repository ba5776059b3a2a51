--------------------------- MODULE WaitSetProofs ---------------------------
(***************************************************************************)
(* Theorems of WaitSet for every set of wait sets, entities, event types   *)
(* and arrays.  The steps of wait() and of the threads around it map to    *)
(* steps of the events (so the theorems of EventInfoProofs hold beside     *)
(* rmw_wait), and the cache of wait.cpp loses no wake-up other than the    *)
(* stale ones.  A wait() that reports a timeout missed nothing, and a      *)
(* trigger that was taken is reported.                                     *)
(***************************************************************************)
EXTENDS WaitSet, EventInfoProofs

LEMMA NoArraysEmpty == HandlesIn(NoArrays) = {} /\ EventObjectsIn(NoArrays) = {}
<1>1. \A k \in HandleLists \cup {"events"} : Range(NoArrays[k]) = {}
  BY DEF NoArrays, Range
<1>2. QED BY <1>1 DEF HandlesIn, EventObjectsIn, HandleLists

\* What a call, or the cache, holds are entities and events.
LEMMA ArraysHold ==
  ASSUME NEW a \in ArgLists \cup {NoArrays}
  PROVE  HandlesIn(a) \subseteq Handles /\ EventObjectsIn(a) \subseteq EventObjects
  BY NoArraysEmpty, WaitSetAssumption

LEMMA EventsHold ==
  ASSUME TypeOK, NEW a \in ArgLists \cup {NoArrays}
  PROVE  EventsIn(a) \subseteq endpoint.types /\ EventsIn(a) \subseteq EventTypes
<1>1. EventObjectsIn(a) \subseteq EventObjects BY ArraysHold
<1>2. EventsIn(a) \subseteq endpoint.types BY <1>1 DEF EventsIn, TypeOK
<1>3. QED BY <1>2, TypesInPlay DEF TypeOK, EventTypeOK

LEMMA ConditionsOfCalls ==
  ASSUME TypeOK, NEW a \in ArgLists
  PROVE  ConditionsOf(a) \subseteq Conditions
<1>1. HandlesIn(a) \subseteq Handles /\ EventsIn(a) \subseteq EventTypes
  BY ArraysHold, EventsHold
<1>2. QED BY <1>1 DEF ConditionsOf, GatheredConditions, Conditions

LEMMA TriggeredAreConditions ==
  ASSUME TypeOK, NEW w \in WaitSets
  PROVE  TriggeredIn(w) \subseteq attached[w] /\ attached[w] \subseteq Conditions
  BY DEF TypeOK, TriggeredIn

-----------------------------------------------------------------------------
(* Type correctness *)

LEMMA InitTypeOK == Init => TypeOK
<1> SUFFICES ASSUME Init PROVE TypeOK
  OBVIOUS
<1>1. EventTypeOK BY EventInitTypeOK DEF Init
<1>2. QED BY <1>1, WaitSetAssumption DEF Init, TypeOK

LEMMA EventTypeUnchanged == EventTypeOK /\ UNCHANGED eventVars => EventTypeOK'
  BY DEF EventTypeOK, eventVars, ddsVars, infoVars, historyVars, raceVars

LEMMA EndpointStays ==
  EventStep \/ (\E checked : CheckStatus(checked)) \/ UNCHANGED eventVars
    => endpoint' = endpoint
  BY DEF EventStep, StatusChange, Listener, TakeEvent, SetCallback, ClearCallback,
         SetMessageCallback, WriteMask, CopyMask, InstallListener, CheckStatus, eventVars

\* The parts of TypeOK that belong to the wait sets.
WaitTypeOK ==
  /\ polling \in BOOLEAN
  /\ alive \subseteq Handles
  /\ typeOf \in [EventObjects -> endpoint.types]
  /\ ready \in [Handles -> BOOLEAN]
  /\ enabled \subseteq EventTypes
  /\ attached \in [WaitSets -> SUBSET Conditions]
  /\ cached \in [WaitSets -> ArgLists \cup {NoArrays}]
  /\ pc \in [WaitSets -> {"idle", "wait", "scan", "poll", "process", "events"}]
  /\ args \in [WaitSets -> ArgLists \cup {NoArrays}]
  /\ active \in [WaitSets -> SUBSET Conditions]
  /\ toScan \in [WaitSets -> SUBSET Conditions]
  /\ result \in [WaitSets -> {"NONE", "OK", "TIMEOUT", "ERROR"}]
  /\ out \in [WaitSets -> SUBSET Entries]
  /\ stale \in [WaitSets -> SUBSET (Entries \cup StatusBits \cup {StatusCondition})]
  /\ reported \subseteq EventTypes

LEMMA TypeOKParts == TypeOK <=> EventTypeOK /\ WaitTypeOK
  BY DEF TypeOK, WaitTypeOK
LEMMA TypeOKPartsPrime == TypeOK' <=> EventTypeOK' /\ WaitTypeOK'
  BY DEF TypeOK, WaitTypeOK

\* A step of rmw_wait keeps the types.
LEMMA WaitStepTypeOK ==
  ASSUME TypeOK, NEW w \in WaitSets, WaitStep(w)
  PROVE  TypeOK'
<1> USE DEF WaitTypeOK
<1>0. EventTypeOK /\ WaitTypeOK BY TypeOKParts
<1>1. ASSUME NEW a \in ArgLists, Enter(w, a) PROVE TypeOK'
  <2>1. ConditionsOf(a) \subseteq Conditions /\ EventsIn(a) \subseteq EventTypes
    BY ConditionsOfCalls, EventsHold
  <2>2. attached' \in [WaitSets -> SUBSET Conditions]
    BY <1>0, <1>1, <2>1 DEF Enter
  <2>3. cached' \in [WaitSets -> ArgLists \cup {NoArrays}]
    BY <1>0, <1>1 DEF Enter
  <2>4. enabled' \subseteq EventTypes
    BY <1>0, <1>1, <2>1 DEF Enter
  <2>5. stale' \in [WaitSets -> SUBSET (Entries \cup StatusBits \cup {StatusCondition})]
    <3>1. CASE UNCHANGED stale BY <1>0, <3>1
    <3>2. CASE ~UNCHANGED stale
      <4>1. PICK failed \in SUBSET ConditionsOf(a) :
              \/ stale' = [stale EXCEPT ![w] = failed]
              \/ stale' = [v \in WaitSets |->
                              IF v = w THEN failed
                              ELSE stale[v] \cup (EventTypes \ EventsIn(a))]
        BY <1>1, <3>2 DEF Enter
      <4>2. /\ failed \subseteq Entries \cup StatusBits \cup {StatusCondition}
            /\ EventTypes \subseteq StatusBits
        BY <2>1 DEF Conditions, Entries, StatusBits
      <4>3. QED BY <1>0, <4>1, <4>2
    <3>3. QED BY <3>1, <3>2
  <2>6. toScan' \in [WaitSets -> SUBSET Conditions]
    BY <1>0, <1>1, <2>2 DEF Enter
  <2>7. pc' \in [WaitSets -> {"idle", "wait", "scan", "poll", "process", "events"}]
    BY <1>0, <1>1 DEF Enter
  <2>8. WaitTypeOK'
    BY <1>0, <1>1, <2>2, <2>3, <2>4, <2>5, <2>6, <2>7 DEF Enter, eventVars
  <2>9. EventTypeOK' BY <1>0, <1>1, EventTypeUnchanged DEF Enter
  <2>10. QED BY <2>8, <2>9, TypeOKPartsPrime
<1>2. CASE WaitReturns(w)
  <2>1. TriggeredIn(w) \subseteq Conditions BY TriggeredAreConditions
  <2>2. WaitTypeOK' BY <1>0, <1>2, <2>1 DEF WaitReturns, eventVars
  <2>3. QED
    BY <1>0, <1>2, <2>2, EventTypeUnchanged, TypeOKPartsPrime DEF WaitReturns
<1>3. CASE WaitTimesOut(w)
  <2>1. WaitTypeOK' BY <1>0, <1>3 DEF WaitTimesOut, eventVars
  <2>2. QED
    BY <1>0, <1>3, <2>1, EventTypeUnchanged, TypeOKPartsPrime DEF WaitTimesOut
<1>4. CASE WaitFails(w)
  <2>1. WaitTypeOK' BY <1>0, <1>4 DEF WaitFails, ClearOnError, eventVars
  <2>2. QED
    BY <1>0, <1>4, <2>1, EventTypeUnchanged, TypeOKPartsPrime DEF WaitFails
<1>5. ASSUME NEW c \in Conditions, PollScan(w, c) PROVE TypeOK'
  <2>1. active' \in [WaitSets -> SUBSET Conditions] BY <1>0, <1>5 DEF PollScan
  <2>2. WaitTypeOK' BY <1>0, <1>5, <2>1 DEF PollScan, eventVars
  <2>3. QED
    BY <1>0, <1>5, <2>2, EventTypeUnchanged, TypeOKPartsPrime DEF PollScan
<1>6. ASSUME NEW c \in Conditions, PollFinds(w, c) PROVE TypeOK'
  <2>1. WaitTypeOK' BY <1>0, <1>6 DEF PollFinds, eventVars
  <2>2. QED
    BY <1>0, <1>6, <2>1, EventTypeUnchanged, TypeOKPartsPrime DEF PollFinds
<1>7. CASE PollScanned(w)
  <2>1. WaitTypeOK' BY <1>0, <1>7 DEF PollScanned, eventVars
  <2>2. QED
    BY <1>0, <1>7, <2>1, EventTypeUnchanged, TypeOKPartsPrime DEF PollScanned
<1>8. CASE PollExpires(w)
  <2>1. WaitTypeOK' BY <1>0, <1>8 DEF PollExpires, eventVars
  <2>2. QED
    BY <1>0, <1>8, <2>1, EventTypeUnchanged, TypeOKPartsPrime DEF PollExpires
<1>9. CASE Process(w)
  <2>1. HandlesIn(args[w]) \subseteq Handles BY <1>0, ArraysHold
  <2>2. ready' \in [Handles -> BOOLEAN]
    BY <1>0, <1>9 DEF Process
  <2>3. WaitTypeOK'
    <3>1. CASE ClearOnError(w) /\ UNCHANGED out
      BY <1>0, <1>9, <2>2, <3>1 DEF Process, ClearOnError, eventVars
    <3>2. CASE ~(ClearOnError(w) /\ UNCHANGED out)
      <4>1. /\ out' = [out EXCEPT ![w] = HandlesIn(args[w]) \cap active[w]]
            /\ pc' = [pc EXCEPT ![w] = "events"]
            /\ UNCHANGED <<attached, cached, result>>
        BY <1>9, <3>2 DEF Process
      <4>2. out' \in [WaitSets -> SUBSET Entries] BY <1>0, <2>1, <4>1 DEF Entries
      <4>3. QED BY <1>0, <1>9, <2>2, <4>1, <4>2 DEF Process, eventVars
    <3>3. QED BY <3>1, <3>2
  <2>4. QED
    BY <1>0, <1>9, <2>3, EventTypeUnchanged, TypeOKPartsPrime DEF Process
<1>10. CASE ProcessEvents(w)
  <2>1. EventsIn(args[w]) \subseteq endpoint.types /\ EventsIn(args[w]) \subseteq EventTypes
    BY <1>0, EventsHold
  <2>e. endpoint' = endpoint BY <1>10, EndpointStays DEF ProcessEvents
  <2>o. out' \in [WaitSets -> SUBSET Entries]
    <3>1. EventObjectsIn(args[w]) \subseteq Entries BY <1>0, ArraysHold DEF Entries
    <3>2. QED BY <1>0, <1>10, <3>1 DEF ProcessEvents
  <2>2. WaitTypeOK' BY <1>0, <1>10, <2>1, <2>e, <2>o DEF ProcessEvents
  <2>3. EventTypeOK'
    <3>1. CASE EventsIn(args[w]) = {}
      BY <1>0, <1>10, <3>1, EventTypeUnchanged DEF ProcessEvents
    <3>2. CASE EventsIn(args[w]) # {}
      <4>1. [EventNext]_eventVars
        BY <1>10, <2>1, <3>2 DEF ProcessEvents, EventNext
      <4>2. QED BY <1>0, <4>1, EventNextTypeOK
    <3>3. QED BY <3>1, <3>2
  <2>4. QED BY <2>2, <2>3, TypeOKPartsPrime
<1>11. QED
  BY <1>1, <1>2, <1>3, <1>4, <1>5, <1>6, <1>7, <1>8, <1>9, <1>10 DEF WaitStep

LEMMA NextTypeOK == TypeOK /\ [Next]_vars => TypeOK'
<1> SUFFICES ASSUME TypeOK, [Next]_vars PROVE TypeOK'
  OBVIOUS
<1> USE DEF WaitTypeOK
<1>0. EventTypeOK /\ WaitTypeOK BY TypeOKParts
<1>1. ASSUME NEW h \in Readers, DataArrives(h) \/ TakeLast(h) PROVE TypeOK'
  <2>1. WaitTypeOK' BY <1>0, <1>1 DEF DataArrives, TakeLast, callVars, eventVars
  <2>2. UNCHANGED eventVars BY <1>1 DEF DataArrives, TakeLast
  <2>3. QED BY <1>0, <2>1, <2>2, EventTypeUnchanged, TypeOKPartsPrime
<1>2. ASSUME NEW h \in Guards, TriggerGuard(h) PROVE TypeOK'
  <2>1. WaitTypeOK' BY <1>0, <1>2 DEF TriggerGuard, callVars, eventVars
  <2>2. UNCHANGED eventVars BY <1>2 DEF TriggerGuard
  <2>3. QED BY <1>0, <2>1, <2>2, EventTypeUnchanged, TypeOKPartsPrime
<1>3. ASSUME NEW h \in Handles, Destroy(h) PROVE TypeOK'
  <2>1. WaitTypeOK' BY <1>0, <1>3 DEF Destroy, callVars, eventVars
  <2>2. QED
    BY <1>0, <1>3, <2>1, EventTypeUnchanged, TypeOKPartsPrime DEF Destroy
<1>4. ASSUME NEW h \in Handles, Create(h) PROVE TypeOK'
  <2>1. WaitTypeOK' BY <1>0, <1>4 DEF Create, callVars, Entries, eventVars
  <2>2. QED
    BY <1>0, <1>4, <2>1, EventTypeUnchanged, TypeOKPartsPrime DEF Create
<1>r. ASSUME NEW e \in EventObjects, NEW t \in endpoint.types, RenewEvent(e, t)
      PROVE  TypeOK'
  <2>1. endpoint' = endpoint BY <1>r, EndpointStays DEF RenewEvent
  <2>2. stale' \in [WaitSets -> SUBSET (Entries \cup StatusBits \cup {StatusCondition})]
    BY <1>0, <1>r DEF RenewEvent, Entries
  <2>3. WaitTypeOK' BY <1>0, <1>r, <2>1, <2>2 DEF RenewEvent, callVars
  <2>4. QED
    BY <1>0, <1>r, <2>3, EventTypeUnchanged, TypeOKPartsPrime DEF RenewEvent
<1>5. CASE EventActivity
  <2>e. endpoint' = endpoint BY <1>5, EndpointStays DEF EventActivity
  <2>1. EventTypeOK' BY <1>0, <1>5, EventStepTypeOK DEF EventActivity
  <2>2. mask' \subseteq StatusBits BY <2>1 DEF EventTypeOK
  <2>3. stale' \in [WaitSets -> SUBSET (Entries \cup StatusBits \cup {StatusCondition})]
    BY <1>0, <1>5, <2>2 DEF EventActivity
  <2>4. WaitTypeOK' BY <1>0, <1>5, <2>e, <2>3 DEF EventActivity, callVars
  <2>5. QED BY <2>1, <2>4, TypeOKPartsPrime
<1>6. ASSUME NEW w \in WaitSets, WaitStep(w) PROVE TypeOK'
  BY <1>6, WaitStepTypeOK
<1>7. ASSUME NEW w \in WaitSets, RenewWaitSet(w) PROVE TypeOK'
  <2>1. WaitTypeOK' BY <1>0, <1>7 DEF RenewWaitSet, eventVars
  <2>2. QED
    BY <1>0, <1>7, <2>1, EventTypeUnchanged, TypeOKPartsPrime DEF RenewWaitSet
<1>8. CASE UNCHANGED vars
  <2>1. WaitTypeOK' BY <1>0, <1>8 DEF vars, waitVars, callVars, eventVars
  <2>2. QED BY <1>0, <1>8, <2>1, EventTypeUnchanged, TypeOKPartsPrime DEF vars
<1>9. QED
  BY <1>1, <1>2, <1>3, <1>4, <1>r, <1>5, <1>6, <1>7, <1>8 DEF Next

\* The variables of the wait sets, and of the events beside them, always have
\* their types.
THEOREM TypeCorrect == Spec => []TypeOK
  BY InitTypeOK, NextTypeOK, PTL DEF Spec

-----------------------------------------------------------------------------
(* The events beside rmw_wait *)

\* Every step of the composition is a step of the events, or does not touch them.
LEMMA NextIsEventNext == TypeOK /\ [Next]_vars => [EventNext]_eventVars
<1> SUFFICES ASSUME TypeOK, [Next]_vars PROVE EventNext \/ UNCHANGED eventVars
  OBVIOUS
<1>1. ASSUME NEW h, DataArrives(h) \/ TakeLast(h) \/ TriggerGuard(h)
                      \/ Destroy(h) \/ Create(h) \/ \E t : RenewEvent(h, t)
      PROVE  UNCHANGED eventVars
  BY <1>1 DEF DataArrives, TakeLast, TriggerGuard, Destroy, Create, RenewEvent
<1>2. CASE EventActivity BY <1>2 DEF EventActivity, EventNext
<1>3. ASSUME NEW w \in WaitSets, WaitStep(w) \/ RenewWaitSet(w)
      PROVE  EventNext \/ UNCHANGED eventVars
  <2>1. CASE ProcessEvents(w)
    <3>1. EventsIn(args[w]) \subseteq endpoint.types BY EventsHold DEF TypeOK
    <3>2. QED BY <2>1, <3>1 DEF ProcessEvents, EventNext
  <2>2. CASE ~ProcessEvents(w)
    BY <1>3, <2>2 DEF WaitStep, Enter, WaitReturns, WaitTimesOut, WaitFails,
         PollScan, PollFinds, PollScanned, PollExpires, Process, RenewWaitSet
  <2>3. QED BY <2>1, <2>2
<1>4. CASE UNCHANGED vars BY <1>4 DEF vars
<1>5. QED BY <1>1, <1>2, <1>3, <1>4 DEF Next

\* rmw_wait uses the events as EventInfo describes: whatever the wait sets do,
\* the events behave as one of EventInfo's behaviours.
THEOREM WaitSetUsesEvents == Spec => EventSpec
<1>1. Init => EventInit BY DEF Init
<1>2. QED
  BY <1>1, InitTypeOK, NextTypeOK, NextIsEventNext, PTL DEF Spec, EventSpec

\* Hence no wait loses a change of a status or counts one twice.
THEOREM WaitsConserveChanges == Spec => []ChangesConserved
  BY WaitSetUsesEvents, ChangesAreConserved, PTL

-----------------------------------------------------------------------------
(* The cache.  ArmedUnlessStale speaks of the threads that wait; what makes  *)
(* it inductive is the same fact about every cached array, waiting or not,   *)
(* with the possibility that an entity is gone.                              *)

\* A cached entity is gone, or new at its address or not attached, or attached.
CacheHandles(w) ==
  \A h \in HandlesIn(cached[w]) : h \in alive => h \in stale[w] \/ h \in attached[w]
\* A cached event is armed, unless something about it changed.
CacheEvents(w) ==
  \A e \in EventObjectsIn(cached[w]) : EventStale(w, e) \/ EventArmed(w, typeOf[e])
\* Nothing is attached but what is cached, and a call works on its cache.
CacheOnly(w) ==
  /\ attached[w] \cap Handles \subseteq HandlesIn(cached[w])
  /\ pc[w] # "idle" => /\ args[w] = cached[w]
                       /\ HandlesIn(args[w]) \subseteq alive
\* What a call found active belongs to its entries.
ActiveOnly(w) ==
  /\ toScan[w] \cap Handles \subseteq HandlesIn(cached[w]) \/ pc[w] = "idle"
  /\ active[w] \cap Handles \subseteq HandlesIn(cached[w]) \/ pc[w] = "idle"
  /\ pc[w] = "events" => active[w] \cap Handles = out[w]

WaitInv ==
  \A w \in WaitSets : CacheHandles(w) /\ CacheEvents(w) /\ CacheOnly(w) /\ ActiveOnly(w)

\* The cache of a wait set after a step that leaves the wait set alone.
LEMMA OtherSteps ==
  ASSUME TypeOK, NEW w \in WaitSets,
         CacheHandles(w), CacheEvents(w), CacheOnly(w), ActiveOnly(w),
         cached'[w] = cached[w], pc'[w] = pc[w], args'[w] = args[w],
         active'[w] = active[w], toScan'[w] = toScan[w], out'[w] = out[w],
         attached'[w] \subseteq attached[w], stale[w] \subseteq stale'[w],
         attached[w] \ attached'[w] \subseteq Handles \ alive',
         alive' \ alive \subseteq stale'[w],
         (EventsIn(cached[w]) \cap enabled) \ enabled' \subseteq stale'[w],
         mask' \ mask \subseteq stale'[w],
         \A e \in EventObjects : typeOf'[e] # typeOf[e] => e \in stale'[w],
         pc[w] # "idle" => HandlesIn(args[w]) \subseteq alive'
  PROVE  (CacheHandles(w) /\ CacheEvents(w) /\ CacheOnly(w) /\ ActiveOnly(w))'
<1>1. /\ HandlesIn(cached[w]) \subseteq Handles /\ EventsIn(cached[w]) \subseteq EventTypes
      /\ EventObjectsIn(cached[w]) \subseteq EventObjects
  BY ArraysHold, EventsHold DEF TypeOK
<1>2. CacheHandles(w)' BY <1>1 DEF CacheHandles
<1>3. CacheEvents(w)'
  <2>1. SUFFICES ASSUME NEW e \in EventObjectsIn(cached[w]), ~EventStale(w, e)'
                 PROVE  EventArmed(w, typeOf[e])'
    BY DEF CacheEvents
  <2>2. /\ e \in EventObjects /\ typeOf[e] \in EventTypes
        /\ typeOf[e] \in EventsIn(cached[w])
    BY <1>1 DEF EventsIn
  <2>3. /\ e \notin stale'[w] /\ typeOf'[e] \notin stale'[w]
        /\ StatusCondition \notin stale'[w]
    BY <2>1 DEF EventStale
  <2>4. typeOf'[e] = typeOf[e] BY <2>2, <2>3
  <2>5. EventArmed(w, typeOf[e]) BY <2>1, <2>3, <2>4 DEF CacheEvents, EventStale
  <2>6. StatusCondition \in attached'[w] /\ typeOf[e] \in enabled'
    BY <2>2, <2>3, <2>4, <2>5, WaitSetAssumption DEF EventArmed
  <2>7. HasCallback(typeOf[e])' => typeOf[e] \in attached'[w]
    BY <2>2, <2>3, <2>4, <2>5, WaitSetAssumption DEF EventArmed, HasCallback
  <2>8. QED BY <2>4, <2>6, <2>7 DEF EventArmed, HasCallback
<1>4. CacheOnly(w)' BY DEF CacheOnly
<1>5. ActiveOnly(w)' BY DEF ActiveOnly
<1>6. QED BY <1>2, <1>3, <1>4, <1>5

\* The four facts about one wait set.
WaitInvAt(w) == CacheHandles(w) /\ CacheEvents(w) /\ CacheOnly(w) /\ ActiveOnly(w)

\* A call that enters wait() leaves its cache exact.
LEMMA EnterInv ==
  ASSUME TypeOK, WaitInv, NEW w \in WaitSets, NEW a \in ArgLists, Enter(w, a)
  PROVE  WaitInv'
<1>0. HandlesIn(a) \subseteq Handles /\ EventsIn(a) \subseteq EventTypes
  BY ArraysHold, EventsHold
<1>1. WaitInvAt(w)'
  <2>0. WaitInvAt(w) BY DEF WaitInv, WaitInvAt
  <2>1. /\ pc'[w] # "idle" /\ pc'[w] # "events" /\ args'[w] = a /\ cached'[w] = a
        /\ active'[w] = {} /\ toScan'[w] \subseteq attached'[w]
        /\ alive' = alive /\ mask' = mask /\ typeOf' = typeOf
        /\ HandlesIn(a) \subseteq alive
    BY DEF Enter, TypeOK, NeedReattach, eventVars, infoVars
  <2>2. CASE NeedReattach(w, a)
    <3>1. /\ attached'[w] = ConditionsOf(a) \ stale'[w]
          /\ EventsIn(a) # {} => enabled' = EventsIn(a)
      BY <2>2 DEF Enter, TypeOK
    <3>2. /\ HandlesIn(a) \subseteq attached'[w] \cup stale'[w]
          /\ attached'[w] \cap Handles \subseteq HandlesIn(a)
      BY <1>0, <3>1, WaitSetAssumption DEF ConditionsOf, GatheredConditions
    <3>3. CacheEvents(w)'
      <4>1. SUFFICES ASSUME NEW e \in EventObjectsIn(a),
                            typeOf[e] \notin stale'[w], StatusCondition \notin stale'[w]
                     PROVE  EventArmed(w, typeOf[e])'
        BY <2>1 DEF CacheEvents, EventStale
      <4>2. typeOf[e] \in EventsIn(a) BY DEF EventsIn
      <4>3. /\ StatusCondition \in ConditionsOf(a)
            /\ HasCallback(typeOf[e]) => typeOf[e] \in ConditionsOf(a)
        BY <4>2 DEF ConditionsOf, GatheredConditions
      <4>4. /\ StatusCondition \in attached'[w] /\ typeOf[e] \in enabled'
            /\ HasCallback(typeOf[e]) => typeOf[e] \in attached'[w]
        BY <3>1, <4>1, <4>2, <4>3
      <4>5. QED BY <2>1, <4>4 DEF EventArmed, HasCallback
    <3>4. CacheHandles(w)' BY <2>1, <3>2 DEF CacheHandles
    <3>5. CacheOnly(w)' BY <2>1, <3>2 DEF CacheOnly
    <3>6. ActiveOnly(w)' BY <2>1, <3>2 DEF ActiveOnly
    <3>7. QED BY <3>3, <3>4, <3>5, <3>6 DEF WaitInvAt
  <2>3. CASE ~NeedReattach(w, a)
    <3>1. cached[w] = a /\ UNCHANGED <<attached, cached, enabled, stale>>
      BY <2>3 DEF Enter, NeedReattach
    <3>2. CacheHandles(w)' BY <2>0, <2>1, <3>1 DEF CacheHandles, WaitInvAt
    <3>3. CacheEvents(w)'
      BY <2>0, <2>1, <3>1 DEF CacheEvents, EventStale, EventArmed, WaitInvAt, HasCallback
    <3>4. CacheOnly(w)' BY <2>0, <2>1, <3>1 DEF CacheOnly, WaitInvAt
    <3>5. ActiveOnly(w)' BY <2>0, <2>1, <3>1, <3>4 DEF ActiveOnly, CacheOnly
    <3>6. QED BY <3>2, <3>3, <3>4, <3>5 DEF WaitInvAt
  <2>4. QED BY <2>2, <2>3
<1>2. ASSUME NEW v \in WaitSets, v # w PROVE WaitInvAt(v)'
  <2>0. CacheHandles(v) /\ CacheEvents(v) /\ CacheOnly(v) /\ ActiveOnly(v)
    BY DEF WaitInv
  <2>1. /\ cached'[v] = cached[v] /\ pc'[v] = pc[v] /\ args'[v] = args[v]
        /\ active'[v] = active[v] /\ toScan'[v] = toScan[v] /\ out'[v] = out[v]
        /\ attached'[v] = attached[v] /\ alive' = alive /\ mask' = mask
        /\ typeOf' = typeOf
    BY <1>2 DEF Enter, TypeOK, eventVars, infoVars
  <2>2. /\ stale[v] \subseteq stale'[v]
        /\ enabled \ enabled' \subseteq stale'[v]
    BY <1>0, <1>2 DEF Enter, TypeOK
  <2>3. pc[v] # "idle" => HandlesIn(args[v]) \subseteq alive'
    BY <2>0, <2>1 DEF CacheOnly
  <2>4. QED BY <2>0, <2>1, <2>2, <2>3, OtherSteps DEF WaitInvAt
<1>3. QED BY <1>1, <1>2 DEF WaitInv, WaitInvAt

\* A step that changes one wait set's call only, or detaches and forgets all of
\* it, leaves the caches of the others as they are.
LEMMA OneWaitSet ==
  ASSUME TypeOK, WaitInv, NEW w \in WaitSets, NEW v \in WaitSets, v # w,
         UNCHANGED <<alive, typeOf, enabled, stale, mask>>,
         attached'[v] = attached[v], cached'[v] = cached[v], pc'[v] = pc[v],
         args'[v] = args[v], active'[v] = active[v], toScan'[v] = toScan[v],
         out'[v] = out[v]
  PROVE  WaitInvAt(v)'
  BY DEF WaitInv, WaitInvAt, CacheHandles, CacheEvents, CacheOnly, ActiveOnly,
         EventStale, EventArmed, HasCallback

\* A wait set with an empty cache, nothing attached and no call.
LEMMA EmptyCache ==
  ASSUME NEW w \in WaitSets, attached'[w] = {}, cached'[w] = NoArrays, pc'[w] = "idle"
  PROVE  WaitInvAt(w)'
<1>1. HandlesIn(cached[w])' = {} /\ EventObjectsIn(cached[w])' = {}
  BY NoArraysEmpty
<1>2. QED
  BY <1>1 DEF WaitInvAt, CacheHandles, CacheEvents, CacheOnly, ActiveOnly

\* The steps of rmw_wait after its entry.
LEMMA WaitStepInv ==
  ASSUME TypeOK, WaitInv, NEW w \in WaitSets, WaitStep(w)
  PROVE  WaitInv'
<1> USE DEF TypeOK
<1>0. WaitInvAt(w) BY DEF WaitInv, WaitInvAt
<1>1. ASSUME NEW a \in ArgLists, Enter(w, a) PROVE WaitInv'
  BY <1>1, EnterInv
\* It is enough to look at the wait set that moves.
<1>2. ASSUME WaitInvAt(w)', ~\E a \in ArgLists : Enter(w, a) PROVE WaitInv'
  <2>1. SUFFICES ASSUME NEW v \in WaitSets, v # w PROVE WaitInvAt(v)'
    BY <1>2 DEF WaitInv, WaitInvAt
  <2>2. UNCHANGED <<alive, typeOf, enabled, stale, mask>>
    BY <1>2 DEF WaitStep, WaitReturns, WaitTimesOut, WaitFails, PollScan, PollFinds,
         PollScanned, PollExpires, Process, ProcessEvents, CheckStatus, eventVars, infoVars
  <2>3. attached'[v] = attached[v] /\ cached'[v] = cached[v] /\ pc'[v] = pc[v]
    BY <1>2, <2>1 DEF WaitStep, WaitReturns, WaitTimesOut, WaitFails, PollScan,
         PollFinds, PollScanned, PollExpires, Process, ProcessEvents, ClearOnError
  <2>4. /\ args'[v] = args[v] /\ active'[v] = active[v] /\ toScan'[v] = toScan[v]
        /\ out'[v] = out[v]
    BY <1>2, <2>1 DEF WaitStep, WaitReturns, WaitTimesOut, WaitFails, PollScan,
         PollFinds, PollScanned, PollExpires, Process, ProcessEvents, ClearOnError
  <2>5. QED BY <2>1, <2>2, <2>3, <2>4, OneWaitSet
<1>3. ASSUME UNCHANGED <<alive, typeOf, enabled, mask>>, attached'[w] = attached[w],
             cached'[w] = cached[w], args'[w] = args[w], stale'[w] = stale[w],
             pc[w] # "idle"
      PROVE  CacheHandles(w)' /\ CacheEvents(w)' /\ CacheOnly(w)'
  BY <1>0, <1>3 DEF WaitInvAt, CacheHandles, CacheEvents, CacheOnly, EventStale,
       EventArmed, HasCallback
<1>4. pc[w] # "idle" =>
        /\ toScan[w] \cap Handles \subseteq HandlesIn(cached[w])
        /\ active[w] \cap Handles \subseteq HandlesIn(cached[w])
        /\ attached[w] \cap Handles \subseteq HandlesIn(cached[w])
        /\ args[w] = cached[w]
  BY <1>0 DEF WaitInvAt, ActiveOnly, CacheOnly
<1>5. CASE WaitReturns(w)
  <2>1. CacheHandles(w)' /\ CacheEvents(w)' /\ CacheOnly(w)'
    BY <1>3, <1>5 DEF WaitReturns, eventVars, infoVars
  <2>2. TriggeredIn(w) \subseteq attached[w] BY TriggeredAreConditions
  <2>3. ActiveOnly(w)' BY <1>4, <1>5, <2>2 DEF WaitReturns, ActiveOnly
  <2>4. QED BY <1>2, <1>5, <2>1, <2>3 DEF WaitReturns, Enter, WaitInvAt
<1>6. CASE WaitTimesOut(w)
  <2>1. CacheHandles(w)' /\ CacheEvents(w)' /\ CacheOnly(w)'
    BY <1>3, <1>6 DEF WaitTimesOut, eventVars, infoVars
  <2>2. ActiveOnly(w)' BY <1>6 DEF WaitTimesOut, ActiveOnly
  <2>3. QED BY <1>2, <1>6, <2>1, <2>2 DEF WaitTimesOut, Enter, WaitInvAt
<1>7. CASE WaitFails(w)
  <2>1. WaitInvAt(w)' BY <1>7, EmptyCache DEF WaitFails, ClearOnError
  <2>2. QED BY <1>2, <1>7, <2>1 DEF WaitFails, Enter
<1>8. ASSUME NEW c \in Conditions, PollScan(w, c) PROVE WaitInv'
  <2>1. CacheHandles(w)' /\ CacheEvents(w)' /\ CacheOnly(w)'
    BY <1>3, <1>8 DEF PollScan, eventVars, infoVars
  <2>2. ActiveOnly(w)' BY <1>4, <1>8 DEF PollScan, ActiveOnly
  <2>3. QED BY <1>2, <1>8, <2>1, <2>2 DEF PollScan, Enter, WaitInvAt
<1>9. ASSUME NEW c \in Conditions, PollFinds(w, c) PROVE WaitInv'
  <2>1. CacheHandles(w)' /\ CacheEvents(w)' /\ CacheOnly(w)'
    BY <1>3, <1>9 DEF PollFinds, eventVars, infoVars
  <2>2. ActiveOnly(w)' BY <1>4, <1>9 DEF PollFinds, ActiveOnly
  <2>3. QED BY <1>2, <1>9, <2>1, <2>2 DEF PollFinds, Enter, WaitInvAt
<1>10. CASE PollScanned(w)
  <2>1. CacheHandles(w)' /\ CacheEvents(w)' /\ CacheOnly(w)'
    BY <1>3, <1>10 DEF PollScanned, eventVars, infoVars
  <2>2. ActiveOnly(w)' BY <1>4, <1>10 DEF PollScanned, ActiveOnly
  <2>3. QED BY <1>2, <1>10, <2>1, <2>2 DEF PollScanned, Enter, WaitInvAt
<1>11. CASE PollExpires(w)
  <2>1. CacheHandles(w)' /\ CacheEvents(w)' /\ CacheOnly(w)'
    BY <1>3, <1>11 DEF PollExpires, eventVars, infoVars
  <2>2. ActiveOnly(w)' BY <1>4, <1>11 DEF PollExpires, ActiveOnly
  <2>3. QED BY <1>2, <1>11, <2>1, <2>2 DEF PollExpires, Enter, WaitInvAt
<1>12. CASE Process(w)
  <2>1. CASE ClearOnError(w)
    <3>1. WaitInvAt(w)' BY <1>12, <2>1, EmptyCache DEF Process, ClearOnError
    <3>2. QED BY <1>2, <1>12, <3>1 DEF Process, Enter
  <2>2. CASE ~ClearOnError(w)
    <3>1. CacheHandles(w)' /\ CacheEvents(w)' /\ CacheOnly(w)'
      BY <1>3, <1>12, <2>2 DEF Process, eventVars, infoVars
    <3>2. HandlesIn(args[w]) \subseteq Handles BY ArraysHold
    <3>3. out'[w] = HandlesIn(args[w]) \cap active[w]
      BY <1>12, <2>2 DEF Process
    <3>4. ActiveOnly(w)' BY <1>4, <1>12, <2>2, <3>2, <3>3 DEF Process, ActiveOnly
    <3>5. QED BY <1>2, <1>12, <3>1, <3>4 DEF Process, Enter, WaitInvAt
  <2>3. QED BY <2>1, <2>2
<1>13. CASE ProcessEvents(w)
  <2>1. CacheHandles(w)' /\ CacheEvents(w)' /\ CacheOnly(w)'
    BY <1>3, <1>13 DEF ProcessEvents, CheckStatus, eventVars, infoVars
  <2>2. ActiveOnly(w)' BY <1>13 DEF ProcessEvents, ActiveOnly
  <2>3. QED BY <1>2, <1>13, <2>1, <2>2 DEF ProcessEvents, Enter, WaitInvAt
<1>14. QED
  BY <1>1, <1>5, <1>6, <1>7, <1>8, <1>9, <1>10, <1>11, <1>12, <1>13 DEF WaitStep

LEMMA InitInv == Init => WaitInv
  BY NoArraysEmpty
  DEF Init, WaitInv, CacheHandles, CacheEvents, CacheOnly, ActiveOnly

LEMMA NextInv == TypeOK /\ WaitInv /\ [Next]_vars => WaitInv'
<1> SUFFICES ASSUME TypeOK, WaitInv, [Next]_vars PROVE WaitInv'
  OBVIOUS
\* A step of the threads around the wait, seen from one wait set.
<1>0. ASSUME UNCHANGED <<cached, pc, args, active, toScan, out, enabled>>,
             NEW w \in WaitSets,
             \A e \in EventObjects : typeOf'[e] # typeOf[e] => e \in stale'[w],
             attached'[w] \subseteq attached[w], stale[w] \subseteq stale'[w],
             attached[w] \ attached'[w] \subseteq Handles \ alive',
             alive' \ alive \subseteq stale'[w], mask' \ mask \subseteq stale'[w],
             pc[w] # "idle" => HandlesIn(args[w]) \subseteq alive'
      PROVE  WaitInvAt(w)'
  <2>1. CacheHandles(w) /\ CacheEvents(w) /\ CacheOnly(w) /\ ActiveOnly(w)
    BY DEF WaitInv
  <2>2. QED BY <1>0, <2>1, OtherSteps DEF WaitInvAt
<1>a. ASSUME NEW w \in WaitSets
      PROVE  pc[w] # "idle" => HandlesIn(args[w]) \subseteq alive
  BY DEF WaitInv, CacheOnly
<1>1. ASSUME NEW h, DataArrives(h) \/ TakeLast(h) \/ TriggerGuard(h) PROVE WaitInv'
  <2>1. SUFFICES ASSUME NEW w \in WaitSets PROVE WaitInvAt(w)'
    BY DEF WaitInv, WaitInvAt
  <2>2. UNCHANGED <<cached, pc, args, active, toScan, out, enabled, attached, stale,
                    alive, typeOf, mask>>
    BY <1>1 DEF DataArrives, TakeLast, TriggerGuard, eventVars, infoVars, callVars
  <2>3. QED BY <1>0, <1>a, <2>2
<1>2. ASSUME NEW h \in Handles, Destroy(h) PROVE WaitInv'
  <2>1. SUFFICES ASSUME NEW w \in WaitSets PROVE WaitInvAt(w)'
    BY DEF WaitInv, WaitInvAt
  <2>2. /\ UNCHANGED <<cached, pc, args, active, toScan, out, enabled, stale, typeOf,
                       mask>>
        /\ alive' = alive \ {h} /\ attached'[w] = attached[w] \ {h}
    BY <1>2 DEF Destroy, eventVars, infoVars, callVars
  <2>3. pc[w] # "idle" => HandlesIn(args[w]) \subseteq alive'
    BY <1>2, <1>a, <2>2 DEF Destroy, InUse
  <2>4. QED BY <1>0, <1>2, <2>2, <2>3
<1>3. ASSUME NEW h \in Handles, Create(h) PROVE WaitInv'
  <2>1. SUFFICES ASSUME NEW w \in WaitSets PROVE WaitInvAt(w)'
    BY DEF WaitInv, WaitInvAt
  <2>2. /\ UNCHANGED <<cached, pc, args, active, toScan, out, enabled, attached, typeOf,
                       mask>>
        /\ alive' = alive \cup {h} /\ stale'[w] = stale[w] \cup {h}
    BY <1>3 DEF Create, eventVars, infoVars, callVars
  <2>3. QED BY <1>0, <1>a, <2>2
<1>r. ASSUME NEW e \in EventObjects, NEW t \in endpoint.types, RenewEvent(e, t)
      PROVE  WaitInv'
  <2>1. SUFFICES ASSUME NEW w \in WaitSets PROVE WaitInvAt(w)'
    BY DEF WaitInv, WaitInvAt
  <2>2. /\ UNCHANGED <<cached, pc, args, active, toScan, out, enabled, attached, alive,
                       mask>>
        /\ typeOf' = [typeOf EXCEPT ![e] = t] /\ stale'[w] = stale[w] \cup {e}
    BY <1>r DEF RenewEvent, eventVars, infoVars, callVars
  <2>3. \A x \in EventObjects : typeOf'[x] # typeOf[x] => x \in stale'[w]
    BY <2>2 DEF TypeOK
  <2>4. QED BY <1>0, <1>a, <2>2, <2>3
<1>4. CASE EventActivity
  <2>1. SUFFICES ASSUME NEW w \in WaitSets PROVE WaitInvAt(w)'
    BY DEF WaitInv, WaitInvAt
  <2>2. /\ UNCHANGED <<cached, pc, args, active, toScan, out, enabled, attached, alive,
                       typeOf>>
        /\ stale'[w] = stale[w] \cup (mask' \ mask)
    BY <1>4 DEF EventActivity, callVars
  <2>3. QED BY <1>0, <1>a, <2>2
<1>5. ASSUME NEW w \in WaitSets, WaitStep(w) PROVE WaitInv'
  BY <1>5, WaitStepInv
<1>6. ASSUME NEW w \in WaitSets, RenewWaitSet(w) PROVE WaitInv'
  <2>1. SUFFICES ASSUME NEW v \in WaitSets PROVE WaitInvAt(v)'
    BY DEF WaitInv, WaitInvAt
  <2>2. CASE v = w
    BY <1>6, <2>2, EmptyCache DEF RenewWaitSet, TypeOK
  <2>3. CASE v # w
    BY <1>6, <2>3, OneWaitSet DEF RenewWaitSet, TypeOK, eventVars, infoVars
  <2>4. QED BY <2>2, <2>3
<1>7. CASE UNCHANGED vars
  BY <1>7 DEF vars, waitVars, callVars, eventVars, infoVars, WaitInv, CacheHandles,
       CacheEvents, CacheOnly, ActiveOnly, EventStale, EventArmed, HasCallback
<1>8. QED BY <1>1, <1>2, <1>3, <1>r, <1>4, <1>5, <1>6, <1>7 DEF Next

LEMMA InvImpliesArmed == TypeOK /\ WaitInv => ArmedUnlessStale
<1> SUFFICES ASSUME TypeOK, WaitInv, NEW w \in WaitSets, Waiting(w)
             PROVE  /\ HandlesIn(args[w]) \ stale[w] \subseteq attached[w]
                    /\ \A e \in EventObjectsIn(args[w]) :
                         EventStale(w, e) \/ EventArmed(w, typeOf[e])
  BY DEF ArmedUnlessStale
<1>1. /\ args[w] = cached[w] /\ HandlesIn(args[w]) \subseteq alive
      /\ CacheHandles(w) /\ CacheEvents(w)
  BY DEF WaitInv, CacheOnly, Waiting
<1>2. QED BY <1>1 DEF CacheHandles, CacheEvents

LEMMA InvImpliesWoken == TypeOK /\ WaitInv => WokenByEntries
  BY DEF WaitInv, WokenByEntries, CacheOnly, ActiveOnly, Waiting

LEMMA WaitInvariant == Spec => [](TypeOK /\ WaitInv)
<1>1. Init => TypeOK /\ WaitInv BY InitTypeOK, InitInv
<1>2. (TypeOK /\ WaitInv) /\ [Next]_vars => (TypeOK /\ WaitInv)'
  BY NextTypeOK, NextInv
<1>3. QED BY <1>1, <1>2, PTL DEF Spec

\* The pointer cache of wait.cpp loses no wake-up but those of the entries that
\* changed under it: for any number of wait sets, entities and calls.
THEOREM WaiterIsArmed == Spec => []ArmedUnlessStale
  BY InvImpliesArmed, WaitInvariant, PTL

\* A wait is woken by its own entries only, and reports each that woke it.
THEOREM WaiterIsWokenByEntries == Spec => []WokenByEntries
  BY InvImpliesWoken, WaitInvariant, PTL

-----------------------------------------------------------------------------
(* What a wait consumes, it reports *)

LEMMA NextReports ==
  TypeOK /\ QuietChangeWasReported /\ [Next]_vars => QuietChangeWasReported'
<1> SUFFICES ASSUME TypeOK, QuietChangeWasReported, [Next]_vars,
                    NEW t \in EventTypes, changed'[t], ~trigger'[t]
             PROVE  t \in reported'
  BY DEF QuietChangeWasReported
<1>1. CASE EventActivity
  <2>0. EventTypeOK BY DEF TypeOK
  <2>1. changed[t] /\ ~trigger[t]
    BY <1>1, <2>0 DEF EventActivity, EventStep, StatusChange, Listener, SetCallback,
         ClearCallback, TakeEvent, GuardAfterTake, SetMessageCallback, WriteMask, CopyMask,
         InstallListener, EventTypeOK, ddsVars, infoVars, historyVars
  <2>2. QED BY <1>1, <2>1 DEF EventActivity, QuietChangeWasReported
<1>2. ASSUME NEW w \in WaitSets, ProcessEvents(w) PROVE t \in reported'
  <2>1. changed' = changed
    BY <1>2 DEF ProcessEvents, CheckStatus, eventVars, infoVars
  <2>2. CASE trigger[t]
    <3>1. EventsIn(args[w]) # {} /\ CheckStatus(EventsIn(args[w]))
      BY <1>2, <2>2 DEF ProcessEvents, eventVars, infoVars
    <3>2. t \in EventsIn(args[w]) /\ HasCallback(t) /\ HasChangedCase(t) /\ changed[t]
      BY <2>2, <3>1 DEF CheckStatus, TriggerAfterCheck
    <3>3. IsStatusChanged(t) BY <3>2 DEF IsStatusChanged
    <3>4. QED BY <1>2, <3>2, <3>3 DEF ProcessEvents
  <2>3. CASE ~trigger[t]
    BY <1>2, <2>1, <2>3 DEF ProcessEvents, QuietChangeWasReported
  <2>4. QED BY <2>2, <2>3
<1>3. CASE ~EventActivity /\ ~\E w \in WaitSets : ProcessEvents(w)
  <2>1. UNCHANGED eventVars /\ reported' = reported
    BY <1>3 DEF Next, DataArrives, TakeLast, TriggerGuard, Destroy, Create, RenewEvent,
         WaitStep, Enter, WaitReturns, WaitTimesOut, WaitFails, PollScan, PollFinds, PollScanned,
         PollExpires, Process, RenewWaitSet, vars, waitVars
  <2>2. QED BY <2>1 DEF QuietChangeWasReported, eventVars, infoVars
<1>4. QED BY <1>1, <1>2, <1>3

\* Resetting the guard condition of an event never hides a change that no wait
\* has reported.
THEOREM QuietChangesWereReported == Spec => []QuietChangeWasReported
<1>1. Init => QuietChangeWasReported
  BY DEF Init, EventInit, QuietChangeWasReported
<1>2. QED BY <1>1, InitTypeOK, NextTypeOK, NextReports, PTL DEF Spec
-----------------------------------------------------------------------------
(* What a timeout and a lowered guard condition mean                         *)

\* A call that waits has not got the return code of a timeout left over.
NoTimeoutYet == \A w \in WaitSets : Waiting(w) => result[w] # "TIMEOUT"

\* The one step that ends a DDS wait with a timeout is WaitTimesOut; and a wait
\* set that begins to wait has its return code reset.
LEMMA ResultStep ==
  ASSUME TypeOK, [Next]_vars, NEW w \in WaitSets, result'[w] = "TIMEOUT"
  PROVE  \/ WaitTimesOut(w)
         \/ PollExpires(w)
         \/ /\ result[w] = "TIMEOUT"
            /\ Waiting(w)' => Waiting(w)
<1>t. /\ pc \in [WaitSets -> {"idle", "wait", "scan", "poll", "process", "events"}]
      /\ result \in [WaitSets -> {"NONE", "OK", "TIMEOUT", "ERROR"}]
  BY DEF TypeOK
<1>u. ASSUME result'[w] = result[w], pc'[w] = pc[w]
      PROVE  result[w] = "TIMEOUT" /\ (Waiting(w)' => Waiting(w))
  BY <1>u DEF Waiting
<1>1. ASSUME NEW h, DataArrives(h) \/ TakeLast(h) \/ TriggerGuard(h)
                      \/ Destroy(h) \/ Create(h) \/ \E t : RenewEvent(h, t)
      PROVE  result[w] = "TIMEOUT" /\ (Waiting(w)' => Waiting(w))
  BY <1>1, <1>u DEF DataArrives, TakeLast, TriggerGuard, Destroy, Create, RenewEvent,
       callVars
<1>2. CASE EventActivity
  BY <1>2, <1>u DEF EventActivity, callVars
<1>3. ASSUME NEW v \in WaitSets, v # w, WaitStep(v) \/ RenewWaitSet(v)
      PROVE  result[w] = "TIMEOUT" /\ (Waiting(w)' => Waiting(w))
  <2>1. result'[w] = result[w]
    BY <1>3, <1>t DEF WaitStep, Enter, WaitReturns, WaitTimesOut, WaitFails, PollScan,
         PollFinds, PollScanned, PollExpires, Process, ProcessEvents, ClearOnError,
         RenewWaitSet
  <2>2. pc'[w] = pc[w]
    BY <1>3, <1>t DEF WaitStep, Enter, WaitReturns, WaitTimesOut, WaitFails, PollScan,
         PollFinds, PollScanned, PollExpires, Process, ProcessEvents, ClearOnError,
         RenewWaitSet
  <2>3. QED BY <1>u, <2>1, <2>2
<1>4. ASSUME NEW a \in ArgLists, Enter(w, a) PROVE FALSE
  BY <1>4, <1>t DEF Enter
<1>5. ASSUME WaitReturns(w) \/ WaitFails(w) \/ RenewWaitSet(w)
             \/ \E c \in Conditions : PollFinds(w, c)
      PROVE  FALSE
  BY <1>5, <1>t DEF WaitReturns, WaitFails, PollFinds, ClearOnError, RenewWaitSet
<1>6. ASSUME NEW c \in Conditions, PollScan(w, c)
      PROVE  result[w] = "TIMEOUT" /\ (Waiting(w)' => Waiting(w))
  BY <1>6, <1>u DEF PollScan
<1>7. ASSUME PollScanned(w)
      PROVE  result[w] = "TIMEOUT" /\ (Waiting(w)' => Waiting(w))
  BY <1>7, <1>t DEF PollScanned, Waiting
<1>8. ASSUME Process(w)
      PROVE  result[w] = "TIMEOUT" /\ (Waiting(w)' => Waiting(w))
  BY <1>8, <1>t DEF Process, ClearOnError, Waiting
<1>9. ASSUME ProcessEvents(w)
      PROVE  result[w] = "TIMEOUT" /\ (Waiting(w)' => Waiting(w))
  BY <1>9, <1>t DEF ProcessEvents, Waiting
<1>10. ASSUME UNCHANGED vars
       PROVE  result[w] = "TIMEOUT" /\ (Waiting(w)' => Waiting(w))
  BY <1>10, <1>u DEF vars, waitVars, callVars
<1>11. ASSUME NEW v \in WaitSets, WaitStep(v) \/ RenewWaitSet(v)
       PROVE  \/ WaitTimesOut(w)
              \/ PollExpires(w)
              \/ result[w] = "TIMEOUT" /\ (Waiting(w)' => Waiting(w))
  <2>1. CASE v # w BY <1>3, <1>11, <2>1
  <2>2. CASE v = w
    BY <1>4, <1>5, <1>6, <1>7, <1>8, <1>9, <1>11, <2>2 DEF WaitStep
  <2>3. QED BY <2>1, <2>2
<1>12. QED BY <1>1, <1>2, <1>10, <1>11 DEF Next

LEMMA NextNoTimeoutYet ==
  TypeOK /\ NoTimeoutYet /\ [Next]_vars => NoTimeoutYet'
<1> SUFFICES ASSUME TypeOK, NoTimeoutYet, [Next]_vars,
                    NEW w \in WaitSets, Waiting(w)', result'[w] = "TIMEOUT"
             PROVE  FALSE
  BY DEF NoTimeoutYet
<1>1. CASE WaitTimesOut(w)
  BY <1>1 DEF WaitTimesOut, Waiting, TypeOK
<1>2. CASE PollExpires(w)
  BY <1>2 DEF PollExpires, Waiting, TypeOK
<1>3. CASE result[w] = "TIMEOUT" /\ Waiting(w)
  BY <1>3 DEF NoTimeoutYet
<1>4. QED BY <1>1, <1>2, <1>3, ResultStep

LEMMA NoTimeoutWhileWaiting == Spec => []NoTimeoutYet
<1>1. Init => NoTimeoutYet BY DEF Init, NoTimeoutYet, Waiting
<1>2. QED BY <1>1, InitTypeOK, NextTypeOK, NextNoTimeoutYet, PTL DEF Spec

\* What a timeout says of the entries of a call.
NothingReady(w) ==
  /\ \A h \in HandlesIn(args[w]) \ stale[w] : ~ready[h]
  /\ \A e \in EventObjectsIn(args[w]) :
       ~EventStale(w, e) /\ IsStatusChanged(typeOf[e]) => typeOf[e] \in reported

\* The conditions of a call's entries, when none of the attached is triggered.
LEMMA NothingTriggered ==
  ASSUME TypeOK, ArmedUnlessStale, QuietChangeWasReported,
         NEW w \in WaitSets, pc[w] = "wait", TriggeredIn(w) = {}
  PROVE  NothingReady(w)
<1>0. /\ HandlesIn(args[w]) \subseteq Handles /\ EventsIn(args[w]) \subseteq EventTypes
  BY ArraysHold, EventsHold DEF TypeOK
<1>1. \A c \in attached[w] : ~Triggered(c)
  BY DEF TriggeredIn
<1>2. /\ HandlesIn(args[w]) \ stale[w] \subseteq attached[w]
      /\ \A e \in EventObjectsIn(args[w]) :
           EventStale(w, e) \/ EventArmed(w, typeOf[e])
  BY DEF ArmedUnlessStale, Waiting
<1>3. ASSUME NEW h \in HandlesIn(args[w]) \ stale[w] PROVE ~ready[h]
  <2>1. h \in Handles /\ h \notin EventTypes BY <1>0, WaitSetAssumption
  <2>2. QED BY <1>1, <1>2, <2>1 DEF Triggered
<1>4. ASSUME NEW e \in EventObjectsIn(args[w]), ~EventStale(w, e),
             IsStatusChanged(typeOf[e])
      PROVE  typeOf[e] \in reported
  <2>0. typeOf[e] \in EventsIn(args[w]) BY DEF EventsIn
  <2>1. typeOf[e] \in EventTypes /\ typeOf[e] \notin Handles
    BY <1>0, <2>0, WaitSetAssumption
  <2>2. EventArmed(w, typeOf[e]) BY <1>2, <1>4
  <2>3. ~(unread[typeOf[e]] > 0)
    <3>1. ~Triggered(StatusCondition) BY <1>1, <2>2 DEF EventArmed
    <3>2. QED BY <2>2, <3>1, WaitSetAssumption DEF Triggered, EventArmed
  <2>4. HasCallback(typeOf[e]) /\ changed[typeOf[e]]
    BY <1>4, <2>3 DEF IsStatusChanged
  <2>5. ~trigger[typeOf[e]] BY <1>1, <2>1, <2>2, <2>4 DEF Triggered, EventArmed
  <2>6. QED BY <2>1, <2>4, <2>5 DEF QuietChangeWasReported
<1>5. QED BY <1>3, <1>4 DEF NothingReady

\* A DDS wait that times out tells its caller the truth about every entry that
\* is not stale, however old the cache it waited with.
THEOREM TimeoutIsTrue == Spec => TimeoutMeansNothingReady
<1>1. /\ TypeOK /\ ArmedUnlessStale /\ QuietChangeWasReported /\ NoTimeoutYet
      /\ [Next]_vars
      => [\A w \in WaitSets : pc[w] = "wait" /\ result'[w] = "TIMEOUT" =>
            /\ \A h \in HandlesIn(args[w]) \ stale[w] : ~ready[h]
            /\ \A e \in EventObjectsIn(args[w]) :
                 ~EventStale(w, e) /\ IsStatusChanged(typeOf[e]) =>
                   typeOf[e] \in reported]_vars
  <2> SUFFICES ASSUME TypeOK, ArmedUnlessStale, QuietChangeWasReported,
                      NoTimeoutYet, [Next]_vars, NEW w \in WaitSets,
                      pc[w] = "wait", result'[w] = "TIMEOUT"
               PROVE  NothingReady(w)
    BY DEF NothingReady
  <2>1. result[w] # "TIMEOUT" BY DEF NoTimeoutYet, Waiting
  <2>2. WaitTimesOut(w) BY <2>1, ResultStep DEF PollExpires
  <2>3. TriggeredIn(w) = {} BY <2>2 DEF WaitTimesOut
  <2>4. QED BY <2>3, NothingTriggered
<1>2. QED
  BY <1>1, TypeCorrect, WaiterIsArmed, QuietChangesWereReported,
     NoTimeoutWhileWaiting, PTL DEF Spec, TimeoutMeansNothingReady

LEMMA BeforeNullInRange == ASSUME NEW s PROVE BeforeNull(s) \subseteq Range(s)
  BY DEF BeforeNull, Range

\* Who lowers the guard condition of a living entity.
LEMMA GuardLoweredByProcess ==
  ASSUME TypeOK, [Next]_vars, NEW g \in Guards,
         ready[g], ~ready'[g], g \in alive'
  PROVE  \E w \in WaitSets : Process(w) /\ (ClearOnError(w) \/ g \in ResetGuards(w))
<1>t. ready \in [Handles -> BOOLEAN] /\ g \in Handles /\ g \notin Readers
  BY WaitSetAssumption DEF TypeOK, Handles
<1>u. ready' # ready BY DEF TypeOK
<1>1. ASSUME NEW h \in Readers, DataArrives(h) \/ TakeLast(h) PROVE FALSE
  <2>1. h # g BY <1>t
  <2>2. ready'[g] = ready[g] BY <1>1, <1>t, <2>1 DEF DataArrives, TakeLast
  <2>3. QED BY <2>2
<1>2. ASSUME NEW h \in Guards, TriggerGuard(h) PROVE FALSE
  BY <1>2, <1>t DEF TriggerGuard
<1>3. ASSUME NEW h \in Handles, Destroy(h) PROVE FALSE
  <2>1. h # g BY <1>3 DEF Destroy
  <2>2. QED BY <1>3, <1>t, <2>1 DEF Destroy
<1>4. ASSUME NEW h \in Handles, Create(h) PROVE FALSE
  BY <1>4, <1>u DEF Create
<1>r. ASSUME NEW e \in EventObjects, NEW t \in endpoint.types, RenewEvent(e, t)
      PROVE  FALSE
  BY <1>r, <1>u DEF RenewEvent
<1>5. ASSUME EventActivity PROVE FALSE
  BY <1>5, <1>u DEF EventActivity
<1>6. ASSUME NEW w \in WaitSets, WaitStep(w), ~Process(w) PROVE FALSE
  BY <1>6, <1>u DEF WaitStep, Enter, WaitReturns, WaitTimesOut, WaitFails, PollScan,
       PollFinds, PollScanned, PollExpires, ProcessEvents
<1>7. ASSUME NEW w \in WaitSets, RenewWaitSet(w) PROVE FALSE
  BY <1>7, <1>u DEF RenewWaitSet
<1>8. ASSUME UNCHANGED vars PROVE FALSE
  BY <1>8, <1>u DEF vars, waitVars
<1>9. PICK w \in WaitSets : Process(w)
  BY <1>1, <1>2, <1>3, <1>4, <1>r, <1>5, <1>6, <1>7, <1>8 DEF Next
<1>10. ClearOnError(w) \/ g \in ResetGuards(w) BY <1>t, <1>9 DEF Process
<1>11. QED BY <1>9, <1>10

\* No trigger of a guard condition is consumed in silence: the wait that lowers
\* it returns the guard condition to its caller, or an error.
THEOREM ConsumedTriggersAreReported == Spec => TriggerIsReported
<1>1. TypeOK /\ [Next]_vars
      => [\A g \in Guards : ready[g] /\ ~ready'[g] /\ g \in alive' =>
            \E w \in WaitSets : g \in out'[w] \/ result'[w] = "ERROR"]_vars
  <2> SUFFICES ASSUME TypeOK, [Next]_vars, NEW g \in Guards,
                      ready[g], ~ready'[g], g \in alive'
               PROVE  \E w \in WaitSets : g \in out'[w] \/ result'[w] = "ERROR"
    OBVIOUS
  <2>1. PICK w \in WaitSets : Process(w) /\ (ClearOnError(w) \/ g \in ResetGuards(w))
    BY GuardLoweredByProcess
  <2>2. CASE ClearOnError(w)
    BY <2>2 DEF ClearOnError, TypeOK
  <2>3. CASE ~ClearOnError(w)
    <3>1. g \in active[w] /\ g \in Range(args[w]["guard_conditions"])
      BY <2>1, <2>3, BeforeNullInRange DEF ResetGuards
    <3>2. g # Null BY WaitSetAssumption DEF Conditions, Handles
    <3>3. g \in HandlesIn(args[w])
      <4>1. "guard_conditions" \in HandleLists BY DEF HandleLists
      <4>2. QED BY <3>1, <3>2, <4>1 DEF HandlesIn
    <3>4. out'[w] = HandlesIn(args[w]) \cap active[w]
      BY <2>1, <2>3 DEF Process, TypeOK
    <3>5. QED BY <3>1, <3>3, <3>4
  <2>4. QED BY <2>2, <2>3
<1>2. QED BY <1>1, TypeCorrect, PTL DEF Spec, TriggerIsReported
=============================================================================
