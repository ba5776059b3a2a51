-------------------------- MODULE EventInfoProofs --------------------------
(***************************************************************************)
(* Theorems of EventInfo for every set of event types and every bound:     *)
(* type correctness, conservation of the changes of a status, that the only*)
(* changes that disappear are those a callback was told of, that the DDS   *)
(* listener is installed for the callbacks there are, and that only its    *)
(* installation can report what did not happen.                            *)
(***************************************************************************)
EXTENDS EventInfo, TLAPS

LEMMA EventSetter == "event" \in Setters /\ "message" \in Setters
  BY DEF Setters

LEMMA TypesInPlay ==
  ASSUME NEW e \in Endpoints
  PROVE  e.types \subseteq EventTypes
  BY DEF EventTypes

LEMMA IdleSetter == SetterIdle \in SetterState
  BY DEF SetterIdle, SetterState, StatusBits

LEMMA EventInitTypeOK == EventInit => EventTypeOK
<1> SUFFICES ASSUME EventInit PROVE EventTypeOK
  OBVIOUS
<1>1. setter \in [Setters -> SetterState]
  BY IdleSetter DEF EventInit
<1>2. QED BY <1>1 DEF EventInit, EventTypeOK

\* Every step of the event handlers keeps the types.
LEMMA EventStepTypeOK ==
  ASSUME EventTypeOK, EventStep
  PROVE  EventTypeOK'
<1>1. ASSUME NEW t \in EventTypes, StatusChange(t) PROVE EventTypeOK'
  BY <1>1 DEF EventTypeOK, StatusChange, infoVars, raceVars
<1>2. ASSUME NEW t \in EventTypes, Listener(t) PROVE EventTypeOK'
  <2>1. CounterOf(t) \in EventTypes BY EventInfoAssumption
  <2>2. counter' \in [EventTypes -> Nat]
    BY <1>2, <2>1 DEF EventTypeOK, Listener, CounterAfterListener
  <2>3. counter'[CounterOf(t)] \in Nat BY <2>1, <2>2
  <2>4. told' \in [EventTypes -> Nat]
    <3>1. \/ told' = told
          \/ told' = [told EXCEPT ![CallbackOf(t)] = @ + counter'[CounterOf(t)]]
      BY <1>2 DEF Listener, CounterAfterListener
    <3>2. told \in [EventTypes -> Nat] BY DEF EventTypeOK
    <3>3. CASE CallbackOf(t) \in EventTypes
      BY <3>1, <3>2, <3>3, <2>3
    <3>4. CASE CallbackOf(t) \notin EventTypes
      <4>1. told' = told BY <3>1, <3>2, <3>4
      <4>2. QED BY <4>1, <3>2
    <3>5. QED BY <3>3, <3>4
  <2>5. stranded' \in [EventTypes -> Nat]
    BY <1>2 DEF EventTypeOK, Listener, CounterAfterListener
  <2>6. QED BY <1>2, <2>2, <2>4, <2>5
    DEF EventTypeOK, Listener, CounterAfterListener, raceVars
<1>3. ASSUME NEW t \in EventTypes, SetCallback(t) PROVE EventTypeOK'
  <2>1. setter' \in [Setters -> SetterState]
    BY <1>3, EventSetter
    DEF EventTypeOK, SetCallback, ToldAfterSet, CounterAfterRead, SetterState, StatusBits
  <2>2. QED BY <1>3, <2>1
    DEF EventTypeOK, SetCallback, ToldAfterSet, CounterAfterRead, raceVars
<1>4. ASSUME NEW t \in EventTypes, ClearCallback(t) PROVE EventTypeOK'
  <2>1. setter' \in [Setters -> SetterState]
    BY <1>4, EventSetter DEF EventTypeOK, ClearCallback, SetterState, StatusBits
  <2>2. QED
    BY <1>4, <2>1 DEF EventTypeOK, ClearCallback, ddsVars, infoVars, historyVars, raceVars
<1>5. ASSUME NEW t \in EventTypes, TakeEvent(t) PROVE EventTypeOK'
  BY <1>5 DEF EventTypeOK, TakeEvent, CounterAfterRead, GuardAfterTake, raceVars
<1>6. ASSUME NEW on \in BOOLEAN, SetMessageCallback(on) PROVE EventTypeOK'
  <2>1. setter' \in [Setters -> SetterState]
    BY <1>6, EventSetter
    DEF EventTypeOK, SetMessageCallback, SetterState, StatusBits
  <2>2. QED
    BY <1>6, <2>1
    DEF EventTypeOK, SetMessageCallback, ddsVars, infoVars, historyVars, raceVars
<1>7. ASSUME NEW p \in Setters, WriteMask(p) PROVE EventTypeOK'
  <2>1. setter[p] \in SetterState BY DEF EventTypeOK
  <2>2. setter' \in [Setters -> SetterState]
    BY <1>7, <2>1 DEF EventTypeOK, WriteMask, SetterState
  <2>3. mask' \subseteq StatusBits /\ callback' \subseteq StatusBits
    BY <1>7, <2>1 DEF EventTypeOK, WriteMask, MaskAfter, SetterState
  <2>4. clobbered' \subseteq StatusBits /\ older' \subseteq Setters
    BY <1>7, <2>1 DEF EventTypeOK, WriteMask, Differ, SetterState
  <2>5. QED BY <1>7, <2>2, <2>3, <2>4 DEF EventTypeOK, WriteMask, ddsVars
<1>8. ASSUME NEW p \in Setters, CopyMask(p) PROVE EventTypeOK'
  <2>1. setter' \in [Setters -> SetterState]
    BY <1>8 DEF EventTypeOK, CopyMask, SetterState
  <2>2. older' \subseteq Setters BY <1>8 DEF EventTypeOK, CopyMask
  <2>3. QED BY <1>8, <2>1, <2>2 DEF EventTypeOK, CopyMask, ddsVars, infoVars
<1>9. ASSUME NEW p \in Setters, InstallListener(p) PROVE EventTypeOK'
  <2>1. setter' \in [Setters -> SetterState]
    BY <1>9, IdleSetter DEF EventTypeOK, InstallListener
  <2>2. installed' \subseteq StatusBits
    BY <1>9 DEF EventTypeOK, InstallListener, SetterState
  <2>3. older' \subseteq Setters BY <1>9 DEF EventTypeOK, InstallListener
  <2>4. outdated' \in BOOLEAN
    <3>1. outdated' = (p \in older) \/ outdated' = TRUE BY <1>9 DEF InstallListener
    <3>2. (p \in older) \in BOOLEAN OBVIOUS
    <3>3. QED BY <3>1, <3>2
  <2>5. QED BY <1>9, <2>1, <2>2, <2>3, <2>4 DEF EventTypeOK, InstallListener, infoVars
<1>10. endpoint.types \subseteq EventTypes BY TypesInPlay DEF EventTypeOK
<1>11. QED
  BY <1>1, <1>2, <1>3, <1>4, <1>5, <1>6, <1>7, <1>8, <1>9, <1>10 DEF EventStep

\* The reset of guard conditions in is_status_changed keeps their type.
LEMMA TriggerAfterCheckType ==
  ASSUME EventTypeOK, NEW checked
  PROVE  TriggerAfterCheck(checked) \in [EventTypes -> BOOLEAN]
  BY DEF EventTypeOK, TriggerAfterCheck

LEMMA EventNextTypeOK == EventTypeOK /\ [EventNext]_eventVars => EventTypeOK'
<1> SUFFICES ASSUME EventTypeOK, [EventNext]_eventVars PROVE EventTypeOK'
  OBVIOUS
<1>1. CASE EventStep BY <1>1, EventStepTypeOK
<1>2. ASSUME NEW checked \in SUBSET EventTypes, CheckStatus(checked)
      PROVE  EventTypeOK'
  BY <1>2, TriggerAfterCheckType DEF EventTypeOK, CheckStatus, ddsVars, historyVars, raceVars
<1>3. CASE UNCHANGED eventVars
  BY <1>3 DEF EventTypeOK, eventVars, ddsVars, infoVars, historyVars, raceVars
<1>4. endpoint.types \subseteq EventTypes BY TypesInPlay DEF EventTypeOK
<1>5. QED BY <1>1, <1>2, <1>3, <1>4 DEF EventNext

\* The variables of the event model always have their types.
THEOREM EventTypeCorrect == EventSpec => []EventTypeOK
  BY EventInitTypeOK, EventNextTypeOK, PTL DEF EventSpec

-----------------------------------------------------------------------------
(* The inductive invariant.  DroppedWasTold is not inductive: the recorded   *)
(* count, which the next installation may discard, must be told as well.     *)

\* The changes already discarded, and those recorded, were told or stranded.
DroppedOrRecordedWasTold ==
  \A t \in EventTypes :
    OwnCounter(t) => dropped[t] + counter[t] <= told[t] + stranded[t]

EventInv == ChangesConserved /\ RecordedIsFlagged /\ DroppedOrRecordedWasTold

\* The same for one event type.
InvAt(t) ==
  OwnCounter(t) =>
    /\ total[t] = taken[t] + dropped[t] + counter[t] + inflight[t] + unread[t]
    /\ counter[t] > 0 => changed[t]
    /\ dropped[t] + counter[t] <= told[t] + stranded[t]

LEMMA EventInvByType == EventInv <=> \A t \in EventTypes : InvAt(t)
  BY DEF EventInv, InvAt, ChangesConserved, RecordedIsFlagged,
         DroppedOrRecordedWasTold

LEMMA EventInvByTypePrime == EventInv' <=> \A t \in EventTypes : InvAt(t)'
  BY DEF EventInv, InvAt, ChangesConserved, RecordedIsFlagged,
         DroppedOrRecordedWasTold

\* A step on the event type u preserves the invariant of every type t.
LEMMA EventStepInvAt ==
  ASSUME EventTypeOK, NEW t \in EventTypes, InvAt(t), EventStep
  PROVE  InvAt(t)'
<1> SUFFICES ASSUME OwnCounter(t)
             PROVE  /\ total'[t] = taken'[t] + dropped'[t] + counter'[t]
                                     + inflight'[t] + unread'[t]
                    /\ counter'[t] > 0 => changed'[t]
                    /\ dropped'[t] + counter'[t] <= told'[t] + stranded'[t]
  BY DEF InvAt, OwnCounter
<1>0. /\ total[t] = taken[t] + dropped[t] + counter[t] + inflight[t] + unread[t]
      /\ counter[t] > 0 => changed[t]
      /\ dropped[t] + counter[t] <= told[t] + stranded[t]
  BY DEF InvAt
<1>t. /\ total[t] \in Nat /\ taken[t] \in Nat /\ dropped[t] \in Nat
      /\ counter[t] \in Nat /\ inflight[t] \in Nat /\ unread[t] \in Nat
      /\ told[t] \in Nat /\ stranded[t] \in Nat
  BY DEF EventTypeOK
<1>1. ASSUME NEW u \in EventTypes, StatusChange(u) PROVE InvAt(t)'
  <2>1. CASE u = t
    BY <1>0, <1>t, <1>1, <2>1 DEF StatusChange, infoVars, EventTypeOK, InvAt
  <2>2. CASE u # t
    BY <1>0, <1>t, <1>1, <2>2 DEF StatusChange, infoVars, EventTypeOK, InvAt
  <2>3. QED BY <2>1, <2>2
<1>2. ASSUME NEW u \in EventTypes, Listener(u) PROVE InvAt(t)'
  <2>1. CASE u = t
    <3>1. CounterOf(t) = t BY DEF OwnCounter
    <3>2. /\ inflight'[t] = 0 /\ changed'[t] /\ counter'[t] = counter[t] + inflight[t]
          /\ total' = total /\ taken' = taken /\ dropped' = dropped /\ unread' = unread
      BY <1>2, <2>1, <3>1 DEF Listener, CounterAfterListener, EventTypeOK
    <3>3. \/ told'[t] = told[t] + counter'[t] /\ stranded' = stranded
          \/ told'[t] = told[t] /\ stranded'[t] = stranded[t] + inflight[t]
      <4>1. CASE CallbackOf(t) = t /\ t \in callback
        BY <1>2, <2>1, <3>1, <4>1 DEF Listener, CounterAfterListener, EventTypeOK
      <4>2. CASE CallbackOf(t) # t \/ t \notin callback
        <5>1. stranded'[t] = stranded[t] + inflight[t]
          BY <1>2, <2>1, <4>2 DEF Listener, CounterAfterListener, EventTypeOK
        <5>2. told'[t] = told[t]
          BY <1>2, <2>1, <4>2 DEF Listener, CounterAfterListener, EventTypeOK
        <5>3. QED BY <5>1, <5>2, <1>t
      <4>3. QED BY <4>1, <4>2
    <3>4. QED BY <1>0, <1>t, <3>2, <3>3 DEF InvAt
  <2>2. CASE u # t
    <3>1. CounterOf(u) # t BY <2>2 DEF OwnCounter
    <3>2. /\ inflight'[t] = inflight[t] /\ changed'[t] = changed[t]
          /\ counter'[t] = counter[t] /\ stranded'[t] = stranded[t]
          /\ total' = total /\ taken' = taken /\ dropped' = dropped /\ unread' = unread
      BY <1>2, <2>2, <3>1 DEF Listener, CounterAfterListener, EventTypeOK
    <3>3. counter'[CounterOf(u)] \in Nat
      <4>1. CounterOf(u) \in EventTypes BY EventInfoAssumption
      <4>2. QED BY <1>2, <4>1 DEF Listener, CounterAfterListener, EventTypeOK
    <3>4. told'[t] >= told[t]
      BY <1>2, <3>3, <1>t DEF Listener, CounterAfterListener, EventTypeOK
    <3>5. told'[t] \in Nat
      BY <1>2, <3>3, <1>t DEF Listener, CounterAfterListener, EventTypeOK
    <3>6. QED BY <1>0, <1>t, <3>2, <3>4, <3>5 DEF InvAt
  <2>3. QED BY <2>1, <2>2
<1>3. ASSUME NEW u \in EventTypes, SetCallback(u) PROVE InvAt(t)'
  <2>1. CASE u = t
    BY <1>0, <1>t, <1>3, <2>1
    DEF SetCallback, ToldAfterSet, CounterAfterRead, EventTypeOK, InvAt
  <2>2. CASE u # t
    BY <1>0, <1>t, <1>3, <2>2
    DEF SetCallback, ToldAfterSet, CounterAfterRead, EventTypeOK, InvAt
  <2>3. QED BY <2>1, <2>2
<1>4. ASSUME NEW u \in EventTypes, ClearCallback(u) PROVE InvAt(t)'
  BY <1>0, <1>4 DEF ClearCallback, ddsVars, infoVars, historyVars, InvAt
<1>5. ASSUME NEW u \in EventTypes, TakeEvent(u) PROVE InvAt(t)'
  <2>1. CASE u = t
    BY <1>0, <1>t, <1>5, <2>1
    DEF TakeEvent, CounterAfterRead, GuardAfterTake, EventTypeOK, InvAt
  <2>2. CASE u # t
    BY <1>0, <1>t, <1>5, <2>2
    DEF TakeEvent, CounterAfterRead, GuardAfterTake, EventTypeOK, InvAt
  <2>3. QED BY <2>1, <2>2
<1>6. ASSUME NEW on \in BOOLEAN, SetMessageCallback(on) PROVE InvAt(t)'
  BY <1>0, <1>6 DEF SetMessageCallback, ddsVars, infoVars, historyVars, InvAt
<1>7. ASSUME NEW p \in Setters, WriteMask(p) PROVE InvAt(t)'
  BY <1>0, <1>7 DEF WriteMask, MaskAfter, ddsVars, InvAt
<1>8. ASSUME NEW p \in Setters, CopyMask(p) \/ InstallListener(p) PROVE InvAt(t)'
  BY <1>0, <1>8 DEF CopyMask, InstallListener, ddsVars, infoVars, InvAt
<1>9. endpoint.types \subseteq EventTypes BY TypesInPlay DEF EventTypeOK
<1>10. InvAt(t)'
  BY <1>1, <1>2, <1>3, <1>4, <1>5, <1>6, <1>7, <1>8, <1>9 DEF EventStep
<1>11. QED BY <1>10 DEF InvAt, OwnCounter

LEMMA EventInitInv == EventInit => EventInv
  BY DEF EventInit, EventInv, ChangesConserved, RecordedIsFlagged,
         DroppedOrRecordedWasTold

LEMMA EventNextInv ==
  EventTypeOK /\ EventInv /\ [EventNext]_eventVars => EventInv'
<1> SUFFICES ASSUME EventTypeOK, EventInv, [EventNext]_eventVars,
                    NEW t \in EventTypes
             PROVE  InvAt(t)'
  BY EventInvByTypePrime
<1>0. InvAt(t) BY EventInvByType
<1>1. CASE EventStep BY <1>0, <1>1, EventStepInvAt
<1>2. ASSUME NEW checked \in SUBSET EventTypes, CheckStatus(checked)
      PROVE  InvAt(t)'
  BY <1>0, <1>2 DEF CheckStatus, ddsVars, historyVars, InvAt
<1>3. CASE UNCHANGED eventVars
  BY <1>0, <1>3 DEF eventVars, ddsVars, infoVars, historyVars, InvAt
<1>4. endpoint.types \subseteq EventTypes BY TypesInPlay DEF EventTypeOK
<1>5. QED BY <1>1, <1>2, <1>3, <1>4 DEF EventNext

LEMMA EventInvImpliesTold == EventTypeOK /\ EventInv => DroppedWasTold
<1> SUFFICES ASSUME EventTypeOK, EventInv, NEW t \in EventTypes, OwnCounter(t)
             PROVE  dropped[t] <= told[t] + stranded[t]
  BY DEF DroppedWasTold
<1>1. dropped[t] + counter[t] <= told[t] + stranded[t]
  BY DEF EventInv, DroppedOrRecordedWasTold
<1>2. /\ dropped[t] \in Nat /\ counter[t] \in Nat /\ told[t] \in Nat
      /\ stranded[t] \in Nat
  BY DEF EventTypeOK
<1>3. QED BY <1>1, <1>2

LEMMA EventInvariant == EventSpec => [](EventTypeOK /\ EventInv)
<1>1. EventInit => EventTypeOK /\ EventInv
  BY EventInitTypeOK, EventInitInv
<1>2. (EventTypeOK /\ EventInv) /\ [EventNext]_eventVars => (EventTypeOK /\ EventInv)'
  BY EventNextTypeOK, EventNextInv
<1>3. QED BY <1>1, <1>2, PTL DEF EventSpec

\* Listeners, callback installations and takes count every change of a status
\* exactly once, whatever their order.
THEOREM ChangesAreConserved == EventSpec => []ChangesConserved
<1>1. EventTypeOK /\ EventInv => ChangesConserved BY DEF EventInv
<1>2. QED BY <1>1, EventInvariant, PTL

\* get_status finds every recorded count flagged, and so never overwrites one.
THEOREM RecordedChangesAreFlagged == EventSpec => []RecordedIsFlagged
<1>1. EventTypeOK /\ EventInv => RecordedIsFlagged BY DEF EventInv
<1>2. QED BY <1>1, EventInvariant, PTL

\* The changes that the installation of a callback throws away were told to a
\* callback, but for those a listener recorded without one.
THEOREM DroppedChangesWereTold == EventSpec => []DroppedWasTold
  BY EventInvImpliesTold, EventInvariant, PTL

-----------------------------------------------------------------------------
(* The two statuses that share the liveliness_lost counter.                  *)

\* The changes of the two statuses and where they are, without the quantifier.
Both(f) == f["liveliness_lost"] + f["offered_deadline_missed"]
SharedInv ==
  Both(total) = Both(taken) + Both(dropped) + Both(counter) + Both(inflight)
                  + Both(unread)

LEMMA SharedStep ==
  ASSUME EventTypeOK, "offered_deadline_missed" \in EventTypes, SharedInv, EventStep
  PROVE  SharedInv'
<1> DEFINE l == "liveliness_lost"
           d == "offered_deadline_missed"
<1>0. CounterOf(d) = l /\ CounterOf(l) = l /\ l \in EventTypes /\ d \in EventTypes
  BY EventInfoAssumption DEF CounterOf
<1>t. \A t \in EventTypes :
        /\ total[t] \in Nat /\ taken[t] \in Nat /\ dropped[t] \in Nat
        /\ counter[t] \in Nat /\ inflight[t] \in Nat /\ unread[t] \in Nat
  BY DEF EventTypeOK
<1>1. ASSUME NEW u \in EventTypes, StatusChange(u) PROVE SharedInv'
  <2>1. UNCHANGED <<taken, dropped, counter>> BY <1>1 DEF StatusChange, infoVars
  <2>2. \A t \in EventTypes :
          /\ total'[t] \in Nat /\ inflight'[t] \in Nat /\ unread'[t] \in Nat
          /\ total'[t] + inflight[t] + unread[t] = total[t] + inflight'[t] + unread'[t]
    <3> SUFFICES ASSUME NEW t \in EventTypes
                 PROVE  /\ total'[t] \in Nat /\ inflight'[t] \in Nat /\ unread'[t] \in Nat
                        /\ total'[t] + inflight[t] + unread[t]
                             = total[t] + inflight'[t] + unread'[t]
      OBVIOUS
    <3>1. CASE u = t BY <1>t, <1>1, <3>1 DEF StatusChange, EventTypeOK
    <3>2. CASE u # t BY <1>t, <1>1, <3>2 DEF StatusChange, EventTypeOK
    <3>3. QED BY <3>1, <3>2
  <2>3. QED BY <1>0, <1>t, <2>1, <2>2 DEF SharedInv, Both
<1>2. ASSUME NEW u \in EventTypes, Listener(u) PROVE SharedInv'
  <2>1. UNCHANGED <<total, taken, dropped, unread>> BY <1>2 DEF Listener
  <2>2. /\ inflight' = [inflight EXCEPT ![u] = 0]
        /\ counter' = [counter EXCEPT ![CounterOf(u)] = @ + inflight[u]]
    BY <1>2 DEF Listener, CounterAfterListener
  <2>3. CASE u \in {l, d}
    BY <1>0, <1>t, <2>1, <2>2, <2>3 DEF SharedInv, Both, EventTypeOK
  <2>4. CASE u \notin {l, d}
    <3>1. CounterOf(u) = u BY <2>4 DEF CounterOf
    <3>2. QED BY <1>0, <2>1, <2>2, <2>4, <3>1 DEF SharedInv, Both, EventTypeOK
  <2>5. QED BY <2>3, <2>4
<1>3. ASSUME NEW u \in EventTypes, SetCallback(u) PROVE SharedInv'
  <2>1. /\ UNCHANGED <<total, taken, inflight>>
        /\ dropped' = [dropped EXCEPT ![u] = @ + counter[u] + unread[u]]
        /\ counter' = [counter EXCEPT ![u] = 0]
        /\ unread' = [unread EXCEPT ![u] = 0]
    BY <1>3 DEF SetCallback, CounterAfterRead
  <2>2. QED
    <3>1. CASE u = l BY <1>0, <1>t, <2>1, <3>1 DEF SharedInv, Both, EventTypeOK
    <3>2. CASE u = d BY <1>0, <1>t, <2>1, <3>2 DEF SharedInv, Both, EventTypeOK
    <3>3. CASE u \notin {l, d} BY <1>0, <1>t, <2>1, <3>3 DEF SharedInv, Both, EventTypeOK
    <3>4. QED BY <3>1, <3>2, <3>3
<1>4. ASSUME NEW u \in EventTypes, ClearCallback(u) PROVE SharedInv'
  BY <1>4 DEF ClearCallback, ddsVars, infoVars, historyVars, SharedInv, Both
<1>5. ASSUME NEW u \in EventTypes, TakeEvent(u) PROVE SharedInv'
  <2>1. /\ UNCHANGED <<total, inflight>>
        /\ counter' = [counter EXCEPT ![u] = 0]
    BY <1>5 DEF TakeEvent, CounterAfterRead
  <2>2. CASE changed[u]
    <3>1. /\ taken' = [taken EXCEPT ![u] = @ + counter[u]]
          /\ UNCHANGED <<unread, dropped>>
      BY <1>5, <2>2 DEF TakeEvent
    <3>2. QED
      <4>1. CASE u = l BY <1>0, <1>t, <2>1, <3>1, <4>1 DEF SharedInv, Both, EventTypeOK
      <4>2. CASE u = d BY <1>0, <1>t, <2>1, <3>1, <4>2 DEF SharedInv, Both, EventTypeOK
      <4>3. CASE u \notin {l, d} BY <1>0, <1>t, <2>1, <3>1, <4>3 DEF SharedInv, Both, EventTypeOK
      <4>4. QED BY <4>1, <4>2, <4>3
  <2>3. CASE ~changed[u]
    <3>1. /\ taken' = [taken EXCEPT ![u] = @ + unread[u]]
          /\ dropped' = [dropped EXCEPT ![u] = @ + counter[u]]
          /\ unread' = [unread EXCEPT ![u] = 0]
      BY <1>5, <2>3 DEF TakeEvent
    <3>2. QED
      <4>1. CASE u = l BY <1>0, <1>t, <2>1, <3>1, <4>1 DEF SharedInv, Both, EventTypeOK
      <4>2. CASE u = d BY <1>0, <1>t, <2>1, <3>1, <4>2 DEF SharedInv, Both, EventTypeOK
      <4>3. CASE u \notin {l, d} BY <1>0, <1>t, <2>1, <3>1, <4>3 DEF SharedInv, Both, EventTypeOK
      <4>4. QED BY <4>1, <4>2, <4>3
  <2>4. QED BY <2>2, <2>3
<1>6. ASSUME NEW on \in BOOLEAN, SetMessageCallback(on) PROVE SharedInv'
  BY <1>6 DEF SetMessageCallback, ddsVars, infoVars, historyVars, SharedInv, Both
<1>7. ASSUME NEW p \in Setters, WriteMask(p) PROVE SharedInv'
  BY <1>7 DEF WriteMask, ddsVars, SharedInv, Both
<1>8. ASSUME NEW p \in Setters, CopyMask(p) \/ InstallListener(p) PROVE SharedInv'
  BY <1>8 DEF CopyMask, InstallListener, ddsVars, infoVars, SharedInv, Both
<1>9. endpoint.types \subseteq EventTypes BY TypesInPlay DEF EventTypeOK
<1>10. QED
  BY <1>1, <1>2, <1>3, <1>4, <1>5, <1>6, <1>7, <1>8, <1>9 DEF EventStep

\* The listener that adds to another event's counter loses no change either:
\* the two statuses together conserve theirs.
THEOREM SharedCountIsConserved == EventSpec => []SharedCountConserved
<1>1. SharedCountConserved <=> ("offered_deadline_missed" \in EventTypes => SharedInv)
  BY DEF SharedCountConserved, SharedInv, Both
<1>2. EventInit => SharedCountConserved
  <2> SUFFICES ASSUME EventInit, "offered_deadline_missed" \in EventTypes
               PROVE  SharedInv
    BY <1>1
  <2>1. "liveliness_lost" \in EventTypes BY EventInfoAssumption DEF CounterOf
  <2>2. QED BY <2>1 DEF EventInit, SharedInv, Both
<1>3. EventTypeOK /\ SharedCountConserved /\ [EventNext]_eventVars
        => SharedCountConserved'
  <2> SUFFICES ASSUME EventTypeOK, [EventNext]_eventVars, SharedInv,
                      "offered_deadline_missed" \in EventTypes
               PROVE  SharedInv'
    BY DEF SharedCountConserved, SharedInv, Both
  <2>1. CASE EventStep BY <2>1, SharedStep
  <2>2. ASSUME NEW checked \in SUBSET EventTypes, CheckStatus(checked)
        PROVE  SharedInv'
    BY <2>2 DEF CheckStatus, ddsVars, historyVars, SharedInv, Both
  <2>3. CASE UNCHANGED eventVars
    BY <2>3 DEF eventVars, ddsVars, infoVars, historyVars, SharedInv, Both
  <2>4. endpoint.types \subseteq EventTypes BY TypesInPlay DEF EventTypeOK
  <2>5. QED BY <2>1, <2>2, <2>3, <2>4 DEF EventNext
<1>4. QED BY <1>2, <1>3, EventTypeCorrect, PTL DEF EventSpec
-----------------------------------------------------------------------------
(* The mask, the callbacks and what DDS was told.  ListenerMatchesCallbacks  *)
(* speaks of the moments when no setter is under way; between them, a setter *)
(* of a reader has yet to copy the mask, or holds a copy that may be old.    *)

\* The bits whose mask and callback differ were overwritten by the other setter.
MaskIsCallbacks == Differ(mask, callback) \subseteq clobbered
\* A copy that is not known to be old is the mask.
CopyIsFresh ==
  \A p \in Setters : setter[p].step = "install" /\ p \notin older => setter[p].seen = mask
\* DDS has the mask, or will be told of it, or the last it was told is outdated.
Pending(p) ==
  setter[p].step = "copy" \/ (setter[p].step = "install" /\ p \notin older)
DdsHasMask == installed = mask \/ outdated \/ \E p \in Setters : Pending(p)

MaskInv == MaskIsCallbacks /\ CopyIsFresh /\ DdsHasMask

LEMMA EventInitMask == EventInit => MaskInv
  BY DEF EventInit, MaskInv, MaskIsCallbacks, CopyIsFresh, DdsHasMask, Differ, SetterIdle

\* A step that leaves the masks, and every setter that is past its read of mask,
\* as they are.
LEMMA SettersKeepMask ==
  ASSUME MaskInv,
         UNCHANGED <<mask, callback, installed, clobbered, older, outdated>>,
         \A p \in Setters : setter'[p] = setter[p]
                            \/ (setter[p].step = "idle" /\ setter'[p].step = "write")
  PROVE  MaskInv'
<1>1. MaskIsCallbacks' BY DEF MaskInv, MaskIsCallbacks, Differ
<1>2. CopyIsFresh' BY DEF MaskInv, CopyIsFresh
<1>3. DdsHasMask' BY DEF MaskInv, DdsHasMask, Pending
<1>4. QED BY <1>1, <1>2, <1>3 DEF MaskInv

LEMMA WriteKeepsMask ==
  ASSUME EventTypeOK, MaskInv, NEW p \in Setters, WriteMask(p)
  PROVE  MaskInv'
<1> DEFINE s == setter[p]
<1>1. setter \in [Setters -> SetterState] BY DEF EventTypeOK
<1>2. setter'[p].step = "copy" /\ \A q \in Setters \ {p} : setter'[q] = setter[q]
  BY <1>1 DEF WriteMask, SetterState
<1>3. MaskIsCallbacks'
  <2>1. /\ mask' = IF s.on THEN s.seen \cup {s.bit} ELSE s.seen \ {s.bit}
        /\ callback' = IF s.on THEN callback \cup {s.bit} ELSE callback \ {s.bit}
        /\ clobbered' = (clobbered \cup Differ(mask, s.seen)) \ {s.bit}
    BY DEF WriteMask, MaskAfter
  <2>2. Differ(mask, callback) \subseteq clobbered BY DEF MaskInv, MaskIsCallbacks
  <2>3. SUFFICES ASSUME NEW b \in Differ(mask', callback') PROVE b \in clobbered'
    BY DEF MaskIsCallbacks
  <2>4. b # s.bit BY <2>1 DEF Differ
  <2>5. b \in Differ(s.seen, callback) BY <2>1, <2>4 DEF Differ
  <2>6. b \in Differ(mask, s.seen) \/ b \in Differ(mask, callback) BY <2>5 DEF Differ
  <2>7. QED BY <2>1, <2>2, <2>4, <2>6
<1>4. CopyIsFresh'
  <2>1. older' = {q \in Setters : setter[q].step = "install"} BY DEF WriteMask
  <2>2. QED BY <1>2, <2>1 DEF CopyIsFresh
<1>5. DdsHasMask' BY <1>2 DEF DdsHasMask, Pending
<1>6. QED BY <1>3, <1>4, <1>5 DEF MaskInv

LEMMA CopyKeepsMask ==
  ASSUME EventTypeOK, MaskInv, NEW p \in Setters, CopyMask(p)
  PROVE  MaskInv'
<1>1. setter \in [Setters -> SetterState] BY DEF EventTypeOK
<1>2. /\ setter'[p].step = "install" /\ setter'[p].seen = mask
      /\ \A q \in Setters \ {p} : setter'[q] = setter[q]
      /\ older' = older \ {p}
  BY <1>1 DEF CopyMask, SetterState
<1>3. UNCHANGED <<mask, callback, clobbered>> BY DEF CopyMask, infoVars
<1>4. MaskIsCallbacks' BY <1>3 DEF MaskInv, MaskIsCallbacks, Differ
<1>5. CopyIsFresh' BY <1>2, <1>3 DEF MaskInv, CopyIsFresh
<1>6. DdsHasMask' BY <1>2 DEF DdsHasMask, Pending
<1>7. QED BY <1>4, <1>5, <1>6 DEF MaskInv

LEMMA InstallKeepsMask ==
  ASSUME EventTypeOK, MaskInv, NEW p \in Setters, InstallListener(p)
  PROVE  MaskInv'
<1>1. setter \in [Setters -> SetterState] BY DEF EventTypeOK
<1>2. /\ setter'[p].step = "idle"
      /\ \A q \in Setters \ {p} : setter'[q] = setter[q]
      /\ older' = older \ {p}
  BY <1>1 DEF InstallListener, SetterIdle
<1>3. UNCHANGED <<mask, callback, clobbered>> BY DEF InstallListener, infoVars
<1>4. MaskIsCallbacks' BY <1>3 DEF MaskInv, MaskIsCallbacks, Differ
<1>5. CopyIsFresh' BY <1>2, <1>3 DEF MaskInv, CopyIsFresh
<1>6. DdsHasMask'
  <2>1. outdated' \/ (installed' = setter[p].seen /\ p \notin older)
    BY DEF InstallListener
  <2>2. setter[p].step = "install" BY DEF InstallListener
  <2>3. p \notin older => setter[p].seen = mask BY <2>2 DEF MaskInv, CopyIsFresh
  <2>4. QED BY <1>3, <2>1, <2>3 DEF DdsHasMask
<1>7. QED BY <1>4, <1>5, <1>6 DEF MaskInv

LEMMA EventNextMask ==
  EventTypeOK /\ MaskInv /\ [EventNext]_eventVars => MaskInv'
<1> SUFFICES ASSUME EventTypeOK, MaskInv, [EventNext]_eventVars PROVE MaskInv'
  OBVIOUS
<1>t. setter \in [Setters -> SetterState] BY DEF EventTypeOK
<1>u. ASSUME UNCHANGED <<mask, callback, installed, raceVars, setter>> PROVE MaskInv'
  BY <1>u, SettersKeepMask DEF raceVars
<1>1. ASSUME NEW t, StatusChange(t) \/ Listener(t) \/ TakeEvent(t) PROVE MaskInv'
  BY <1>1, <1>u DEF StatusChange, Listener, TakeEvent, infoVars
<1>2. ASSUME NEW t, SetCallback(t) \/ ClearCallback(t) PROVE MaskInv'
  <2>1. /\ UNCHANGED <<mask, callback, installed, clobbered, older, outdated>>
        /\ setter["event"].step = "idle"
    BY <1>2 DEF SetCallback, ClearCallback, EventMutexFree, ddsVars, infoVars,
                historyVars, raceVars
  <2>2. /\ setter'["event"].step = "write"
        /\ \A q \in Setters \ {"event"} : setter'[q] = setter[q]
    BY <1>t, <1>2, EventSetter DEF SetCallback, ClearCallback
  <2>3. QED BY <2>1, <2>2, SettersKeepMask
<1>3. ASSUME NEW on, SetMessageCallback(on) PROVE MaskInv'
  <2>1. /\ UNCHANGED <<mask, callback, installed, clobbered, older, outdated>>
        /\ setter["message"].step = "idle"
    BY <1>3 DEF SetMessageCallback, ddsVars, infoVars, historyVars, raceVars
  <2>2. /\ setter'["message"].step = "write"
        /\ \A q \in Setters \ {"message"} : setter'[q] = setter[q]
    BY <1>t, <1>3, EventSetter DEF SetMessageCallback
  <2>3. QED BY <2>1, <2>2, SettersKeepMask
<1>4. ASSUME NEW p \in Setters, WriteMask(p) \/ CopyMask(p) \/ InstallListener(p)
      PROVE  MaskInv'
  BY <1>4, WriteKeepsMask, CopyKeepsMask, InstallKeepsMask
<1>5. ASSUME NEW checked, CheckStatus(checked) PROVE MaskInv'
  BY <1>5, <1>u DEF CheckStatus, ddsVars, historyVars
<1>6. CASE UNCHANGED eventVars
  BY <1>6, <1>u DEF eventVars, ddsVars, infoVars, historyVars
<1>7. QED
  BY <1>1, <1>2, <1>3, <1>4, <1>5, <1>6 DEF EventNext, EventStep

\* Whatever the interleaving of the two setters of a reader, DDS notifies the
\* statuses that have a callback, but for what a failed set_listener call, an old
\* copy installed last, or a setter that overwrote the other's update can explain.
THEOREM ListenerFollowsCallbacks == EventSpec => []ListenerMatchesCallbacks
<1>1. MaskInv => ListenerMatchesCallbacks
  BY DEF MaskInv, MaskIsCallbacks, DdsHasMask, Pending, ListenerMatchesCallbacks
<1>2. QED BY <1>1, EventInitMask, EventNextMask, EventTypeCorrect, PTL DEF EventSpec

-----------------------------------------------------------------------------
(* Guard conditions that are triggered with no recorded change.              *)

BecomesSpurious(t) == ~Spurious(t) /\ Spurious(t)'
InstallsOver(t) == setter["event"]'.step = "write" /\ setter["event"]'.bit = t

LEMMA SpuriousStep ==
  ASSUME EventTypeOK, [EventNext]_eventVars, NEW t \in EventTypes,
         BecomesSpurious(t)
  PROVE  InstallsOver(t)
<1>t. changed \in [EventTypes -> BOOLEAN] /\ trigger \in [EventTypes -> BOOLEAN]
  BY DEF EventTypeOK
<1>s. trigger[t]' /\ ~changed[t]' /\ (~trigger[t] \/ changed[t])
  BY DEF BecomesSpurious, Spurious
<1>u. ~UNCHANGED <<changed, trigger>>
  BY <1>s
<1>1. ASSUME NEW u \in EventTypes, Listener(u) PROVE FALSE
  <2>1. /\ changed' = [changed EXCEPT ![u] = TRUE]
        /\ trigger' = [trigger EXCEPT ![u] = TRUE]
    BY <1>1 DEF Listener
  <2>2. CASE u = t BY <1>t, <1>s, <2>1, <2>2
  <2>3. CASE u # t BY <1>t, <1>s, <2>1, <2>3
  <2>4. QED BY <2>2, <2>3
<1>2. ASSUME NEW u \in EventTypes, SetCallback(u) PROVE InstallsOver(t)
  <2>1. /\ changed' = [changed EXCEPT ![u] = FALSE]
        /\ trigger' = trigger
    BY <1>2 DEF SetCallback
  <2>2. u = t BY <1>t, <1>s, <2>1
  <2>3. /\ setter'["event"].step = "write"
        /\ setter'["event"].bit = u
    BY <1>2, EventSetter DEF SetCallback, EventTypeOK
  <2>4. QED BY <2>2, <2>3 DEF InstallsOver
<1>3. ASSUME NEW u \in EventTypes, TakeEvent(u) PROVE FALSE
  <2>1. /\ changed' = [changed EXCEPT ![u] = FALSE]
        /\ trigger' = [trigger EXCEPT ![u] = FALSE]
    BY <1>3 DEF TakeEvent, GuardAfterTake
  <2>2. CASE u = t BY <1>t, <1>s, <2>1, <2>2
  <2>3. CASE u # t BY <1>t, <1>s, <2>1, <2>3
  <2>4. QED BY <2>2, <2>3
<1>4. ASSUME NEW checked \in SUBSET EventTypes, CheckStatus(checked) PROVE FALSE
  <2>1. changed' = changed /\ trigger' = TriggerAfterCheck(checked)
    BY <1>4 DEF CheckStatus
  <2>2. trigger'[t] => trigger[t] BY <2>1 DEF TriggerAfterCheck
  <2>3. QED BY <1>s, <2>1, <2>2
<1>5. ASSUME NEW u \in EventTypes, StatusChange(u) \/ ClearCallback(u) PROVE FALSE
  BY <1>5, <1>u DEF StatusChange, ClearCallback, infoVars
<1>6. ASSUME NEW on \in BOOLEAN, SetMessageCallback(on) PROVE FALSE
  BY <1>6, <1>u DEF SetMessageCallback, infoVars
<1>7. ASSUME NEW p \in Setters, WriteMask(p) \/ CopyMask(p) \/ InstallListener(p) PROVE FALSE
  BY <1>7, <1>u DEF WriteMask, CopyMask, InstallListener, infoVars
<1>8. ASSUME UNCHANGED eventVars PROVE FALSE
  BY <1>8, <1>u DEF eventVars, infoVars
<1>9. endpoint.types \subseteq EventTypes BY TypesInPlay DEF EventTypeOK
<1>10. QED
  BY <1>1, <1>2, <1>3, <1>4, <1>5, <1>6, <1>7, <1>8, <1>9 DEF EventNext, EventStep

\* Of all the places that touch a flag or a guard condition, only the
\* installation of a callback over a recorded change leaves the guard condition
\* triggered with nothing to take.
THEOREM OnlyInstallIsSpurious == EventSpec => SpuriousOnlyByInstall
<1>1. EventTypeOK /\ [EventNext]_eventVars
        => [\A t \in EventTypes :
              ~Spurious(t) /\ Spurious(t)' =>
                setter["event"]'.step = "write" /\ setter["event"]'.bit = t]_eventVars
  BY SpuriousStep DEF BecomesSpurious, InstallsOver
<1>2. QED BY <1>1, EventTypeCorrect, PTL DEF EventSpec, SpuriousOnlyByInstall
=============================================================================
