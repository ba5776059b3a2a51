----------------------------- MODULE EventInfo -----------------------------
(***************************************************************************)
(* The status events of one endpoint (event_info_common.cpp): a DDS status *)
(* changes, is either kept by DDS or handed to the endpoint's listener,    *)
(* and reaches the application through a callback, through rmw_wait and    *)
(* rmw_take_event, or through both.                                        *)
(*                                                                         *)
(* Threads: the DDS thread that runs the on_xxx listeners, the application *)
(* threads that install callbacks and take events (all serialised by       *)
(* mutex_event), and, for a reader, the thread in                          *)
(* rmw_subscription_set_on_new_message_callback, which writes the same     *)
(* "mask" field under ANOTHER mutex (event_callback_data.mutex).           *)
(*                                                                         *)
(* The status is abstracted to its total_count_change.  The DDS side       *)
(* (StatusChange) is external: a status whose bit is in the listener mask  *)
(* goes to the listener with everything not read before, any other status  *)
(* is kept by DDS, flagged, until it is read.                              *)
(***************************************************************************)
EXTENDS Integers, Functions

CONSTANTS Endpoints,    \* the endpoints in play, of which a behaviour has one
          MaxChanges    \* per event type, the bound on the changes of its status

\* An endpoint is its kind, the event types whose status may change, and the bits
\* that are ever given a callback.
EventTypes == UNION {e.types : e \in Endpoints}

\* event_converter.cpp, without the two INCOMPATIBLE_TYPE events, whose status
\* belongs to the topic and goes through TopicEventListener.
WriterEvents == {"liveliness_lost", "offered_deadline_missed",
                 "offered_qos_incompatible", "publication_matched"}
ReaderEvents == {"liveliness_changed", "requested_deadline_missed",
                 "requested_qos_incompatible", "message_lost",
                 "subscription_matched"}

DataAvailable == "data_available"
StatusBits == EventTypes \cup {DataAvailable}

\* The counter a listener adds to: on_offered_deadline_missed adds to the
\* liveliness_lost counter, every other listener to its own.
CounterOf(t) ==
  IF t = "offered_deadline_missed" THEN "liveliness_lost" ELSE t

ASSUME EventInfoAssumption ==
  /\ \A e \in Endpoints :
       \/ /\ e.kind = "publisher"
          /\ e.types \subseteq WriterEvents
          /\ e.callbacks \subseteq e.types
       \/ /\ e.kind = "subscription"
          /\ e.types \subseteq ReaderEvents
          /\ e.callbacks \subseteq e.types \cup {DataAvailable}
  /\ \A t \in EventTypes : CounterOf(t) \in EventTypes
  /\ MaxChanges \in [EventTypes -> Nat]

\* The callback a listener calls: on_requested_deadline_missed calls the one
\* of RMW_EVENT_LIVELINESS_CHANGED, every other listener its own.
CallbackOf(t) ==
  IF t = "requested_deadline_missed" THEN "liveliness_changed" ELSE t

\* is_status_changed of a SubscriberInfo has no case for MESSAGE_LOST: while a
\* callback is installed it answers FALSE before it looks at anything.
HasChangedCase(t) == t # "message_lost"

VARIABLES
  endpoint,   \* the PublisherInfo or SubscriberInfo
  unread,     \* DDS: changes of a status not read yet; its flag is unread > 0
  inflight,   \* DDS: changes handed to the listener that has not run yet
  installed,  \* DDS: the mask of the last set_listener call
  mask,       \* the "mask" field
  callback,   \* the bits with a callback in on_new_event_cb, event_callback_data
  changed,    \* the xxx_changed flags
  counter,    \* the total_count_change of the xxx_status fields
  trigger,    \* the trigger value of event_guard_cond
  setter,     \* where each setter thread is
  clobbered,  \* history: the bits of mask last written by a setter that had not
              \* seen their last update
  older,      \* history: the setters whose copy of mask is not the last one written
  outdated,   \* history: the last set_listener call failed or had an older mask
  total,      \* history: changes of a status so far
  told,       \* history: changes a callback was told of
  taken,      \* history: changes rmw_take_event returned
  dropped,    \* history: changes a callback installation discarded
  stranded    \* history: changes a listener recorded without its callback

ddsVars == <<unread, inflight, installed>>
infoVars == <<mask, callback, changed, counter, trigger>>
raceVars == <<clobbered, older, outdated>>
historyVars == <<raceVars, total, told, taken, dropped, stranded>>
eventVars == <<endpoint, ddsVars, infoVars, setter, historyVars>>

Setters == {"event", "message"}
SetterIdle == [step |-> "idle", bit |-> DataAvailable, on |-> FALSE, seen |-> {}]
SetterState == [step : {"idle", "write", "copy", "install"}, bit : StatusBits,
                on : BOOLEAN, seen : SUBSET StatusBits]

\* mutex_event is held from set_on_new_event_callback's first line to its last;
\* every other critical section of it is a single step.
EventMutexFree == setter["event"].step = "idle"

EventInit ==
  /\ endpoint \in Endpoints
  /\ unread = [t \in EventTypes |-> 0]
  /\ inflight = [t \in EventTypes |-> 0]
  /\ installed = {}
  /\ mask = {}
  /\ callback = {}
  /\ changed = [t \in EventTypes |-> FALSE]
  /\ counter = [t \in EventTypes |-> 0]
  /\ trigger = [t \in EventTypes |-> FALSE]
  /\ setter = [p \in Setters |-> SetterIdle]
  /\ clobbered = {} /\ older = {} /\ outdated = FALSE
  /\ total = [t \in EventTypes |-> 0]
  /\ told = [t \in EventTypes |-> 0]
  /\ taken = [t \in EventTypes |-> 0]
  /\ dropped = [t \in EventTypes |-> 0]
  /\ stranded = [t \in EventTypes |-> 0]

-----------------------------------------------------------------------------
\* External: a status changes.
StatusChange(t) ==
  /\ total[t] < MaxChanges[t]
  /\ total' = [total EXCEPT ![t] = @ + 1]
  /\ \/ /\ t \in installed
        /\ inflight' = [inflight EXCEPT ![t] = @ + unread[t] + 1]
        /\ unread' = [unread EXCEPT ![t] = 0]
     \/ /\ t \notin installed
        /\ unread' = [unread EXCEPT ![t] = @ + 1]
        /\ UNCHANGED inflight
  /\ UNCHANGED <<endpoint, installed, infoVars, setter, raceVars, told, taken, dropped,
                 stranded>>

\* total_count_change += of a listener.
CounterAfterListener(t) == [counter EXCEPT ![CounterOf(t)] = @ + inflight[t]]

\* on_<status>: the listener records the change, calls the callback with the
\* counter (not with the change), and triggers the guard condition.
Listener(t) ==
  LET n == inflight[t]
      b == CallbackOf(t)
  IN  /\ n > 0
      /\ EventMutexFree
      /\ inflight' = [inflight EXCEPT ![t] = 0]
      /\ changed' = [changed EXCEPT ![t] = TRUE]
      /\ counter' = CounterAfterListener(t)
      /\ told' = IF b \in callback
                 THEN [told EXCEPT ![b] = @ + counter'[CounterOf(t)]] ELSE told
      /\ stranded' = IF b = t /\ b \in callback
                     THEN stranded ELSE [stranded EXCEPT ![t] = @ + n]
      /\ trigger' = [trigger EXCEPT ![t] = TRUE]
      /\ UNCHANGED <<endpoint, unread, installed, mask, callback, setter, raceVars,
                     total, taken, dropped>>

\* A read of the status resets the recorded count; mutant: the count is kept.
CounterKept(t) == counter
CounterAfterRead(t) == [counter EXCEPT ![t] = 0]

\* A new callback is called with the changes DDS has; mutant: it is not called.
NothingTold(t) == told
ToldAfterSet(t) == [told EXCEPT ![t] = @ + unread[t]]

\* set_on_new_event_callback with a callback, up to the read of mask: the DDS
\* status overwrites the recorded one and the new callback is told of it.  The
\* guard condition keeps its trigger value.
SetCallback(t) ==
  /\ EventMutexFree
  /\ dropped' = [dropped EXCEPT ![t] = @ + counter[t] + unread[t]]
  /\ told' = ToldAfterSet(t)
  /\ counter' = CounterAfterRead(t)
  /\ unread' = [unread EXCEPT ![t] = 0]
  /\ changed' = [changed EXCEPT ![t] = FALSE]
  /\ setter' = [setter EXCEPT !["event"] =
                  [step |-> "write", bit |-> t, on |-> TRUE, seen |-> mask]]
  /\ UNCHANGED <<endpoint, inflight, installed, mask, callback, trigger, raceVars,
                 total, taken, stranded>>

\* set_on_new_event_callback without a callback, up to the read of mask.
ClearCallback(t) ==
  /\ EventMutexFree
  /\ setter' = [setter EXCEPT !["event"] =
                  [step |-> "write", bit |-> t, on |-> FALSE, seen |-> mask]]
  /\ UNCHANGED <<endpoint, ddsVars, infoVars, historyVars>>

\* rmw_subscription_set_on_new_message_callback, up to the read of mask.
SetMessageCallback(on) ==
  /\ setter["message"].step = "idle"
  /\ setter' = [setter EXCEPT !["message"] =
                  [step |-> "write", bit |-> DataAvailable, on |-> on,
                   seen |-> mask]]
  /\ UNCHANGED <<endpoint, ddsVars, infoVars, historyVars>>

\* The mask a setter writes; mutant: clearing a callback leaves its bit.
MaskOnlyGrows(s) == s.seen \cup {s.bit}
MaskAfter(s) == IF s.on THEN s.seen \cup {s.bit} ELSE s.seen \ {s.bit}

\* The bits in which two masks differ.
Differ(m, n) == (m \ n) \cup (n \ m)

\* "mask |= bit" or "mask &= ~bit" writes back what was read, and the callback
\* field is set or cleared.
WriteMask(p) ==
  LET s == setter[p]
  IN  /\ s.step = "write"
      /\ mask' = MaskAfter(s)
      /\ callback' = IF s.on THEN callback \cup {s.bit} ELSE callback \ {s.bit}
      /\ clobbered' = (clobbered \cup Differ(mask, s.seen)) \ {s.bit}
      /\ older' = {q \in Setters : setter[q].step = "install"}
      /\ setter' = [setter EXCEPT ![p].step = "copy"]
      /\ UNCHANGED <<endpoint, ddsVars, changed, counter, trigger, outdated, total, told,
                     taken, dropped, stranded>>

\* The mask that set_listener gets by value.
CopyMask(p) ==
  /\ setter[p].step = "copy"
  /\ setter' = [setter EXCEPT ![p].step = "install", ![p].seen = mask]
  /\ older' = older \ {p}
  /\ UNCHANGED <<endpoint, ddsVars, infoVars, clobbered, outdated, total, told, taken,
                 dropped, stranded>>

\* dds_DataWriter/DataReader_set_listener installs the copy or fails, and the mutex
\* is released.  Only the setter of the message callback returns the failure;
\* both leave mask and callback as they are.
InstallListener(p) ==
  /\ setter[p].step = "install"
  /\ \/ /\ installed' = setter[p].seen
        /\ outdated' = (p \in older)
     \/ /\ outdated' = TRUE
        /\ UNCHANGED installed
  /\ older' = older \ {p}
  /\ setter' = [setter EXCEPT ![p] = SetterIdle]
  /\ UNCHANGED <<endpoint, unread, inflight, infoVars, clobbered, total, told, taken,
                 dropped, stranded>>

\* get_status lowers the guard condition; mutant: it forgets to.
GuardKept(t) == trigger
GuardAfterTake(t) == [trigger EXCEPT ![t] = FALSE]

\* rmw_take_event: get_status returns the recorded status if one is flagged,
\* the DDS status otherwise, and resets the guard condition.
TakeEvent(t) ==
  /\ EventMutexFree
  /\ \/ /\ changed[t]
        /\ taken' = [taken EXCEPT ![t] = @ + counter[t]]
        /\ UNCHANGED <<unread, dropped>>
     \/ /\ ~changed[t]
        /\ taken' = [taken EXCEPT ![t] = @ + unread[t]]
        /\ dropped' = [dropped EXCEPT ![t] = @ + counter[t]]
        /\ unread' = [unread EXCEPT ![t] = 0]
  /\ changed' = [changed EXCEPT ![t] = FALSE]
  /\ counter' = CounterAfterRead(t)
  /\ trigger' = GuardAfterTake(t)
  /\ UNCHANGED <<endpoint, inflight, installed, mask, callback, setter, raceVars, total,
                 told, stranded>>

\* is_status_changed(t): its answer, and the trigger values it leaves behind.
HasCallback(t) == t \in mask
IsUnread(t) == unread[t] > 0   \* mutant: the recorded change is not looked at
IsStatusChanged(t) ==
  IF HasCallback(t) /\ ~HasChangedCase(t)
  THEN FALSE
  ELSE (HasCallback(t) /\ changed[t]) \/ unread[t] > 0
\* The checks of a list of events: one that answers for its recorded change
\* resets that event's guard condition.
TriggerAfterCheck(checked) ==
  [t \in EventTypes |->
     IF t \in checked /\ HasCallback(t) /\ HasChangedCase(t) /\ changed[t]
     THEN FALSE ELSE trigger[t]]
CheckStatus(checked) ==
  /\ EventMutexFree
  /\ trigger' = TriggerAfterCheck(checked)
  /\ UNCHANGED <<endpoint, ddsVars, mask, callback, changed, counter, setter, historyVars>>

\* Only a SubscriberInfo is given a callback for DATA_AVAILABLE.
EventStep ==
  \/ \E t \in endpoint.types : StatusChange(t) \/ Listener(t) \/ TakeEvent(t)
  \/ \E t \in endpoint.types \cap endpoint.callbacks : SetCallback(t) \/ ClearCallback(t)
  \/ DataAvailable \in endpoint.callbacks /\ \E on \in BOOLEAN : SetMessageCallback(on)
  \/ \E p \in Setters : WriteMask(p) \/ CopyMask(p) \/ InstallListener(p)

EventNext == EventStep \/ \E checked \in SUBSET endpoint.types : CheckStatus(checked)
EventSpec == EventInit /\ [][EventNext]_eventVars

-----------------------------------------------------------------------------
EventTypeOK ==
  /\ endpoint \in Endpoints
  /\ unread \in [EventTypes -> Nat]
  /\ inflight \in [EventTypes -> Nat]
  /\ installed \subseteq StatusBits
  /\ mask \subseteq StatusBits
  /\ callback \subseteq StatusBits
  /\ changed \in [EventTypes -> BOOLEAN]
  /\ counter \in [EventTypes -> Nat]
  /\ trigger \in [EventTypes -> BOOLEAN]
  /\ setter \in [Setters -> SetterState]
  /\ clobbered \subseteq StatusBits
  /\ older \subseteq Setters
  /\ outdated \in BOOLEAN
  /\ total \in [EventTypes -> Nat]
  /\ told \in [EventTypes -> Nat]
  /\ taken \in [EventTypes -> Nat]
  /\ dropped \in [EventTypes -> Nat]
  /\ stranded \in [EventTypes -> Nat]

\* The types whose counter no other listener adds to and whose own listener
\* does not add elsewhere: all but liveliness_lost and offered_deadline_missed
\* of a writer.
OwnCounter(t) ==
  /\ CounterOf(t) = t
  /\ \A u \in EventTypes : CounterOf(u) = t => u = t

\* Every change is counted exactly once: it was taken or discarded, or it is
\* with the endpoint, with the listener or with DDS.  A counter that is not
\* reset when it is handed out, or a status read twice, would break it.
ChangesConserved ==
  \A t \in EventTypes : OwnCounter(t) =>
    total[t] = taken[t] + dropped[t] + counter[t] + inflight[t] + unread[t]

\* on_offered_deadline_missed adds to the liveliness_lost counter, so the two
\* statuses conserve their changes only together: none is lost or counted twice.
SharedCountConserved ==
  LET both(f) == f["liveliness_lost"] + f["offered_deadline_missed"]
  IN  "offered_deadline_missed" \in EventTypes =>
        both(total) = both(taken) + both(dropped) + both(counter)
                        + both(inflight) + both(unread)

\* A change that no taker will ever see was told to a callback, unless the
\* listener had recorded it without telling its own callback (the callback was
\* cleared between the DDS dispatch and the listener's lock, or the listener
\* calls another event's callback).  The counter that get_status or a callback
\* installation overwrites is the one place where changes disappear.
DroppedWasTold ==
  \A t \in EventTypes : OwnCounter(t) => dropped[t] <= told[t] + stranded[t]

\* A recorded count is flagged, so that get_status returns it instead of
\* overwriting it with the DDS status.
RecordedIsFlagged ==
  \A t \in EventTypes : OwnCounter(t) /\ counter[t] > 0 => changed[t]

\* With no setter under way, DDS notifies exactly the statuses that have a
\* callback, unless its last set_listener call failed or came with a mask that the
\* other setter of a reader, which shares mask but no mutex, had already
\* replaced; a single bit may also differ because the other setter overwrote its
\* last update.  The next undisturbed call repairs the former, the next call for
\* that bit the latter.
ListenerMatchesCallbacks ==
  (\A p \in Setters : setter[p].step = "idle") /\ ~outdated =>
    Differ(installed, callback) \subseteq clobbered

\* Only installing a callback over a recorded change leaves the guard condition
\* triggered with no change behind it (rmw_wait then returns with nothing).
Spurious(t) == trigger[t] /\ ~changed[t]
SpuriousOnlyByInstall ==
  [][\A t \in EventTypes :
       ~Spurious(t) /\ Spurious(t)' =>
         setter["event"]'.step = "write" /\ setter["event"]'.bit = t]_eventVars
=============================================================================
