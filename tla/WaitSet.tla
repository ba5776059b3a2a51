------------------------------ MODULE WaitSet ------------------------------
(***************************************************************************)
(* rmw_wait (wait.cpp) over the subscriptions, guard conditions, services, *)
(* clients and events an executor passes to it, beside the threads that    *)
(* deliver data, trigger guard conditions, change statuses, install event  *)
(* callbacks and destroy and create entities.                              *)
(*                                                                         *)
(* The point of wait.cpp is a cache: the DDS wait set stays attached to the*)
(* conditions of the previous call and is rebuilt only when the arrays of  *)
(* POINTERS differ from the cached ones.  A handle below is such a pointer,*)
(* that is an address: an entity destroyed and another one created at its  *)
(* address have the same handle, and so have two rmw_event_t.              *)
(*                                                                         *)
(* External (GurumDDS): a condition is triggered while its reader has data *)
(* (ready), its guard is set, or an enabled status is unread; a condition  *)
(* that is deleted leaves the wait sets it was attached to.                *)
(* rcl's contract, on which wait.cpp relies: one thread at a time waits on *)
(* a wait set, and an entity is not destroyed while a wait uses it.        *)
(***************************************************************************)
EXTENDS EventInfo, Sequences

CONSTANTS WaitSets,   \* the rmw_wait_set_t
          Readers,    \* addresses of SubscriberInfo, ServiceInfo and ClientInfo
          Guards,     \* addresses of dds_GuardCondition
          EventObjects, \* addresses of the rmw_event_t of the endpoint
          ArgLists,   \* the arrays a call may pass, a set of Arrays
          Null,       \* a null array entry
          Polling,    \* the values of RMW_GURUMDDS_WAIT_USE_POLLING in play
          CanFail     \* the conditions whose attachment or reset may fail

Handles == Readers \cup Guards
StatusCondition == "status_condition"
Conditions == Handles \cup EventTypes \cup {StatusCondition}
Entries == Handles \cup EventObjects

\* The arrays in the order wait.cpp processes them; a null pointer to an array
\* and an array of count 0 are both <<>>.
HandleLists == {"subscriptions", "guard_conditions", "services", "clients"}
Arrays == [HandleLists \cup {"events"} -> Seq(Entries \cup {Null})]
NoArrays == [k \in HandleLists \cup {"events"} |-> <<>>]

HandlesIn(a) == (UNION {Range(a[k]) : k \in HandleLists}) \ {Null}
EventObjectsIn(a) == Range(a["events"])

\* A null event pointer is dereferenced by gather_event_conditions: callers
\* never pass one.
ASSUME WaitSetAssumption ==
  /\ Polling \subseteq BOOLEAN
  /\ StatusCondition \notin Handles \cup EventTypes
  /\ Handles \cap EventTypes = {}
  /\ EventObjects \cap Conditions = {}
  /\ EventObjects \cap StatusBits = {}
  /\ Readers \cap Guards = {}
  /\ Null \notin Conditions
  /\ ArgLists \subseteq Arrays
  /\ \A a \in ArgLists : HandlesIn(a) \subseteq Handles /\ EventObjectsIn(a) \subseteq EventObjects
  /\ CanFail \subseteq Conditions

VARIABLES
  polling,   \* wait_w_polling is used: read once from the environment
  alive,     \* the handles of existing entities
  typeOf,    \* the event type of each rmw_event_t
  ready,     \* the trigger value of the condition of each handle
  enabled,   \* enabled statuses of the endpoint's StatusCondition
  attached,  \* per wait set: the conditions attached to the dds_WaitSet
  cached,    \* per wait set: the cached_xxx vectors
  pc,        \* per wait set: where the call to wait() is
  args,      \* per wait set: the arrays passed to the call
  active,    \* per wait set: active_conditions
  toScan,    \* per wait set: the conditions wait_w_polling has yet to look at
  result,    \* per wait set: the return code of the last call
  out,       \* per wait set: the entries the last call left non-null
  stale,     \* history: what changed under a wait set since it was attached
  reported   \* history: events with a change that some wait has reported

callVars == <<pc, args, active, toScan, result, out>>
waitVars == <<polling, alive, typeOf, ready, enabled, attached, cached, callVars, stale, reported>>
vars == <<eventVars, waitVars>>

Init ==
  /\ EventInit
  /\ polling \in Polling
  /\ alive = Handles
  /\ typeOf \in [EventObjects -> endpoint.types]
  /\ ready = [h \in Handles |-> FALSE]
  /\ enabled = {}
  /\ attached = [w \in WaitSets |-> {}]
  /\ cached = [w \in WaitSets |-> NoArrays]
  /\ pc = [w \in WaitSets |-> "idle"]
  /\ args = [w \in WaitSets |-> NoArrays]
  /\ active = [w \in WaitSets |-> {}]
  /\ toScan = [w \in WaitSets |-> {}]
  /\ result = [w \in WaitSets |-> "NONE"]
  /\ out = [w \in WaitSets |-> {}]
  /\ stale = [w \in WaitSets |-> {}]
  /\ reported = {}

-----------------------------------------------------------------------------
(* The threads around the wait *)

InUse(h) == \E w \in WaitSets : pc[w] # "idle" /\ h \in HandlesIn(args[w])

\* External: a sample arrives, or the application takes the last one.
DataArrives(h) ==
  /\ h \in alive /\ ~ready[h]
  /\ ready' = [ready EXCEPT ![h] = TRUE]
  /\ UNCHANGED <<polling, eventVars, alive, typeOf, enabled, attached, cached, callVars, stale, reported>>
TakeLast(h) ==
  /\ h \in alive /\ ready[h]
  /\ ready' = [ready EXCEPT ![h] = FALSE]
  /\ UNCHANGED <<polling, eventVars, alive, typeOf, enabled, attached, cached, callVars, stale, reported>>

\* rmw_trigger_guard_condition
TriggerGuard(g) ==
  /\ g \in alive
  /\ ready' = [ready EXCEPT ![g] = TRUE]
  /\ UNCHANGED <<polling, eventVars, alive, typeOf, enabled, attached, cached, callVars, stale, reported>>

\* rmw_destroy_guard_condition, or the destruction of a reader, deletes the
\* condition.  No cache is told.
Destroy(h) ==
  /\ h \in alive /\ ~InUse(h)
  /\ alive' = alive \ {h}
  /\ ready' = [ready EXCEPT ![h] = FALSE]
  /\ attached' = [w \in WaitSets |-> attached[w] \ {h}]
  /\ UNCHANGED <<polling, eventVars, typeOf, enabled, cached, callVars, stale, reported>>

\* A new entity of the same kind at the same address, with a new condition.
Create(h) ==
  /\ h \notin alive
  /\ alive' = alive \cup {h}
  /\ stale' = [w \in WaitSets |-> stale[w] \cup {h}]
  /\ UNCHANGED <<polling, eventVars, typeOf, ready, enabled, attached, cached, callVars, reported>>

\* rmw_event_fini, and rmw_publisher_event_init or rmw_subscription_event_init of
\* an event of type t at the same address.
RenewEvent(e, t) ==
  /\ \A w \in WaitSets : pc[w] # "idle" => e \notin EventObjectsIn(args[w])
  /\ typeOf[e] # t
  /\ typeOf' = [typeOf EXCEPT ![e] = t]
  /\ stale' = [w \in WaitSets |-> stale[w] \cup {e}]
  /\ UNCHANGED <<polling, eventVars, alive, ready, enabled, attached, cached, callVars, reported>>

\* A step of the endpoint's events.  A callback that appears after a wait set
\* gathered its conditions is one more thing that wait set does not know of.
EventActivity ==
  /\ EventStep
  /\ stale' = [w \in WaitSets |-> stale[w] \cup (mask' \ mask)]
  /\ reported' = {t \in reported : changed'[t]}
  /\ UNCHANGED <<polling, alive, typeOf, ready, enabled, attached, cached, callVars>>

-----------------------------------------------------------------------------
(* wait() *)

\* check_reattached, over all the arrays; mutants: only arrays that grew count, only
\* the subscriptions are looked at.
NeedReattachIfGrown(w, a) ==
  \E k \in HandleLists \cup {"events"} : Len(cached[w][k]) < Len(a[k])
NeedReattachBySubscriptions(w, a) == cached[w]["subscriptions"] # a["subscriptions"]
NeedReattach(w, a) == cached[w] # a

\* The types of the events of a call.
EventsIn(a) == {typeOf[e] : e \in EventObjectsIn(a)}

\* gather_event_conditions: the guard conditions of the events with a callback,
\* and the endpoint's status condition; mutant: the latter is left out.
GatheredCallbacks(a) == {t \in EventsIn(a) : HasCallback(t)}
GatheredConditions(a) ==
  {t \in EventsIn(a) : HasCallback(t)}
    \cup (IF EventsIn(a) # {} THEN {StatusCondition} ELSE {})
ConditionsOf(a) == HandlesIn(a) \cup GatheredConditions(a)

\* The call up to the DDS wait: keep the attached conditions, or detach them all,
\* cache the arrays and attach their conditions.  The result of an attachment is
\* ignored; stale records the conditions that were not attached.
\* set_enabled_statuses belongs to the endpoint, so it also changes what other wait
\* sets are woken by.
Enter(w, a) ==
  /\ pc[w] = "idle"
  /\ HandlesIn(a) \subseteq alive
  /\ args' = [args EXCEPT ![w] = a]
  /\ \/ /\ NeedReattach(w, a)
        /\ EventsIn(a) = {} \/ EventMutexFree
        /\ cached' = [cached EXCEPT ![w] = a]
        /\ \E failed \in SUBSET (ConditionsOf(a) \cap CanFail) :
             /\ attached' = [attached EXCEPT ![w] = ConditionsOf(a) \ failed]
             /\ \/ /\ EventsIn(a) = {}
                   /\ stale' = [stale EXCEPT ![w] = failed]
                   /\ UNCHANGED enabled
                \/ /\ EventsIn(a) # {}
                   /\ enabled' = EventsIn(a)
                   /\ stale' = [v \in WaitSets |->
                                  IF v = w THEN failed
                                  ELSE stale[v] \cup (EventTypes \ EventsIn(a))]
     \/ /\ ~NeedReattach(w, a)
        /\ UNCHANGED <<attached, cached, enabled, stale>>
  /\ pc' = [pc EXCEPT ![w] = IF polling THEN "scan" ELSE "wait"]
  /\ active' = [active EXCEPT ![w] = {}]
  /\ toScan' = [toScan EXCEPT ![w] = IF polling THEN attached'[w] ELSE {}]
  /\ out' = [out EXCEPT ![w] = {}]
  /\ result' = [result EXCEPT ![w] = "NONE"]
  /\ UNCHANGED <<polling, eventVars, alive, typeOf, ready, reported>>

\* External: the trigger value of a condition.
Triggered(c) ==
  CASE c \in Handles -> ready[c]
    [] c \in EventTypes -> trigger[c]
    [] OTHER -> \E t \in enabled : unread[t] > 0
TriggeredIn(w) == {c \in attached[w] : Triggered(c)}

\* dds_WaitSet_wait returns the triggered conditions,
WaitReturns(w) ==
  /\ pc[w] = "wait"
  /\ TriggeredIn(w) # {}
  /\ active' = [active EXCEPT ![w] = TriggeredIn(w)]
  /\ pc' = [pc EXCEPT ![w] = "process"]
  /\ result' = [result EXCEPT ![w] = "OK"]
  /\ UNCHANGED <<polling, eventVars, alive, typeOf, ready, enabled, attached, cached, args, toScan,
                 out, stale, reported>>

\* or a timeout, after which every entry is set to null and the cache is kept,
WaitTimesOut(w) ==
  /\ pc[w] = "wait"
  /\ TriggeredIn(w) = {}
  /\ pc' = [pc EXCEPT ![w] = "idle"]
  /\ result' = [result EXCEPT ![w] = "TIMEOUT"]
  /\ UNCHANGED <<polling, eventVars, alive, typeOf, ready, enabled, attached, cached, args, active,
                 toScan, out, stale, reported>>

\* The scope exit of every error return: detach everything, clear the cache;
\* mutant: only the cached subscriptions are cleared.
ClearSubscriptionsOnError(w) ==
  /\ attached' = [attached EXCEPT ![w] = {}]
  /\ cached' = [cached EXCEPT ![w]["subscriptions"] = <<>>]
  /\ pc' = [pc EXCEPT ![w] = "idle"]
  /\ result' = [result EXCEPT ![w] = "ERROR"]
ClearOnError(w) ==
  /\ attached' = [attached EXCEPT ![w] = {}]
  /\ cached' = [cached EXCEPT ![w] = NoArrays]
  /\ pc' = [pc EXCEPT ![w] = "idle"]
  /\ result' = [result EXCEPT ![w] = "ERROR"]

\* or an error.
WaitFails(w) ==
  /\ pc[w] = "wait"
  /\ ClearOnError(w)
  /\ UNCHANGED <<polling, eventVars, alive, typeOf, ready, enabled, args, active, toScan, out, stale,
                 reported>>

\* wait_w_polling: one pass over all the conditions,
PollScan(w, c) ==
  /\ pc[w] = "scan"
  /\ c \in toScan[w]
  /\ toScan' = [toScan EXCEPT ![w] = @ \ {c}]
  /\ active' = IF Triggered(c) THEN [active EXCEPT ![w] = @ \cup {c}] ELSE active
  /\ UNCHANGED <<polling, eventVars, alive, typeOf, ready, enabled, attached, cached, pc, args, result,
                 out, stale, reported>>
PollScanned(w) ==
  /\ pc[w] = "scan"
  /\ toScan[w] = {}
  /\ \/ /\ active[w] # {}
        /\ pc' = [pc EXCEPT ![w] = "process"]
        /\ result' = [result EXCEPT ![w] = "OK"]
     \/ /\ active[w] = {}
        /\ pc' = [pc EXCEPT ![w] = "poll"]
        /\ UNCHANGED result
  /\ UNCHANGED <<polling, eventVars, alive, typeOf, ready, enabled, attached, cached, args, active,
                 toScan, out, stale, reported>>
\* then one condition after the other until the first that is triggered,
PollFinds(w, c) ==
  /\ pc[w] = "poll"
  /\ c \in attached[w] /\ Triggered(c)
  /\ active' = [active EXCEPT ![w] = {c}]
  /\ pc' = [pc EXCEPT ![w] = "process"]
  /\ result' = [result EXCEPT ![w] = "OK"]
  /\ UNCHANGED <<polling, eventVars, alive, typeOf, ready, enabled, attached, cached, args, toScan,
                 out, stale, reported>>
\* or the deadline.  The entries are then processed as after a wake-up.
PollExpires(w) ==
  /\ pc[w] = "poll"
  /\ pc' = [pc EXCEPT ![w] = "process"]
  /\ result' = [result EXCEPT ![w] = "TIMEOUT"]
  /\ UNCHANGED <<polling, eventVars, alive, typeOf, ready, enabled, attached, cached, args, active,
                 toScan, out, stale, reported>>

\* The entries that come before the first null one.
BeforeNull(s) ==
  {s[i] : i \in {j \in DOMAIN s : \A k \in 1..j : s[k] # Null}}

\* The guard conditions reset before the post-processing ends or meets a null
\* entry: those of the arrays before guard_conditions are already checked.
\* Mutant: the active conditions are not consulted.
ResetAllGuards(w) == BeforeNull(args[w]["guard_conditions"])
ResetGuards(w) ==
  IF Null \in Range(args[w]["subscriptions"]) THEN {}
  ELSE BeforeNull(args[w]["guard_conditions"]) \cap active[w]

HasNull(a) == \E k \in HandleLists : Null \in Range(a[k])

\* The guard conditions reset before set_trigger_value fails for the i-th one.
GuardArray(w) == args[w]["guard_conditions"]
ResetBefore(w, i) == {GuardArray(w)[j] : j \in 1..(i - 1)} \cap active[w]
ResetMayFail(w, i) ==
  /\ Null \notin Range(args[w]["subscriptions"])
  /\ GuardArray(w)[i] \in active[w] \cap CanFail
  /\ \A j \in 1..i : GuardArray(w)[j] # Null

\* The post-processing of the four handle arrays: it meets a null entry, fails to
\* reset a guard condition, or ends.
Process(w) ==
  /\ pc[w] = "process"
  /\ \/ /\ ready' = [h \in Handles |-> ready[h] /\ h \notin ResetGuards(w)]
        /\ \/ /\ HasNull(args[w])
              /\ ClearOnError(w)
              /\ UNCHANGED out
           \/ /\ ~HasNull(args[w])
              /\ out' = [out EXCEPT ![w] = HandlesIn(args[w]) \cap active[w]]
              /\ pc' = [pc EXCEPT ![w] = "events"]
              /\ UNCHANGED <<attached, cached, result>>
     \/ \E i \in DOMAIN GuardArray(w) :
          /\ ResetMayFail(w, i)
          /\ ready' = [h \in Handles |-> ready[h] /\ h \notin ResetBefore(w, i)]
          /\ ClearOnError(w)
          /\ UNCHANGED out
  /\ UNCHANGED <<polling, eventVars, alive, typeOf, enabled, args, active, toScan, stale, reported>>

\* handle_active_event_conditions, and the return.
ProcessEvents(w) ==
  LET es == EventsIn(args[w])
      hits == {t \in es : IsStatusChanged(t)}
  IN  /\ pc[w] = "events"
      /\ IF es = {} THEN UNCHANGED eventVars ELSE CheckStatus(es)
      /\ out' = [out EXCEPT ![w] = @ \cup {e \in EventObjectsIn(args[w]) : typeOf[e] \in hits}]
      /\ reported' = {t \in reported \cup hits : changed[t]}
      /\ pc' = [pc EXCEPT ![w] = "idle"]
      /\ UNCHANGED <<polling, alive, typeOf, ready, enabled, attached, cached, args, active, toScan,
                     result, stale>>

\* rmw_destroy_wait_set, and rmw_create_wait_set at the same address.
RenewWaitSet(w) ==
  /\ pc[w] = "idle"
  /\ attached' = [attached EXCEPT ![w] = {}]
  /\ cached' = [cached EXCEPT ![w] = NoArrays]
  /\ result' = [result EXCEPT ![w] = "NONE"]
  /\ out' = [out EXCEPT ![w] = {}]
  /\ UNCHANGED <<polling, eventVars, alive, typeOf, ready, enabled, pc, args, active, toScan, stale, reported>>

WaitStep(w) ==
  \/ \E a \in ArgLists : Enter(w, a)
  \/ WaitReturns(w)
  \/ WaitTimesOut(w)
  \/ WaitFails(w)
  \/ \E c \in Conditions : PollScan(w, c) \/ PollFinds(w, c)
  \/ PollScanned(w)
  \/ PollExpires(w)
  \/ Process(w)
  \/ ProcessEvents(w)

Next ==
  \/ \E h \in Readers : DataArrives(h) \/ TakeLast(h)
  \/ \E g \in Guards : TriggerGuard(g)
  \/ \E h \in Handles : Destroy(h) \/ Create(h)
  \/ \E e \in EventObjects, t \in endpoint.types : RenewEvent(e, t)
  \/ EventActivity
  \/ \E w \in WaitSets : WaitStep(w) \/ RenewWaitSet(w)

Spec == Init /\ [][Next]_vars

\* The steps of a call are those of a running thread: a DDS wait returns once it
\* stays triggered, a poll sees a condition that stays triggered.  Calling wait,
\* its timeout and everything around it may never happen.
Fairness ==
  \A w \in WaitSets :
    /\ WF_vars(WaitReturns(w))
    /\ WF_vars(\E c \in Conditions : PollScan(w, c))
    /\ WF_vars(PollScanned(w))
    /\ WF_vars(\E c \in Conditions : PollFinds(w, c))
    /\ WF_vars(Process(w))
    /\ WF_vars(ProcessEvents(w))
FairSpec == Spec /\ Fairness

-----------------------------------------------------------------------------
TypeOK ==
  /\ EventTypeOK
  /\ polling \in BOOLEAN
  /\ alive \subseteq Handles
  /\ typeOf \in [EventObjects -> endpoint.types]
  /\ ready \in [Handles -> BOOLEAN]
  /\ enabled \subseteq EventTypes
  /\ attached \in [WaitSets -> SUBSET Conditions]
  /\ cached \in [WaitSets -> ArgLists \cup {NoArrays}]
  /\ pc \in [WaitSets -> {"idle", "wait", "scan", "poll", "process", "events"}]
  /\ args \in [WaitSets -> ArgLists \cup {NoArrays}]
  /\ active \in [WaitSets -> SUBSET Conditions]
  /\ toScan \in [WaitSets -> SUBSET Conditions]
  /\ result \in [WaitSets -> {"NONE", "OK", "TIMEOUT", "ERROR"}]
  /\ out \in [WaitSets -> SUBSET Entries]
  /\ stale \in [WaitSets -> SUBSET (Entries \cup StatusBits \cup {StatusCondition})]
  /\ reported \subseteq EventTypes

Waiting(w) == pc[w] \in {"wait", "scan", "poll"}

\* A wait set is armed for an entry when the entry's condition is attached to
\* it; for an event that is the status condition with the status enabled, and
\* the event's guard condition if it has a callback.
EventArmed(w, t) ==
  /\ StatusCondition \in attached[w]
  /\ t \in enabled
  /\ HasCallback(t) => t \in attached[w]
EventStale(w, e) == {e, typeOf[e], StatusCondition} \cap stale[w] # {}

\* A thread that waits is armed for every entry it passed, although its cache
\* may be many calls old, except for the entries that changed under the cache
\* without changing the pointer: an entity, or an rmw_event_t of another event,
\* created at the address of a destroyed one, an event whose callback was
\* installed since, or whose status another wait set on the same endpoint
\* disabled; and except for those whose condition could not be attached.  The
\* wake-up of exactly those entries can be lost.
ArmedUnlessStale ==
  \A w \in WaitSets : Waiting(w) =>
    /\ HandlesIn(args[w]) \ stale[w] \subseteq attached[w]
    /\ \A e \in EventObjectsIn(args[w]) :
         EventStale(w, e) \/ EventArmed(w, typeOf[e])

\* Nothing else wakes it: whatever is attached belongs to an entry of the call,
\* so a wake-up by a handle's condition is always reported to the caller.
WokenByEntries ==
  \A w \in WaitSets :
    /\ Waiting(w) => attached[w] \cap Handles \subseteq HandlesIn(args[w])
    /\ pc[w] = "events" => active[w] \cap Handles = out[w]

\* A recorded change whose guard condition is down has been reported by a wait:
\* the reset in is_status_changed never hides a change nobody was told of.
QuietChangeWasReported ==
  \A t \in EventTypes : changed[t] /\ ~trigger[t] => t \in reported

\* A timeout of the DDS wait is true: no entry the wait set knew of was ready,
\* and an event with a change had already been reported.
TimeoutMeansNothingReady ==
  [][\A w \in WaitSets :
       pc[w] = "wait" /\ result'[w] = "TIMEOUT" =>
         /\ \A h \in HandlesIn(args[w]) \ stale[w] : ~ready[h]
         /\ \A e \in EventObjectsIn(args[w]) :
              ~EventStale(w, e) /\ IsStatusChanged(typeOf[e]) =>
                typeOf[e] \in reported]_vars

\* A guard condition is consumed only by a wait that reports it to its caller,
\* or that returns an error: a null entry, or a guard condition not reset.
TriggerIsReported ==
  [][\A g \in Guards :
       ready[g] /\ ~ready'[g] /\ g \in alive' =>
         \E w \in WaitSets : g \in out'[w] \/ result'[w] = "ERROR"]_vars

\* A thread that waits, for however long, does not sleep through an entry that
\* becomes and stays ready, whether the cache is old or new and whatever other
\* threads do to other entities and to other wait sets, unless the entry is one
\* of the stale ones.
WaiterIsWoken ==
  \A w \in WaitSets, h \in Handles :
    (Waiting(w) /\ h \in HandlesIn(args[w]) /\ ready[h])
      ~> (pc[w] = "idle" \/ ~ready[h] \/ h \in stale[w])
=============================================================================
