---------------------------- MODULE MCEventInfo ----------------------------
(* Instances of EventInfo for TLC: bounds on the changes of each status.    *)
EXTENDS EventInfo

\* A reader with the two setters that share its mask; one whose deadline listener
\* calls the callback of another event; one with the event that is_status_changed
\* leaves out; and a writer with the two events that share a counter.
MCEndpoints ==
  {[kind |-> "subscription", types |-> {"requested_qos_incompatible"},
    callbacks |-> {"requested_qos_incompatible", DataAvailable}],
   [kind |-> "subscription", types |-> {"requested_deadline_missed", "liveliness_changed"},
    callbacks |-> {"requested_deadline_missed", "liveliness_changed"}],
   [kind |-> "subscription", types |-> {"message_lost"},
    callbacks |-> {"message_lost", DataAvailable}],
   [kind |-> "publisher", types |-> {"offered_deadline_missed", "liveliness_lost"},
    callbacks |-> {"offered_deadline_missed", "liveliness_lost"}]}

\* Two changes of each status, but one of the liveliness, which shares a callback or a
\* counter with the missed deadlines.
MCChanges ==
  [t \in EventTypes |-> IF t \in {"liveliness_changed", "liveliness_lost"} THEN 1 ELSE 2]
=============================================================================
