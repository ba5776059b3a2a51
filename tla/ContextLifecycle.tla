-------------------------- MODULE ContextLifecycle --------------------------
(***************************************************************************)
(* A context: rmw_init, rmw_shutdown and rmw_context_fini; the creation of *)
(* the DDS participant and of the discovery endpoints with the first node, *)
(* and their destruction with the last one; the discovery listener thread. *)
(*                                                                         *)
(* Nodes are created and destroyed by any thread under initialization_mutex*)
(* (phase and at say where its holder is); beside it run the listener      *)
(* thread, a thread that calls rmw_shutdown, and the DDS threads that use  *)
(* the context through the participant and the graph guard condition       *)
(* through the change callback.  Every step that the code checks for       *)
(* failure may fail.                                                       *)
(*                                                                         *)
(* External (GurumDDS): an entity is deleted only through its own parent,  *)
(* and a participant only once it is empty.  rcl's contract: a context is  *)
(* finalized when no node of it is left and no node is being created.      *)
(***************************************************************************)
EXTENDS Naturals, Sequences

CONSTANTS MaxNodes,   \* bound on the nodes alive at once
          MaxInits,   \* bound on the calls of initialize_participant
          CanFail     \* the kinds of steps that may fail

FailureKinds == {"create", "delete", "listener", "announce", "depart", "trigger", "wait"}

ASSUME ContextAssumption ==
  /\ MaxNodes \in Nat \ {0}
  /\ MaxInits \in Nat \ {0}
  /\ CanFail \subseteq FailureKinds

\* initialize_participant and graph_cache::initialize create in this order, the
\* guard condition last; finalize_participant and graph_cache::finalize destroy
\* in this one.
InitOrder == <<"participant", "publisher", "subscriber", "pub", "sub", "graph_gc">>
FiniOrder == <<"graph_gc", "sub", "pub", "publisher", "subscriber", "participant">>
Resources == {InitOrder[i] : i \in DOMAIN InitOrder}

\* The entity through which the code deletes another one.
Parent == [publisher |-> "participant", subscriber |-> "participant",
           pub |-> "publisher", sub |-> "subscriber"]

VARIABLES
  impl,        \* context->impl exists
  isShutdown,  \* is_shutdown
  nodeCount,   \* node_count
  nodes,       \* the rmw_node_t handles that exist
  field,       \* per resource, the one the context points to: the initialization
               \* that made it, 0 for nullptr
  exists,      \* <<resource, initialization>>: what has not been deleted
  inits,       \* the calls of initialize_participant so far
  phase, at,   \* where the holder of initialization_mutex is
  ctxOf,       \* the participants whose DDS context is the impl
  callback,    \* the graph guard condition the change callback captured, or 0
  running,     \* thread_is_running
  thread,      \* where the listener thread is
  threadSub,   \* the discovery subscription the listener thread reads
  joinable,    \* listener_thread is joinable
  exitGc,      \* listener_thread_gc
  terminated,  \* std::terminate was called
  failed       \* history: the failures that left something undone

resourceVars == <<field, exists, inits, ctxOf, callback>>
threadVars == <<running, thread, threadSub, joinable, exitGc, terminated>>
holderVars == <<phase, at>>
vars == <<impl, isShutdown, nodeCount, nodes, resourceVars, holderVars, threadVars, failed>>

Init ==
  /\ impl = FALSE
  /\ isShutdown = FALSE
  /\ nodeCount = 0
  /\ nodes = 0
  /\ field = [r \in Resources |-> 0]
  /\ exists = {}
  /\ inits = 0
  /\ phase = "idle" /\ at = 1
  /\ ctxOf = {}
  /\ callback = 0
  /\ running = FALSE
  /\ thread = "none" /\ threadSub = 0
  /\ joinable = FALSE
  /\ exitGc = "none"
  /\ terminated = FALSE
  /\ failed = {}

Idle == phase' = "idle" /\ at' = 1
Goto(p) == phase' = p /\ at' = 1

-----------------------------------------------------------------------------
(* The context *)

\* rmw_init
InitContext ==
  /\ ~impl
  /\ impl' = TRUE
  /\ isShutdown' = FALSE
  /\ UNCHANGED <<nodeCount, nodes, resourceVars, holderVars, threadVars, failed>>

\* rmw_shutdown, which does not take initialization_mutex.
Shutdown ==
  /\ impl /\ ~isShutdown
  /\ isShutdown' = TRUE
  /\ UNCHANGED <<impl, nodeCount, nodes, resourceVars, holderVars, threadVars, failed>>

\* rmw_context_fini: delete the participant if there is one, then the impl
\* whatever came of it.  A listener thread not joined ends the process.
Contained(p) == {e \in exists : e[2] = p /\ e[1] \in {"publisher", "subscriber", "pub", "sub"}}
FiniContext ==
  LET p == field["participant"]
      gone == p # 0 /\ Contained(p) = {}
  IN  /\ impl /\ isShutdown
      /\ phase = "idle" /\ nodes = 0
      /\ exists' = IF gone THEN exists \ {<<"participant", p>>} ELSE exists
      /\ failed' = IF p # 0 /\ ~gone THEN failed \cup {"finalize"} ELSE failed
      /\ impl' = FALSE
      /\ nodeCount' = 0
      /\ field' = [r \in Resources |-> 0]
      /\ callback' = 0
      /\ running' = FALSE
      /\ joinable' = FALSE
      /\ terminated' = joinable
      /\ UNCHANGED <<isShutdown, nodes, inits, holderVars, ctxOf, thread, threadSub, exitGc>>

-----------------------------------------------------------------------------
(* rmw_create_node *)

\* Up to initialize_node, which only counts when there is a node already.
BeginCreateNode ==
  /\ impl /\ phase = "idle"
  /\ nodes < MaxNodes
  /\ ~isShutdown
  /\ \/ /\ nodeCount # 0
        /\ nodeCount' = nodeCount + 1
        /\ Goto("announce")
        /\ UNCHANGED inits
     \/ /\ nodeCount = 0
        /\ inits < MaxInits
        /\ inits' = inits + 1
        /\ Goto("init")
        /\ UNCHANGED nodeCount
  /\ UNCHANGED <<impl, isShutdown, nodes, field, exists, ctxOf, callback, threadVars, failed>>

\* The step for r fails: before the creation, so that the field keeps what it had;
\* in it, so that the field is null; or after it, as the QoS is finalized.
StepFails(r) ==
  \/ /\ r \in {"participant", "publisher", "subscriber"}
     /\ UNCHANGED <<field, exists>>
  \/ /\ field' = [field EXCEPT ![r] = 0]
     /\ UNCHANGED exists
  \/ /\ r \in {"publisher", "subscriber"}
     /\ field' = [field EXCEPT ![r] = inits]
     /\ exists' = exists \cup {<<r, inits>>}

\* One creation of initialize_participant or graph_cache::initialize.  The last one
\* is followed by the change callback and the participant's context, a failed one
\* by finalize_participant.
InitStep ==
  LET r == InitOrder[at]
      last == at = Len(InitOrder)
  IN  /\ phase = "init"
      /\ \/ /\ field' = [field EXCEPT ![r] = inits]
            /\ exists' = exists \cup {<<r, inits>>}
            /\ \/ ~last /\ phase' = "init" /\ at' = at + 1 /\ UNCHANGED <<callback, ctxOf>>
               \/ last /\ Goto("enable") /\ callback' = inits /\ ctxOf' = ctxOf \cup {inits}
         \/ /\ "create" \in CanFail
            /\ StepFails(r)
            /\ Goto("stop")
            /\ UNCHANGED <<callback, ctxOf>>
      /\ UNCHANGED <<impl, isShutdown, nodeCount, nodes, inits, threadVars, failed>>

\* The participant's context is set to null; mutant: it is kept.
ContextKept == ctxOf
ContextTakenBack == ctxOf \ {field["participant"]}

\* graph_cache::enable: the listener's guard condition and thread.  When either
\* cannot be created only the participant's context is taken back.
Enable ==
  /\ phase = "enable"
  /\ \/ /\ running' = TRUE
        /\ exitGc' = "down"
        /\ terminated' = joinable   \* assignment to a joinable std::thread
        /\ joinable' = TRUE
        /\ thread' = "starting"
        /\ threadSub' = field["sub"]
        /\ nodeCount' = 1
        /\ Goto("announce")
        /\ UNCHANGED <<ctxOf, failed>>
     \/ /\ "listener" \in CanFail
        /\ \E gc \in {"none", "dangling"} : exitGc' = gc
        /\ running' = FALSE
        /\ ctxOf' = ContextTakenBack
        /\ failed' = failed \cup {"enable"}
        /\ Idle
        /\ UNCHANGED <<terminated, joinable, thread, threadSub, nodeCount>>
  /\ UNCHANGED <<impl, isShutdown, nodes, field, exists, inits, callback>>

\* finalize_node: the last node takes the participant with it.  Mutants:
\* it is taken with any node; the count is tested before it is decremented; a node
\* is given back twice.
FinalizeWithAnyNode == nodeCount' = nodeCount - 1 /\ Goto("stop")
FinalizeTestedEarly ==
  /\ nodeCount' = nodeCount - 1
  /\ IF nodeCount = 0 THEN Goto("stop") ELSE Idle
FinalizeTwice ==
  /\ nodeCount' = nodeCount - 2
  /\ IF nodeCount' = 0 THEN Goto("stop") ELSE Idle
FinalizeNode ==
  /\ nodeCount' = nodeCount - 1
  /\ IF nodeCount' = 0 THEN Goto("stop") ELSE Idle

\* on_node_created publishes the new node; if it fails, initialize_node is undone.
Announce ==
  /\ phase = "announce"
  /\ \/ /\ nodes' = nodes + 1
        /\ Idle
        /\ UNCHANGED nodeCount
     \/ /\ "announce" \in CanFail
        /\ FinalizeNode
        /\ UNCHANGED nodes
  /\ UNCHANGED <<impl, isShutdown, resourceVars, threadVars, failed>>

-----------------------------------------------------------------------------
(* rmw_destroy_node, and finalize_participant *)

\* on_node_deleted, the release of the handle, and finalize_node.
DestroyNode ==
  /\ impl /\ phase = "idle"
  /\ nodes > 0
  /\ \/ /\ nodes' = nodes - 1
        /\ FinalizeNode
     \/ /\ "depart" \in CanFail
        /\ UNCHANGED <<nodes, nodeCount, holderVars>>
  /\ UNCHANGED <<impl, isShutdown, resourceVars, threadVars, failed>>

\* clear_on_change_callback comes before anything is destroyed; mutant: never.
KeepCallback == UNCHANGED callback
ClearCallback == callback' = 0

\* The exit condition is triggered before the join; mutant: it is not.
ExitNotTriggered == exitGc' = "down"
TriggerExit == exitGc' = "up"

\* stop_listener_thread up to the join: nothing to do unless the flag was up.  A
\* failed trigger leaves the flag down and the thread alone.
StopListener ==
  /\ phase = "stop"
  /\ running' = FALSE
  /\ \/ /\ running
        /\ TriggerExit
        /\ Goto("join")
        /\ UNCHANGED <<callback, failed>>
     \/ /\ running
        /\ "trigger" \in CanFail
        /\ failed' = failed \cup {"stop", "finalize"}
        /\ Idle
        /\ UNCHANGED <<callback, exitGc>>
     \/ /\ ~running
        /\ ClearCallback
        /\ Goto("fini")
        /\ UNCHANGED <<exitGc, failed>>
  /\ UNCHANGED <<impl, isShutdown, nodeCount, nodes, field, exists, inits, ctxOf,
                 thread, threadSub, joinable, terminated>>

\* The join returns when the thread is done; mutant: it is not waited for.
Detached == TRUE
Joined == thread = "done"
JoinListener ==
  /\ phase = "join"
  /\ Joined
  /\ joinable' = FALSE
  /\ exitGc' = "dangling"
  /\ ClearCallback
  /\ Goto("fini")
  /\ UNCHANGED <<impl, isShutdown, nodeCount, nodes, field, exists, inits, ctxOf, running,
                 thread, threadSub, terminated, failed>>

\* One destruction.  A guard condition is deleted without a return code; an error
\* ends the finalization where it is.
Deletable(r) ==
  /\ r \in DOMAIN Parent => field[Parent[r]] = field[r]
  /\ r = "participant" => Contained(field[r]) = {}
FiniStep ==
  LET r == FiniOrder[at]
      last == at = Len(FiniOrder)
  IN  /\ phase = "fini"
      /\ \/ /\ field[r] = 0 \/ r = "graph_gc" \/ Deletable(r)
            /\ exists' = exists \ {<<r, field[r]>>}
            /\ field' = [field EXCEPT ![r] = 0]
            /\ IF last THEN Idle ELSE phase' = "fini" /\ at' = at + 1
            /\ UNCHANGED failed
         \/ /\ field[r] # 0 /\ r # "graph_gc"
            /\ "delete" \in CanFail \/ ~Deletable(r)
            /\ failed' = failed \cup {"finalize"}
            /\ Idle
            /\ UNCHANGED <<exists, field>>
      /\ UNCHANGED <<impl, isShutdown, nodeCount, nodes, inits, ctxOf, callback, threadVars>>

-----------------------------------------------------------------------------
(* rmw_gurumdds_listener_thread *)

otherThanThread == <<impl, isShutdown, nodeCount, nodes, resourceVars, holderVars, running,
                     threadSub, joinable, exitGc, terminated>>

\* It prepares its wait set and reads thread_is_running.
ListenerStarts ==
  /\ thread = "starting"
  /\ \/ thread' = (IF running THEN "waiting" ELSE "cleanup") /\ UNCHANGED failed
     \/ "wait" \in CanFail /\ thread' = "cleanup" /\ failed' = failed \cup {"wait"}
  /\ UNCHANGED otherThanThread
\* It is woken to exit, or by a sample of ros_discovery_info, or its wait fails: it
\* then ends, and thread_is_running stays as it is.
ListenerWakes ==
  /\ thread = "waiting"
  /\ \/ exitGc = "up" /\ thread' = "cleanup" /\ UNCHANGED failed
     \/ exitGc # "up" /\ thread' = "handling" /\ UNCHANGED failed
     \/ "wait" \in CanFail /\ thread' = "cleanup" /\ failed' = failed \cup {"wait"}
  /\ UNCHANGED otherThanThread
\* on_participant_info takes the samples and updates the graph cache.
ListenerHandles ==
  /\ thread = "handling"
  /\ thread' = (IF running THEN "waiting" ELSE "cleanup")
  /\ UNCHANGED <<otherThanThread, failed>>
\* It detaches its conditions and deletes its read condition.
ListenerCleansUp ==
  /\ thread = "cleanup"
  /\ thread' = "done"
  /\ UNCHANGED <<otherThanThread, failed>>

ListenerThread == ListenerStarts \/ ListenerWakes \/ ListenerHandles \/ ListenerCleansUp

Next ==
  /\ ~terminated
  /\ \/ InitContext \/ Shutdown \/ FiniContext
     \/ BeginCreateNode \/ InitStep \/ Enable \/ Announce
     \/ DestroyNode \/ StopListener \/ JoinListener \/ FiniStep
     \/ ListenerThread

Spec == Init /\ [][Next]_vars

\* The listener thread runs; a woken wait returns for its exit condition.
Fairness ==
  /\ WF_vars(~terminated /\ ListenerStarts)
  /\ WF_vars(~terminated /\ exitGc = "up" /\ ListenerWakes)
  /\ WF_vars(~terminated /\ ListenerHandles)
  /\ WF_vars(~terminated /\ ListenerCleansUp)
  /\ WF_vars(~terminated /\ JoinListener)
FairSpec == Spec /\ Fairness

-----------------------------------------------------------------------------
TypeOK ==
  /\ impl \in BOOLEAN /\ isShutdown \in BOOLEAN
  /\ nodeCount \in 0..MaxNodes /\ nodes \in 0..MaxNodes
  /\ field \in [Resources -> 0..MaxInits]
  /\ exists \subseteq Resources \X (1..MaxInits)
  /\ inits \in 0..MaxInits
  /\ phase \in {"idle", "init", "enable", "announce", "stop", "join", "fini"}
  /\ at \in 1..Len(InitOrder)
  /\ ctxOf \subseteq 1..MaxInits
  /\ callback \in 0..MaxInits
  /\ running \in BOOLEAN
  /\ thread \in {"none", "starting", "waiting", "handling", "cleanup", "done"}
  /\ threadSub \in 0..MaxInits
  /\ joinable \in BOOLEAN
  /\ exitGc \in {"none", "down", "up", "dangling"}
  /\ terminated \in BOOLEAN
  /\ failed \subseteq {"enable", "stop", "finalize", "wait"}

\* While a node exists, node_count counts the nodes and everything they share is
\* there, made by one initialization: whatever failed before, in whatever order
\* nodes came and went.
NodesAreServed ==
  phase = "idle" /\ nodes > 0 =>
    /\ nodeCount = nodes
    /\ \A r \in Resources : <<r, field[r]>> \in exists /\ field[r] = field["participant"]
    /\ field["participant"] \in ctxOf
    /\ callback = field["graph_gc"]
    /\ running /\ exitGc = "down" /\ threadSub = field["sub"]

\* With no node left, nothing is left, unless a finalization failed or the listener
\* could not be started: the rollback of a creation that failed at any step, and
\* the destruction of the last node, are complete.
CleanAfterLastNode ==
  phase = "idle" /\ nodes = 0 /\ failed \cap {"enable", "finalize", "stop"} = {} =>
    exists = {} /\ callback = 0 /\ ~joinable /\ ~running /\ nodeCount = 0

\* The listener thread never outlives the subscription and the guard condition it
\* uses, and is joined before its std::thread is assigned or destroyed, unless it
\* could not be told to stop.
ListenerIsJoined ==
  "stop" \notin failed =>
    /\ thread \in {"starting", "waiting", "handling", "cleanup"} =>
         <<"sub", threadSub>> \in exists /\ exitGc \in {"down", "up"}
    /\ ~terminated

\* The change callback, which DDS threads call at any time, never triggers a guard
\* condition that was destroyed.
CallbackTargetExists == callback # 0 => <<"graph_gc", callback>> \in exists

\* The remote callbacks of a participant find the context that made it, unless it
\* could not be deleted.
RemoteCallbacksFindContext ==
  "finalize" \notin failed =>
    \A p \in ctxOf : <<"participant", p>> \in exists => impl /\ p = field["participant"]

\* rmw_context_impl.hpp: "Initializes the participant, if it wasn't done already."
OneParticipant == \A p, q \in 1..MaxInits :
  <<"participant", p>> \in exists /\ <<"participant", q>> \in exists => p = q

\* The destruction of the last node does not wait forever for the listener thread.
JoinReturns == phase = "join" ~> phase # "join"
=============================================================================
