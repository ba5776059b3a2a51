----------------------------- MODULE GraphCache -----------------------------
(***************************************************************************)
(* The ROS graph (graph_cache.cpp): what every participant knows of its    *)
(* own endpoints and of those of its peers.                                *)
(*                                                                         *)
(* All the participants run the same code.  In each, application threads   *)
(* create publishers, subscriptions, services and clients under            *)
(* endpoint_mutex and destroy them, partly under it; the DDS threads run   *)
(* on_participant_changed, on_publication_changed and                      *)
(* on_subscription_changed; the listener thread runs on_participant_info.  *)
(* A handle stands for one rmw_create_xxx call and what follows from it, so*)
(* the gid of an endpoint is the handle and its role.                      *)
(*                                                                         *)
(* External (GurumDDS): discovery announces an endpoint or a participant   *)
(* to every participant, the one that has it included, and its end to those*)
(* that were told of it; the samples of the reliable, transient local      *)
(* ros_discovery_info topic arrive in order.                               *)
(* External (rmw_dds_common): add_xxx_graph and remove_xxx_graph associate *)
(* or dissociate the endpoints with their node and publish everything the  *)
(* participant has, atomically; a failed add is taken back.                *)
(***************************************************************************)
EXTENDS Naturals, Sequences

CONSTANTS Participants,
          Handles,      \* the rmw_publisher_t, rmw_subscription_t, ... ever created
          Owner,        \* the participant of a handle
          Kind,         \* what a handle is
          Localhost,    \* the participants of the LOCALHOST discovery range
          MayDepart,    \* the participants that may leave or crash
          CanFail       \* the kinds of steps that may fail

Kinds == {"pub", "sub", "srv", "cli"}
FailureKinds == {"create", "entity", "publish", "delete"}
Roles == {"writer", "reader"}

ASSUME GraphAssumption ==
  /\ Owner \in [Handles -> Participants]
  /\ Kind \in [Handles -> Kinds]
  /\ Localhost \subseteq Participants
  /\ MayDepart \subseteq Participants
  /\ CanFail \subseteq FailureKinds

IsService(h) == Kind[h] \in {"srv", "cli"}
RolesOf(h) == IF IsService(h) THEN Roles
              ELSE IF Kind[h] = "pub" THEN {"writer"} ELSE {"reader"}
EndpointsOf(h) == {h} \X RolesOf(h)
Endpoints == UNION {EndpointsOf(h) : h \in Handles}
EndpointsAt(p) == {e \in Endpoints : Owner[e[1]] = p}

\* Publishers and subscriptions of a context with the LOCALHOST range are taken for
\* internal ones, which do not enter the graph when they are created.
InGraph(h) == IsService(h) \/ Owner[h] \notin Localhost

VARIABLES
  exists,        \* DDS: the endpoints
  present,       \* DDS: the participants
  announced,     \* per participant: the endpoints its DDS announced as existing
  discovered,    \* per participant: what its DDS announced of the others
  queue,         \* per participant and sender: ros_discovery_info not taken yet
  entities,      \* per participant: data_writers_ and data_readers_ of its cache
  known,         \* per participant: the keys of participants_ in its cache
  nodeEntities,  \* per participant: its values, the endpoints a participant has
                 \* associated with nodes; nothing for one that is not known
  pc,            \* where the calls for a handle are
  last,          \* history: the last message a participant published
  unpublished,   \* history: handles whose departure could not be published
  late           \* history: <<p, q>>: p took a message of q after q had left

ddsVars == <<exists, present, announced, discovered, queue>>
cacheVars == <<entities, known, nodeEntities>>
historyVars == <<last, unpublished, late>>
vars == <<ddsVars, cacheVars, pc, historyVars>>

Init ==
  /\ exists = {}
  /\ present = Participants
  /\ announced = [q \in Participants |-> {}]
  /\ discovered = [q \in Participants |-> [p \in Participants |-> "unknown"]]
  /\ queue = [q \in Participants |-> [p \in Participants |-> <<>>]]
  /\ entities = [q \in Participants |-> [r \in Roles |-> {}]]
  /\ known = [q \in Participants |-> {q}]
  /\ nodeEntities = [q \in Participants |-> [p \in Participants |-> {}]]
  /\ pc = [h \in Handles |-> "none"]
  /\ last = [p \in Participants |-> {}]
  /\ unpublished = {} /\ late = {}

Running(h) == Owner[h] \in present

\* The steps under endpoint_mutex: a creation, and the destruction of a service or
\* a client.
UnderMutex == {"add_reader", "add_writer", "associate", "delete_reader", "remove_reader",
               "remove_writer", "dissociate_service"}
MutexFree(p) == \A h \in Handles : Owner[h] = p => pc[h] \notin UnderMutex

Goto(h, step) == pc' = [pc EXCEPT ![h] = step]
AddStep == [reader |-> "add_reader", writer |-> "add_writer"]
RemoveStep == [reader |-> "remove_reader", writer |-> "remove_writer"]

\* publish_update: everything the participant has, to all the participants.
PublishUpdate(p, message) ==
  /\ queue' = [q \in Participants |-> [queue[q] EXCEPT ![p] = Append(@, message)]]
  /\ last' = [last EXCEPT ![p] = message]

-----------------------------------------------------------------------------
(* Creation *)

\* A failed creation, and the endpoints it leaves in DDS.  A publisher or subscription
\* leaks its endpoint.  A service or client deletes its endpoints, whatever that returns,
\* except on the paths of its creation that return without it.
Abandon(h, left) ==
  /\ exists' = (exists \ EndpointsOf(h)) \cup left
  /\ Goto(h, "failed")
LeftBehind(h) ==
  IF ~IsService(h) THEN {EndpointsOf(h)}
  ELSE IF "delete" \in CanFail THEN SUBSET EndpointsOf(h) ELSE {{}}

\* The DDS endpoints of the handle.
CreateEndpoints(h) ==
  /\ Running(h) /\ pc[h] = "none"
  /\ MutexFree(Owner[h])
  /\ \/ /\ exists' = exists \cup EndpointsOf(h)
        /\ Goto(h, IF ~InGraph(h) THEN "live"
                   ELSE IF "reader" \in RolesOf(h) THEN "add_reader" ELSE "add_writer")
     \/ /\ "create" \in CanFail
        /\ \E left \in SUBSET EndpointsOf(h) : Abandon(h, left)
  /\ UNCHANGED <<present, announced, discovered, queue, cacheVars, historyVars>>

\* add_local_subscriber and add_local_publisher.  The scope exits of
\* on_service_created and on_client_created have copied add_sub and add_pub while
\* they were FALSE: they remove nothing.  on_subscriber_created removes the reader
\* that was not added, which leaves the cache as it is.
AddEntity(h, r) ==
  LET p == Owner[h]
  IN  /\ Running(h) /\ pc[h] = AddStep[r]
      /\ \/ /\ <<h, r>> \notin entities[p][r]
            /\ entities' = [entities EXCEPT ![p][r] = @ \cup {<<h, r>>}]
            /\ Goto(h, IF r = "reader" /\ IsService(h) THEN "add_writer" ELSE "associate")
            /\ UNCHANGED exists
         \/ /\ "entity" \in CanFail \/ <<h, r>> \in entities[p][r]
            /\ \E left \in LeftBehind(h) : Abandon(h, left)
            /\ UNCHANGED entities
      /\ UNCHANGED <<present, announced, discovered, queue, known, nodeEntities, historyVars>>

\* The rollback of on_publisher_created and on_subscriber_created looks for the
\* gid among the writers, for a reader too.
RolledBack(h) ==
  IF IsService(h) THEN entities[Owner[h]]
  ELSE [entities[Owner[h]] EXCEPT !["writer"] = @ \ EndpointsOf(h)]

\* add_xxx_graph.
Associate(h) ==
  LET p == Owner[h]
      all == nodeEntities[p][p] \cup EndpointsOf(h)
  IN  /\ Running(h) /\ pc[h] = "associate"
      /\ \/ /\ nodeEntities' = [nodeEntities EXCEPT ![p][p] = all]
            /\ PublishUpdate(p, all)
            /\ Goto(h, "live")
            /\ UNCHANGED <<exists, entities>>
         \/ /\ "publish" \in CanFail
            /\ entities' = [entities EXCEPT ![p] = RolledBack(h)]
            /\ \E left \in LeftBehind(h) : Abandon(h, left)
            /\ UNCHANGED <<queue, last, nodeEntities>>
      /\ UNCHANGED <<present, announced, discovered, known, unpublished, late>>

-----------------------------------------------------------------------------
(* Destruction of a publisher or a subscription.  A step that fails ends the call  *)
(* with an error; when it is called again, the entity is no longer in the cache,   *)
(* and the call fails there.                                                       *)

\* The entities left after a removal; mutant: a reader is looked for among the
\* writers.
RemovedFromWriters(h, r) == [entities[Owner[h]] EXCEPT !["writer"] = @ \ {<<h, r>>}]
Removed(h, r) == [entities[Owner[h]] EXCEPT ![r] = @ \ {<<h, r>>}]

\* on_publisher_deleted and on_subscriber_deleted up to remove_xxx_graph.
RemoveEntity(h, r) ==
  /\ Running(h) /\ pc[h] = "live" /\ ~IsService(h)
  /\ <<h, r>> \in entities[Owner[h]][r]
  /\ entities' = [entities EXCEPT ![Owner[h]] = Removed(h, r)]
  /\ Goto(h, "dissociate")
  /\ UNCHANGED <<ddsVars, known, nodeEntities, historyVars>>

\* What a participant has without a handle; mutant: nothing is dissociated.
StillAssociated(h) == nodeEntities[Owner[h]][Owner[h]]
Dissociated(h) == nodeEntities[Owner[h]][Owner[h]] \ EndpointsOf(h)

\* remove_publisher_graph and remove_subscriber_graph.
Dissociate(h) ==
  LET p == Owner[h]
  IN  /\ Running(h) /\ pc[h] = "dissociate"
      /\ nodeEntities' = [nodeEntities EXCEPT ![p][p] = Dissociated(h)]
      /\ \/ /\ PublishUpdate(p, Dissociated(h))
            /\ Goto(h, "delete")
            /\ UNCHANGED unpublished
         \/ /\ "publish" \in CanFail
            /\ unpublished' = unpublished \cup {h}
            /\ Goto(h, "broken")
            /\ UNCHANGED <<queue, last>>
      /\ UNCHANGED <<exists, present, announced, discovered, entities, known, late>>

\* destroy_publisher and destroy_subscription, which also fail when the endpoint is
\* deleted but its topic is not.
DeleteEndpoint(h) ==
  /\ Running(h) /\ pc[h] = "delete"
  /\ MutexFree(Owner[h])
  /\ \/ /\ exists' = exists \ EndpointsOf(h)
        /\ Goto(h, "gone")
     \/ /\ "delete" \in CanFail
        /\ Goto(h, "broken")
        /\ exists' \in {exists, exists \ EndpointsOf(h)}
  /\ UNCHANGED <<present, announced, discovered, queue, cacheVars, historyVars>>

-----------------------------------------------------------------------------
(* Destruction of a service or a client: the DDS endpoints first *)

DeleteWriter(h) ==
  /\ Running(h) /\ pc[h] = "live" /\ IsService(h)
  /\ MutexFree(Owner[h])
  /\ exists' = exists \ {<<h, "writer">>}
  /\ Goto(h, "delete_reader")
  /\ UNCHANGED <<present, announced, discovered, queue, cacheVars, historyVars>>

\* When this fails, calling again would use the deleted writer.
DeleteReader(h) ==
  /\ Running(h) /\ pc[h] = "delete_reader"
  /\ \/ /\ exists' = exists \ {<<h, "reader">>}
        /\ Goto(h, "remove_reader")
     \/ /\ "delete" \in CanFail
        /\ Goto(h, "broken")
        /\ UNCHANGED exists
  /\ UNCHANGED <<present, announced, discovered, queue, cacheVars, historyVars>>

\* The two removals of on_service_deleted and on_client_deleted.
RemoveServiceEntity(h, r) ==
  /\ Running(h) /\ pc[h] = RemoveStep[r]
  /\ entities' = [entities EXCEPT ![Owner[h]] = Removed(h, r)]
  /\ Goto(h, IF r = "reader" THEN "remove_writer" ELSE "dissociate_service")
  /\ UNCHANGED <<ddsVars, known, nodeEntities, historyVars>>

\* remove_service_graph, for a client too; no error of on_xxx_deleted is reported.
DissociateService(h) ==
  LET p == Owner[h]
  IN  /\ Running(h) /\ pc[h] = "dissociate_service"
      /\ nodeEntities' = [nodeEntities EXCEPT ![p][p] = Dissociated(h)]
      /\ \/ /\ PublishUpdate(p, Dissociated(h))
            /\ UNCHANGED unpublished
         \/ /\ "publish" \in CanFail
            /\ unpublished' = unpublished \cup {h}
            /\ UNCHANGED <<queue, last>>
      /\ Goto(h, "gone")
      /\ UNCHANGED <<exists, present, announced, discovered, entities, known, late>>

-----------------------------------------------------------------------------
(* The DDS threads *)

\* An announcement of the participant's own endpoint is ignored: on appearance the
\* participant's gid is compared, on disappearance the prefix of the endpoint's.
IsOwnAppearance(q, e) == Owner[e[1]] = q
IsOwnDisappearance(q, e) == Owner[e[1]] = q

\* The map is that of the endpoint's kind; mutant: the writers, as in the removal.
AlwaysWriters(e) == "writer"
MapOf(e) == e[2]

EndpointAppears(q, e) ==
  /\ q \in present
  /\ e \in exists \ announced[q]
  /\ announced' = [announced EXCEPT ![q] = @ \cup {e}]
  /\ entities' = IF IsOwnAppearance(q, e) THEN entities
                 ELSE [entities EXCEPT ![q][MapOf(e)] = @ \cup {e}]
  /\ UNCHANGED <<exists, present, discovered, queue, known, nodeEntities, pc, historyVars>>

\* on_publication_changed and on_subscription_changed both remove the endpoint from
\* the writers: a reader stays.
EndpointDisappears(q, e) ==
  /\ q \in present
  /\ e \in announced[q] \ exists
  /\ announced' = [announced EXCEPT ![q] = @ \ {e}]
  /\ entities' = IF IsOwnDisappearance(q, e) THEN entities
                 ELSE [entities EXCEPT ![q]["writer"] = @ \ {e}]
  /\ UNCHANGED <<exists, present, discovered, queue, known, nodeEntities, pc, historyVars>>

\* add_participant leaves what a message has already told; mutant: it does not.
Forgotten(q, p) == {}
Kept(q, p) == nodeEntities[q][p]

IsOwnParticipant(q, p) == p = q

ParticipantAppears(q, p) ==
  /\ q \in present
  /\ discovered[q][p] = "unknown"
  /\ discovered' = [discovered EXCEPT ![q][p] = "found"]
  /\ \/ /\ IsOwnParticipant(q, p)
        /\ UNCHANGED <<known, nodeEntities>>
     \/ /\ ~IsOwnParticipant(q, p)
        /\ known' = [known EXCEPT ![q] = @ \cup {p}]
        /\ nodeEntities' = [nodeEntities EXCEPT ![q][p] = Kept(q, p)]
  /\ UNCHANGED <<exists, present, announced, queue, entities, pc, historyVars>>

\* remove_participant, while the samples that arrived before stay in the reader of
\* ros_discovery_info; mutant: the participant is not removed.
ParticipantStays(q, p) == known[q]
ParticipantRemoved(q, p) == known[q] \ {p}

ParticipantDisappears(q, p) ==
  /\ q \in present /\ p \notin present
  /\ discovered[q][p] = "found"
  /\ discovered' = [discovered EXCEPT ![q][p] = "lost"]
  /\ known' = [known EXCEPT ![q] = ParticipantRemoved(q, p)]
  /\ nodeEntities' = [nodeEntities EXCEPT ![q][p] = {}]
  /\ \E n \in 0..Len(queue[q][p]) :
       queue' = [queue EXCEPT ![q][p] = SubSeq(@, 1, n)]
  /\ UNCHANGED <<exists, present, announced, entities, pc, historyVars>>

-----------------------------------------------------------------------------
(* The listener thread *)

\* on_participant_info: a message of its own is ignored, any other one replaces what
\* is known of its sender, and brings it back if it is not there.  Mutant: its own
\* messages are not recognized.
NeverOwnMessage(q, p) == FALSE
IsOwnMessage(q, p) == p = q

TakeInfo(q, p) ==
  /\ q \in present
  /\ queue[q][p] # <<>>
  /\ queue' = [queue EXCEPT ![q][p] = Tail(@)]
  /\ known' = IF IsOwnMessage(q, p) THEN known ELSE [known EXCEPT ![q] = @ \cup {p}]
  /\ nodeEntities' = IF IsOwnMessage(q, p) THEN nodeEntities
                     ELSE [nodeEntities EXCEPT ![q][p] = Head(queue[q][p])]
  /\ late' = IF discovered[q][p] = "lost" THEN late \cup {<<q, p>>} ELSE late
  /\ UNCHANGED <<exists, present, announced, discovered, entities, pc, last, unpublished>>

\* External: KEEP_LAST lets a newer message take the place of the oldest one.
Overwrite(q, p) ==
  /\ q \in present
  /\ Len(queue[q][p]) > 1
  /\ queue' = [queue EXCEPT ![q][p] = Tail(@)]
  /\ UNCHANGED <<exists, present, announced, discovered, cacheVars, pc, historyVars>>

\* External: a participant leaves or crashes, wherever it is.
Depart(p) ==
  /\ p \in present \cap MayDepart
  /\ present' = present \ {p}
  /\ exists' = exists \ EndpointsAt(p)
  /\ UNCHANGED <<announced, discovered, queue, cacheVars, pc, historyVars>>

HandleStep(h) ==
  \/ CreateEndpoints(h)
  \/ \E r \in RolesOf(h) : AddEntity(h, r) \/ RemoveEntity(h, r) \/ RemoveServiceEntity(h, r)
  \/ Associate(h)
  \/ Dissociate(h) \/ DeleteEndpoint(h)
  \/ DeleteWriter(h) \/ DeleteReader(h) \/ DissociateService(h)

DdsThread(q) ==
  \/ \E e \in Endpoints : EndpointAppears(q, e) \/ EndpointDisappears(q, e)
  \/ \E p \in Participants : ParticipantAppears(q, p) \/ ParticipantDisappears(q, p)
ListenerThread(q) == \E p \in Participants : TakeInfo(q, p)

Next ==
  \/ \E h \in Handles : HandleStep(h)
  \/ \E q \in Participants :
       \/ DdsThread(q) \/ ListenerThread(q) \/ Depart(q)
       \/ \E p \in Participants : Overwrite(q, p)

Spec == Init /\ [][Next]_vars

\* Discovery and the listener thread of each participant make progress; the
\* application need not.
Fairness ==
  \A q \in Participants : WF_vars(DdsThread(q)) /\ WF_vars(ListenerThread(q))
FairSpec == Spec /\ Fairness

-----------------------------------------------------------------------------
Steps == {"none", "live", "dissociate", "delete", "failed", "broken", "gone"} \cup UnderMutex

TypeOK ==
  /\ exists \subseteq Endpoints
  /\ present \subseteq Participants
  /\ announced \in [Participants -> SUBSET Endpoints]
  /\ discovered \in [Participants -> [Participants -> {"unknown", "found", "lost"}]]
  /\ queue \in [Participants -> [Participants -> Seq(SUBSET Endpoints)]]
  /\ entities \in [Participants -> [Roles -> SUBSET (Handles \X Roles)]]
  /\ \A q \in Participants, r \in Roles : entities[q][r] \subseteq Handles \X {r}
  /\ known \in [Participants -> SUBSET Participants]
  /\ nodeEntities \in [Participants -> [Participants -> SUBSET Endpoints]]
  /\ pc \in [Handles -> Steps]
  /\ last \in [Participants -> SUBSET Endpoints]
  /\ unpublished \subseteq Handles
  /\ late \subseteq Participants \X Participants

\* What the participant of a handle has of it in its cache, and with its node.
InCache(h) == {e \in EndpointsOf(h) : e \in entities[Owner[h]][e[2]]}
OfNode(h) == EndpointsOf(h) \cap nodeEntities[Owner[h]][Owner[h]]

\* A handle the application holds exists in DDS, in the participant's cache and with
\* its node, each under its role, whatever the other threads create and destroy,
\* DDS announces of the participant's own endpoints, and its own messages bring back.
LiveIsRegistered ==
  \A h \in Handles : Running(h) /\ pc[h] = "live" =>
    /\ EndpointsOf(h) \subseteq exists
    /\ InGraph(h) => InCache(h) = EndpointsOf(h) /\ OfNode(h) = EndpointsOf(h)

\* A handle that was destroyed leaves nothing in DDS, in the cache or with the node,
\* over all the steps of the two ways of destroying it.  One whose creation failed
\* leaves nothing with the node, and a publisher nothing in the cache either.  The
\* last message of the participant tells no peer of either, unless it could not be
\* published.  (What else a failed creation leaves is not claimed: a subscription
\* its reader in the cache, a service or client its endpoints in the cache, and each
\* of them possibly its endpoints in DDS.)
EndedLeavesNoGhost ==
  \A h \in Handles : Running(h) /\ pc[h] \in {"gone", "failed"} =>
    /\ OfNode(h) = {}
    /\ h \notin unpublished => EndpointsOf(h) \cap last[Owner[h]] = {}
    /\ pc[h] = "gone" \/ Kind[h] = "pub" => InCache(h) = {}
    /\ pc[h] = "gone" => EndpointsOf(h) \cap exists = {}

\* What a participant last told its peers of exists, except for a service or a client
\* whose destruction has begun, and for a handle whose departure it failed to publish.
AdvertisedExists ==
  \A h \in Handles : Running(h) =>
    \A e \in last[Owner[h]] : e[1] = h =>
      e \in exists \/ h \in unpublished \/ (IsService(h) /\ pc[h] # "live")

\* What q has not been told of p yet.
Settled(q, p) ==
  /\ announced[q] \cap EndpointsAt(p) = exists \cap EndpointsAt(p)
  /\ discovered[q][p] = (IF p \in present THEN "found" ELSE "lost")
  /\ queue[q][p] = <<>>

\* Once all the announcements and messages about a participant have been handled, in
\* whatever order they came, a peer knows exactly its writers and the endpoints of
\* its nodes, and nothing of one that has left, unless a message of it was taken
\* after it had been removed.  Readers are never forgotten, so that it knows at least
\* its readers.
PeersAgree ==
  \A q \in present : \A p \in Participants \ {q} : Settled(q, p) =>
    /\ entities[q]["writer"] \cap EndpointsAt(p) = exists \cap EndpointsAt(p) \cap (Handles \X {"writer"})
    /\ exists \cap EndpointsAt(p) \cap (Handles \X {"reader"}) \subseteq entities[q]["reader"]
    /\ p \in present => p \in known[q] /\ nodeEntities[q][p] = last[p]
    /\ p \notin present /\ <<q, p>> \notin late => p \notin known[q]

\* A peer that stays comes to know a handle that stays: its endpoints and their node.
Knows(q, h) ==
  /\ \A r \in RolesOf(h) : <<h, r>> \in entities[q][r]
  /\ EndpointsOf(h) \subseteq nodeEntities[q][Owner[h]]
HandleIsSeen ==
  \A h \in Handles, q \in Participants :
    pc[h] = "live" /\ InGraph(h) ~>
      (q \notin present \/ ~Running(h) \/ pc[h] # "live" \/ Knows(q, h))
=============================================================================
