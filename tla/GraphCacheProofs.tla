-------------------------- MODULE GraphCacheProofs --------------------------
(***************************************************************************)
(* What a participant's own half of the ROS graph guarantees, for any      *)
(* number of participants, handles and failures: a handle the application  *)
(* holds is registered, an ended one leaves no ghost, and the peers are    *)
(* told of nothing that does not exist.                                    *)
(*                                                                         *)
(* The three follow from one invariant, which says for each step of the    *)
(* calls for a handle which of its endpoints are in DDS, in the cache and  *)
(* with the node.  It is inductive because nothing but the calls for the   *)
(* handle itself touches these: announcements and messages of the          *)
(* participant itself are ignored, and those of peers name other gids.     *)
(*                                                                         *)
(* The other half is what a participant has of a peer.  A second invariant *)
(* ties it to what was announced and to the last message in the queue, so  *)
(* that two settled participants agree.                                    *)
(***************************************************************************)
EXTENDS GraphCache, TLAPS

\* Which handles get to which steps.
StepFits(h) ==
  /\ pc[h] \in Steps
  /\ pc[h] \in {"dissociate", "delete"} => ~IsService(h)
  /\ pc[h] \in {"delete_reader", "remove_reader", "remove_writer", "dissociate_service"}
       => IsService(h)
  /\ pc[h] \in {"add_reader", "add_writer", "associate"} => InGraph(h)
  /\ pc[h] = "add_reader" => "reader" \in RolesOf(h)
  /\ pc[h] = "add_writer" => "writer" \in RolesOf(h)

\* Where an endpoint of a handle is.
InDDS(h, r) == <<h, r>> \in exists
InEntities(h, r) == <<h, r>> \in entities[Owner[h]][r]
WithNode(h, r) == <<h, r>> \in nodeEntities[Owner[h]][Owner[h]]
Told(h, r) == <<h, r>> \in last[Owner[h]]

\* Where it is at each step of the calls for the handle.
DDSFits(h, r) ==
  /\ Running(h) /\ pc[h] \in {"add_reader", "add_writer", "associate", "live", "dissociate",
                              "delete"} => InDDS(h, r)
  /\ pc[h] \in {"gone", "remove_reader", "remove_writer", "dissociate_service"} => ~InDDS(h, r)
  /\ pc[h] = "delete_reader" /\ r = "writer" => ~InDDS(h, r)

CacheFits(h, r) ==
  /\ pc[h] \in {"none", "add_reader", "dissociate", "delete", "dissociate_service", "gone"}
       => ~InEntities(h, r)
  /\ pc[h] = "add_writer" => (InEntities(h, r) <=> r = "reader")
  /\ pc[h] = "remove_writer" => (InEntities(h, r) <=> r = "writer")
  /\ pc[h] \in {"associate", "delete_reader", "remove_reader"} => InEntities(h, r)
  /\ pc[h] = "live" => (InEntities(h, r) <=> InGraph(h))
  /\ pc[h] = "failed" /\ Kind[h] = "pub" => ~InEntities(h, r)

NodeFits(h, r) ==
  /\ pc[h] \in {"none", "add_reader", "add_writer", "associate", "delete", "gone", "failed"}
       => ~WithNode(h, r)
  /\ pc[h] = "broken" /\ ~IsService(h) => ~WithNode(h, r)
  /\ pc[h] = "live" => (WithNode(h, r) <=> InGraph(h))

\* A message of a participant tells what it has, or had when it could not publish.
LastFits(h, r) == Told(h, r) => WithNode(h, r) \/ h \in unpublished

HandleFits(h) ==
  /\ StepFits(h)
  /\ \A r \in RolesOf(h) : DDSFits(h, r) /\ CacheFits(h, r) /\ NodeFits(h, r) /\ LastFits(h, r)
Registration == \A h \in Handles : HandleFits(h)

GraphInv == TypeOK /\ Registration

-----------------------------------------------------------------------------
\* The endpoints of a handle have its gids, under its roles.
LEMMA EndpointsOfHandle ==
  ASSUME NEW h \in Handles
  PROVE  /\ RolesOf(h) \subseteq Roles
         /\ EndpointsOf(h) \subseteq Endpoints
         /\ EndpointsOf(h) = {<<h, r>> : r \in RolesOf(h)}
<1>1. RolesOf(h) \subseteq Roles
  BY DEF RolesOf, Roles
<1>2. EndpointsOf(h) \subseteq Endpoints
  BY DEF Endpoints
<1>3. EndpointsOf(h) = {<<h, r>> : r \in RolesOf(h)}
  BY DEF EndpointsOf
<1> QED  BY <1>1, <1>2, <1>3

\* The gid of an endpoint says whose it is and in which role.
LEMMA EndpointIsGid ==
  ASSUME NEW e \in Endpoints
  PROVE  e[1] \in Handles /\ e[2] \in RolesOf(e[1]) /\ e[2] \in Roles /\ e = <<e[1], e[2]>>
<1>1. PICK h \in Handles : e \in EndpointsOf(h)
  BY DEF Endpoints
<1>2. PICK r \in RolesOf(h) : e = <<h, r>>
  BY <1>1 DEF EndpointsOf
<1> QED  BY <1>2, EndpointsOfHandle

\* A failed creation touches the handle's own endpoints only.
LEMMA Abandoned ==
  ASSUME TypeOK, NEW h \in Handles,
         \E left \in LeftBehind(h) \cup SUBSET EndpointsOf(h) : Abandon(h, left)
  PROVE  /\ exists' \subseteq Endpoints
         /\ pc' \in [Handles -> Steps]
         /\ \A e : e \notin EndpointsOf(h) => (e \in exists' <=> e \in exists)
<1>1. PICK left \in SUBSET EndpointsOf(h) : Abandon(h, left)
  BY DEF LeftBehind
<1>2. EndpointsOf(h) \subseteq Endpoints
  BY EndpointsOfHandle
<1> QED  BY <1>1, <1>2 DEF Abandon, Goto, TypeOK, Steps

\* An update of one entry of a table.
LEMMA TableUpdate ==
  ASSUME NEW A, NEW B, NEW C, NEW f \in [A -> [B -> C]], NEW a \in A, NEW b \in B, NEW c \in C
  PROVE  [f EXCEPT ![a][b] = c] \in [A -> [B -> C]]
<1>1. [f[a] EXCEPT ![b] = c] \in [B -> C]
  OBVIOUS
<1> QED  BY <1>1

LEMMA EntryUpdate ==
  ASSUME NEW A, NEW B, NEW C, NEW f \in [A -> [B -> C]], NEW a \in A, NEW b \in B, NEW c,
         NEW u \in A, NEW v \in B
  PROVE  [f EXCEPT ![a][b] = c][u][v] = IF u = a /\ v = b THEN c ELSE f[u][v]
OBVIOUS

\* An update of one map of a cache with gids of its role.
MapsTyped(maps) ==
  /\ maps \in [Participants -> [Roles -> SUBSET (Handles \X Roles)]]
  /\ \A q \in Participants, r \in Roles : maps[q][r] \subseteq Handles \X {r}

LEMMA MapUpdate ==
  ASSUME NEW maps, MapsTyped(maps), NEW q \in Participants, NEW r \in Roles,
         NEW gids \in SUBSET (Handles \X {r})
  PROVE  MapsTyped([maps EXCEPT ![q][r] = gids])
<1> DEFINE new == [maps EXCEPT ![q][r] = gids]
<1>1. gids \in SUBSET (Handles \X Roles)
  OBVIOUS
<1>2. new \in [Participants -> [Roles -> SUBSET (Handles \X Roles)]]
  BY <1>1, TableUpdate, Zenon DEF MapsTyped
<1>3. ASSUME NEW u \in Participants, NEW s \in Roles PROVE new[u][s] \subseteq Handles \X {s}
  <2>1. CASE u = q /\ s = r
    BY <2>1 DEF MapsTyped
  <2>2. CASE u # q \/ s # r
    BY <2>2 DEF MapsTyped
  <2> QED  BY <2>1, <2>2
<1> QED  BY <1>2, <1>3 DEF MapsTyped

\* A published message goes to the queues.
LEMMA PublishTyped ==
  ASSUME TypeOK, NEW p \in Participants, NEW m \in SUBSET Endpoints, PublishUpdate(p, m)
  PROVE  /\ queue' \in [Participants -> [Participants -> Seq(SUBSET Endpoints)]]
         /\ last' \in [Participants -> SUBSET Endpoints]
BY DEF TypeOK, PublishUpdate

\* The state has its types: in particular no reader is ever in the map of the
\* writers, from wherever the announcements of endpoints came.
THEOREM TypeCorrect == Spec => []TypeOK
<1>1. Init => TypeOK
  BY GraphAssumption DEF Init, TypeOK, Steps, Roles
<1>2. TypeOK /\ [Next]_vars => TypeOK'
  <2> SUFFICES ASSUME TypeOK, [Next]_vars PROVE TypeOK'
    OBVIOUS
  <2>0. \A h \in Handles : /\ Owner[h] \in Participants /\ EndpointsOf(h) \subseteq Endpoints
                           /\ RolesOf(h) \subseteq Roles
    BY GraphAssumption, EndpointsOfHandle
  <2>1. ASSUME NEW h \in Handles, CreateEndpoints(h) PROVE TypeOK'
    <3>1. exists' \subseteq Endpoints /\ pc' \in [Handles -> Steps]
      <4>1. CASE \E left \in SUBSET EndpointsOf(h) : Abandon(h, left)
        BY <4>1, Abandoned
      <4>2. CASE ~\E left \in SUBSET EndpointsOf(h) : Abandon(h, left)
        BY <2>0, <2>1, <4>2 DEF CreateEndpoints, Goto, TypeOK, Steps, UnderMutex
      <4> QED  BY <4>1, <4>2
    <3> QED  BY <2>1, <3>1 DEF CreateEndpoints, TypeOK, cacheVars, historyVars
  <2>2. ASSUME NEW h \in Handles, NEW r \in Roles, AddEntity(h, r) PROVE TypeOK'
    <3>1. exists' \subseteq Endpoints /\ pc' \in [Handles -> Steps]
      <4>1. CASE \E left \in LeftBehind(h) : Abandon(h, left)
        BY <4>1, Abandoned
      <4>2. CASE ~\E left \in LeftBehind(h) : Abandon(h, left)
        BY <2>2, <4>2 DEF AddEntity, Goto, TypeOK, Steps, UnderMutex
      <4> QED  BY <4>1, <4>2
    <3>3. \/ entities' = [entities EXCEPT ![Owner[h]][r] = @ \cup {<<h, r>>}]
          \/ entities' = entities
      BY <2>2 DEF AddEntity
    <3>4. MapsTyped(entities')
      <4>1. /\ MapsTyped(entities)
            /\ entities[Owner[h]][r] \cup {<<h, r>>} \in SUBSET (Handles \X {r})
        BY <2>0 DEF TypeOK, MapsTyped
      <4>2. MapsTyped([entities EXCEPT ![Owner[h]][r] = entities[Owner[h]][r] \cup {<<h, r>>}])
        BY <2>0, <4>1, MapUpdate
      <4> QED  BY <3>3, <4>1, <4>2
    <3> QED  BY <2>2, <3>1, <3>4 DEF AddEntity, TypeOK, MapsTyped, historyVars
  <2>3. ASSUME NEW h \in Handles, Associate(h) PROVE TypeOK'
    <3> DEFINE all == nodeEntities[Owner[h]][Owner[h]] \cup EndpointsOf(h)
    <3>1. exists' \subseteq Endpoints /\ pc' \in [Handles -> Steps]
      <4>1. CASE \E left \in LeftBehind(h) : Abandon(h, left)
        BY <4>1, Abandoned
      <4>2. CASE ~\E left \in LeftBehind(h) : Abandon(h, left)
        BY <2>3, <4>2 DEF Associate, Goto, TypeOK, Steps, UnderMutex
      <4> QED  BY <4>1, <4>2
    <3>3. \/ entities' = [entities EXCEPT ![Owner[h]] = RolledBack(h)]
          \/ entities' = entities
      BY <2>3 DEF Associate
    <3>4. MapsTyped(entities')
      <4>1. /\ MapsTyped(entities) /\ "writer" \in Roles
            /\ entities[Owner[h]]["writer"] \ EndpointsOf(h) \in SUBSET (Handles \X {"writer"})
        BY <2>0 DEF TypeOK, MapsTyped, Roles
      <4>2. \/ entities' = [entities EXCEPT ![Owner[h]]["writer"] = @ \ EndpointsOf(h)]
            \/ entities' = [entities EXCEPT ![Owner[h]] = entities[Owner[h]]]
            \/ entities' = entities
        BY <3>3 DEF RolledBack
      <4>3. MapsTyped([entities EXCEPT ![Owner[h]] = entities[Owner[h]]])
        BY <4>1 DEF MapsTyped
      <4>4. MapsTyped([entities EXCEPT ![Owner[h]]["writer"] =
                         entities[Owner[h]]["writer"] \ EndpointsOf(h)])
        BY <2>0, <4>1, MapUpdate
      <4> QED  BY <4>1, <4>2, <4>3, <4>4
    <3>5. all \in SUBSET Endpoints
      BY <2>0 DEF TypeOK
    <3>6. /\ nodeEntities' \in [Participants -> [Participants -> SUBSET Endpoints]]
          /\ queue' \in [Participants -> [Participants -> Seq(SUBSET Endpoints)]]
          /\ last' \in [Participants -> SUBSET Endpoints]
      <4>1. CASE UNCHANGED <<queue, last, nodeEntities>>
        BY <4>1 DEF TypeOK
      <4>2. CASE /\ nodeEntities' = [nodeEntities EXCEPT ![Owner[h]][Owner[h]] = all]
                 /\ PublishUpdate(Owner[h], all)
        BY <4>2, <3>5, <2>0, PublishTyped DEF TypeOK
      <4> QED  BY <4>1, <4>2, <2>3 DEF Associate
    <3> QED  BY <2>3, <3>1, <3>4, <3>6 DEF Associate, TypeOK, MapsTyped
  <2>4. ASSUME NEW h \in Handles, NEW r \in Roles, RemoveEntity(h, r) PROVE TypeOK'
    <3>1. pc' \in [Handles -> Steps]
      BY <2>4 DEF RemoveEntity, Goto, TypeOK, Steps
    <3>2. entities' = [entities EXCEPT ![Owner[h]][r] = @ \ {<<h, r>>}]
      BY <2>4 DEF RemoveEntity, Removed
    <3>3. MapsTyped(entities')
      <4>1. /\ MapsTyped(entities)
            /\ entities[Owner[h]][r] \ {<<h, r>>} \in SUBSET (Handles \X {r})
        BY <2>0 DEF TypeOK, MapsTyped
      <4> QED  BY <2>0, <3>2, <4>1, MapUpdate
    <3> QED  BY <2>4, <3>1, <3>3 DEF RemoveEntity, TypeOK, MapsTyped, ddsVars, historyVars
  <2>5. ASSUME NEW h \in Handles, Dissociate(h) \/ DissociateService(h) PROVE TypeOK'
    <3>1. Dissociated(h) \in SUBSET Endpoints
      BY <2>0 DEF Dissociated, TypeOK
    <3>2. nodeEntities' \in [Participants -> [Participants -> SUBSET Endpoints]]
      <4>1. nodeEntities' = [nodeEntities EXCEPT ![Owner[h]][Owner[h]] = Dissociated(h)]
        BY <2>5 DEF Dissociate, DissociateService
      <4> QED  BY <2>0, <3>1, <4>1, TableUpdate DEF TypeOK
    <3>3. /\ queue' \in [Participants -> [Participants -> Seq(SUBSET Endpoints)]]
          /\ last' \in [Participants -> SUBSET Endpoints]
      <4>1. PublishUpdate(Owner[h], Dissociated(h)) \/ UNCHANGED <<queue, last>>
        BY <2>5 DEF Dissociate, DissociateService
      <4> QED  BY <2>0, <3>1, <4>1, PublishTyped DEF TypeOK
    <3>4. pc' \in [Handles -> Steps]
      BY <2>5 DEF Dissociate, DissociateService, Goto, TypeOK, Steps
    <3>5. unpublished' \subseteq Handles
      BY <2>5 DEF Dissociate, DissociateService, TypeOK
    <3> QED
      BY <2>5, <3>2, <3>3, <3>4, <3>5 DEF Dissociate, DissociateService, TypeOK
  <2>6. ASSUME NEW h \in Handles, DeleteEndpoint(h) PROVE TypeOK'
    BY <2>6 DEF DeleteEndpoint, Goto, TypeOK, Steps, cacheVars, historyVars
  <2>7. ASSUME NEW h \in Handles, DeleteWriter(h) PROVE TypeOK'
    BY <2>7 DEF DeleteWriter, Goto, TypeOK, Steps, UnderMutex, cacheVars, historyVars
  <2>8. ASSUME NEW h \in Handles, DeleteReader(h) PROVE TypeOK'
    BY <2>8 DEF DeleteReader, Goto, TypeOK, Steps, UnderMutex, cacheVars, historyVars
  <2>9. ASSUME NEW h \in Handles, NEW r \in Roles, RemoveServiceEntity(h, r) PROVE TypeOK'
    <3>1. pc' \in [Handles -> Steps]
      BY <2>9 DEF RemoveServiceEntity, Goto, TypeOK, Steps, UnderMutex
    <3>2. entities' = [entities EXCEPT ![Owner[h]][r] = @ \ {<<h, r>>}]
      BY <2>9 DEF RemoveServiceEntity, Removed
    <3>3. MapsTyped(entities')
      <4>1. /\ MapsTyped(entities)
            /\ entities[Owner[h]][r] \ {<<h, r>>} \in SUBSET (Handles \X {r})
        BY <2>0 DEF TypeOK, MapsTyped
      <4> QED  BY <2>0, <3>2, <4>1, MapUpdate
    <3> QED  BY <2>9, <3>1, <3>3 DEF RemoveServiceEntity, TypeOK, MapsTyped, ddsVars, historyVars
  <2>11. ASSUME NEW q \in Participants, NEW e \in Endpoints,
                EndpointAppears(q, e) \/ EndpointDisappears(q, e)
         PROVE TypeOK'
    <3>1. e[1] \in Handles /\ e[2] \in Roles /\ e = <<e[1], e[2]>>
      BY EndpointIsGid
    <3>2. announced' \in [Participants -> SUBSET Endpoints]
      <4>1. \/ announced' = [announced EXCEPT ![q] = announced[q] \cup {e}]
            \/ announced' = [announced EXCEPT ![q] = announced[q] \ {e}]
        BY <2>11 DEF EndpointAppears, EndpointDisappears
      <4>2. announced[q] \cup {e} \in SUBSET Endpoints /\ announced[q] \ {e} \in SUBSET Endpoints
        BY DEF TypeOK
      <4>3. announced \in [Participants -> SUBSET Endpoints]
        BY DEF TypeOK
      <4> QED  BY <4>1, <4>2, <4>3
    <3>3. \/ entities' = entities
          \/ entities' = [entities EXCEPT ![q][e[2]] = @ \cup {e}]
          \/ entities' = [entities EXCEPT ![q]["writer"] = @ \ {e}]
      BY <2>11 DEF EndpointAppears, EndpointDisappears, MapOf
    <3>4. MapsTyped(entities')
      <4>1. /\ MapsTyped(entities) /\ "writer" \in Roles
            /\ entities[q][e[2]] \cup {e} \in SUBSET (Handles \X {e[2]})
            /\ entities[q]["writer"] \ {e} \in SUBSET (Handles \X {"writer"})
        BY <3>1 DEF TypeOK, MapsTyped, Roles
      <4>2. MapsTyped([entities EXCEPT ![q][e[2]] = entities[q][e[2]] \cup {e}])
        BY <3>1, <4>1, MapUpdate
      <4>3. MapsTyped([entities EXCEPT ![q]["writer"] = entities[q]["writer"] \ {e}])
        BY <4>1, MapUpdate
      <4> QED  BY <3>3, <4>1, <4>2, <4>3
    <3> QED
      BY <2>11, <3>2, <3>4 DEF EndpointAppears, EndpointDisappears, TypeOK, MapsTyped, historyVars
  <2>13. ASSUME NEW q \in Participants, NEW p \in Participants, ParticipantAppears(q, p)
         PROVE TypeOK'
    <3>1. /\ discovered' = [discovered EXCEPT ![q][p] = "found"]
          /\ known' = known \/ known' = [known EXCEPT ![q] = @ \cup {p}]
          /\ nodeEntities' = nodeEntities
      BY <2>13 DEF ParticipantAppears, Kept, TypeOK
    <3>2. /\ discovered' \in [Participants -> [Participants -> {"unknown", "found", "lost"}]]
          /\ known' \in [Participants -> SUBSET Participants]
      <4>1. discovered' \in [Participants -> [Participants -> {"unknown", "found", "lost"}]]
        BY <3>1, TableUpdate DEF TypeOK
      <4>2. known[q] \cup {p} \in SUBSET Participants
        BY DEF TypeOK
      <4>3. [known EXCEPT ![q] = known[q] \cup {p}] \in [Participants -> SUBSET Participants]
        BY <4>2 DEF TypeOK
      <4>4. known \in [Participants -> SUBSET Participants]
        BY DEF TypeOK
      <4> QED  BY <3>1, <4>1, <4>3, <4>4
    <3> QED  BY <2>13, <3>1, <3>2 DEF ParticipantAppears, TypeOK, historyVars
  <2>14. ASSUME NEW q \in Participants, NEW p \in Participants, ParticipantDisappears(q, p)
         PROVE TypeOK'
    <3>1. /\ discovered' = [discovered EXCEPT ![q][p] = "lost"]
          /\ known' = [known EXCEPT ![q] = known[q] \ {p}]
          /\ nodeEntities' = [nodeEntities EXCEPT ![q][p] = {}]
      BY <2>14 DEF ParticipantDisappears, ParticipantRemoved
    <3>2. discovered' \in [Participants -> [Participants -> {"unknown", "found", "lost"}]]
      BY <3>1, TableUpdate DEF TypeOK
    <3>3. known' \in [Participants -> SUBSET Participants]
      <4>1. known[q] \ {p} \in SUBSET Participants
        BY DEF TypeOK
      <4>2. known \in [Participants -> SUBSET Participants]
        BY DEF TypeOK
      <4> QED  BY <3>1, <4>1, <4>2
    <3>4. nodeEntities' \in [Participants -> [Participants -> SUBSET Endpoints]]
      <4>1. {} \in SUBSET Endpoints
        OBVIOUS
      <4> QED  BY <3>1, <4>1, TableUpdate DEF TypeOK
    <3>5. queue' \in [Participants -> [Participants -> Seq(SUBSET Endpoints)]]
      <4>1. PICK n \in 0..Len(queue[q][p]) : queue' = [queue EXCEPT ![q][p] = SubSeq(@, 1, n)]
        BY <2>14 DEF ParticipantDisappears
      <4>2. queue \in [Participants -> [Participants -> Seq(SUBSET Endpoints)]]
        BY DEF TypeOK
      <4>3. SubSeq(queue[q][p], 1, n) \in Seq(SUBSET Endpoints)
        BY <4>1, <4>2
      <4> QED  BY <4>1, <4>2, <4>3, TableUpdate
    <3> QED
      BY <2>14, <3>2, <3>3, <3>4, <3>5 DEF ParticipantDisappears, TypeOK, historyVars
  <2>15. ASSUME NEW q \in Participants, NEW p \in Participants, TakeInfo(q, p)
         PROVE TypeOK'
    <3>1. Head(queue[q][p]) \in SUBSET Endpoints /\ Tail(queue[q][p]) \in Seq(SUBSET Endpoints)
      BY <2>15 DEF TakeInfo, TypeOK
    <3>2. queue' \in [Participants -> [Participants -> Seq(SUBSET Endpoints)]]
      BY <2>15, <3>1 DEF TakeInfo, TypeOK
    <3>3. nodeEntities' \in [Participants -> [Participants -> SUBSET Endpoints]]
      BY <2>15, <3>1 DEF TakeInfo, TypeOK
    <3>4. known' \in [Participants -> SUBSET Participants]
      BY <2>15 DEF TakeInfo, TypeOK
    <3>5. late' \subseteq Participants \X Participants
      BY <2>15 DEF TakeInfo, TypeOK
    <3> QED  BY <2>15, <3>2, <3>3, <3>4, <3>5 DEF TakeInfo, TypeOK
  <2>16. ASSUME NEW q \in Participants, NEW p \in Participants, Overwrite(q, p)
         PROVE TypeOK'
    <3>1. Tail(queue[q][p]) \in Seq(SUBSET Endpoints)
      BY <2>16 DEF Overwrite, TypeOK
    <3>2. queue' \in [Participants -> [Participants -> Seq(SUBSET Endpoints)]]
      BY <2>16, <3>1 DEF Overwrite, TypeOK
    <3> QED  BY <2>16, <3>2 DEF Overwrite, TypeOK, cacheVars, historyVars
  <2>17. ASSUME NEW p \in Participants, Depart(p) PROVE TypeOK'
    BY <2>17 DEF Depart, TypeOK, cacheVars, historyVars
  <2>18. CASE UNCHANGED vars
    BY <2>18 DEF vars, TypeOK, ddsVars, cacheVars, historyVars
  <2> QED
    BY <2>0, <2>1, <2>2, <2>3, <2>4, <2>5, <2>6, <2>7, <2>8, <2>9, <2>11, <2>13, <2>14, <2>15,
       <2>16, <2>17, <2>18
    DEF Next, HandleStep, DdsThread, ListenerThread
<1> QED  BY <1>1, <1>2, PTL DEF Spec


-----------------------------------------------------------------------------
\* A step that leaves the endpoints of a handle where they are, in DDS as far as its
\* participant runs, keeps what the invariant says of the handle; a message may be
\* published in it.
LEMMA Untouched ==
  ASSUME NEW h \in Handles, HandleFits(h),
         pc'[h] = pc[h],
         Running(h)' => Running(h),
         unpublished \subseteq unpublished',
         \A r \in RolesOf(h) :
           /\ InDDS(h, r)' => InDDS(h, r)
           /\ Running(h)' /\ InDDS(h, r) => InDDS(h, r)'
           /\ InEntities(h, r)' <=> InEntities(h, r)
           /\ WithNode(h, r)' <=> WithNode(h, r)
           /\ Told(h, r)' => Told(h, r) \/ WithNode(h, r)'
  PROVE  HandleFits(h)'
<1>1. StepFits(h)'
  BY DEF HandleFits, StepFits, InGraph
<1>2. ASSUME NEW r \in RolesOf(h) PROVE DDSFits(h, r)'
  BY DEF HandleFits, DDSFits
<1>3. ASSUME NEW r \in RolesOf(h) PROVE CacheFits(h, r)'
  BY DEF HandleFits, CacheFits, InGraph
<1>4. ASSUME NEW r \in RolesOf(h) PROVE NodeFits(h, r)'
  BY DEF HandleFits, NodeFits, InGraph
<1>5. ASSUME NEW r \in RolesOf(h) PROVE LastFits(h, r)'
  BY DEF HandleFits, LastFits
<1> QED  BY <1>1, <1>2, <1>3, <1>4, <1>5 DEF HandleFits

\* Nothing that DDS or a peer does touches the endpoints of a handle where they are
\* registered: the announcements and messages of the participant itself are ignored,
\* and those of the others name other gids.  (A participant that has left hears
\* nothing, its own departure included.)
LEMMA OutsideKeeps ==
  ASSUME TypeOK, NEW h \in Handles, HandleFits(h), NEW q \in Participants,
         DdsThread(q) \/ ListenerThread(q) \/ Depart(q) \/ \E p \in Participants : Overwrite(q, p)
  PROVE  HandleFits(h)'
<1>0. Owner[h] \in Participants
  BY GraphAssumption
<1>1. ASSUME NEW e \in Endpoints, EndpointAppears(q, e) \/ EndpointDisappears(q, e)
      PROVE  HandleFits(h)'
  <2>1. e[1] \in Handles /\ e[2] \in Roles /\ e = <<e[1], e[2]>>
    BY EndpointIsGid
  <2>2. ASSUME NEW r \in RolesOf(h) PROVE InEntities(h, r)' <=> InEntities(h, r)
    <3>1. r \in Roles
      BY EndpointsOfHandle
    <3>2. e[1] = h /\ Owner[h] = q => entities' = entities
      BY <1>1 DEF EndpointAppears, EndpointDisappears, IsOwnAppearance, IsOwnDisappearance
    <3>3. \/ entities' = entities
          \/ entities' = [entities EXCEPT ![q][e[2]] = @ \cup {e}]
          \/ entities' = [entities EXCEPT ![q]["writer"] = @ \ {e}]
      BY <1>1 DEF EndpointAppears, EndpointDisappears, MapOf
    <3>4. e = <<h, r>> => e[1] = h
      OBVIOUS
    <3> QED  BY <1>0, <2>1, <3>1, <3>2, <3>3, <3>4 DEF InEntities, TypeOK
  <2> QED
    BY <1>1, <2>2, Untouched
    DEF EndpointAppears, EndpointDisappears, historyVars, Running, InDDS, WithNode, Told
<1>2. ASSUME NEW p \in Participants, ParticipantAppears(q, p) PROVE HandleFits(h)'
  <2>1. nodeEntities' = nodeEntities
    BY <1>2 DEF ParticipantAppears, Kept, TypeOK
  <2> QED
    BY <1>2, <2>1, Untouched
    DEF ParticipantAppears, historyVars, Running, InDDS, InEntities, WithNode, Told
<1>3. ASSUME NEW p \in Participants, ParticipantDisappears(q, p) PROVE HandleFits(h)'
  <2>1. p # q
    BY <1>3 DEF ParticipantDisappears
  <2>2. nodeEntities'[Owner[h]][Owner[h]] = nodeEntities[Owner[h]][Owner[h]]
    BY <1>0, <1>3, <2>1 DEF ParticipantDisappears, TypeOK
  <2> QED
    BY <1>3, <2>2, Untouched
    DEF ParticipantDisappears, historyVars, Running, InDDS, InEntities, WithNode, Told
<1>4. ASSUME NEW p \in Participants, TakeInfo(q, p) PROVE HandleFits(h)'
  <2>1. nodeEntities'[Owner[h]][Owner[h]] = nodeEntities[Owner[h]][Owner[h]]
    BY <1>0, <1>4 DEF TakeInfo, IsOwnMessage, TypeOK
  <2> QED
    BY <1>4, <2>1, Untouched DEF TakeInfo, Running, InDDS, InEntities, WithNode, Told
<1>5. ASSUME NEW p \in Participants, Overwrite(q, p) PROVE HandleFits(h)'
  BY <1>5, Untouched
  DEF Overwrite, cacheVars, historyVars, Running, InDDS, InEntities, WithNode, Told
<1>6. CASE Depart(q)
  <2>1. ASSUME NEW r \in RolesOf(h)
        PROVE  /\ InDDS(h, r)' => InDDS(h, r)
               /\ Running(h)' /\ InDDS(h, r) => InDDS(h, r)'
    BY <1>6 DEF Depart, EndpointsAt, InDDS, Running
  <2> QED
    BY <1>6, <2>1, Untouched
    DEF Depart, cacheVars, historyVars, Running, InEntities, WithNode, Told
<1> QED  BY <1>1, <1>2, <1>3, <1>4, <1>5, <1>6 DEF DdsThread, ListenerThread

\* What becomes of the maps and the message of a participant when a handle of it is
\* added to or removed from them.
LEMMA PublishTold ==
  ASSUME TypeOK, NEW p \in Participants, NEW m, PublishUpdate(p, m),
         nodeEntities' = [nodeEntities EXCEPT ![p][p] = m],
         NEW h \in Handles, NEW r \in RolesOf(h)
  PROVE  Told(h, r)' => Told(h, r) \/ WithNode(h, r)'
<1>1. Owner[h] \in Participants
  BY GraphAssumption
<1> QED  BY <1>1 DEF PublishUpdate, Told, WithNode, TypeOK

\* A step of the calls for another handle does not touch the endpoints of a handle.
LEMMA OtherHandleKeeps ==
  ASSUME TypeOK, NEW h \in Handles, HandleFits(h), NEW g \in Handles, g # h, HandleStep(g)
  PROVE  HandleFits(h)'
<1>0. Owner[h] \in Participants /\ Owner[g] \in Participants
  BY GraphAssumption
<1>1. pc'[h] = pc[h]
  BY DEF HandleStep, CreateEndpoints, AddEntity, Associate, Abandon, RemoveEntity, Dissociate,
         DeleteEndpoint, DeleteWriter, DeleteReader, RemoveServiceEntity, DissociateService,
         Goto, TypeOK
<1>2. present' = present
  BY DEF HandleStep, CreateEndpoints, AddEntity, Associate, RemoveEntity, Dissociate,
         DeleteEndpoint, DeleteWriter, DeleteReader, RemoveServiceEntity, DissociateService,
         ddsVars
<1>3. unpublished \subseteq unpublished'
  BY DEF HandleStep, CreateEndpoints, AddEntity, Associate, RemoveEntity, Dissociate,
         DeleteEndpoint, DeleteWriter, DeleteReader, RemoveServiceEntity, DissociateService,
         historyVars
<1>4. ASSUME NEW r \in RolesOf(h) PROVE InDDS(h, r)' <=> InDDS(h, r)
  <2>1. <<h, r>> \notin EndpointsOf(g)
    BY DEF EndpointsOf
  <2>2. CASE \E left \in LeftBehind(g) \cup SUBSET EndpointsOf(g) : Abandon(g, left)
    BY <2>1, <2>2, Abandoned DEF InDDS
  <2>3. CASE ~\E left \in LeftBehind(g) \cup SUBSET EndpointsOf(g) : Abandon(g, left)
    BY <2>1, <2>3 DEF HandleStep, CreateEndpoints, AddEntity, Associate, RemoveEntity,
       Dissociate, DeleteEndpoint, DeleteWriter, DeleteReader, RemoveServiceEntity,
       DissociateService, ddsVars, InDDS
  <2> QED  BY <2>2, <2>3
<1>5. ASSUME NEW r \in RolesOf(h) PROVE InEntities(h, r)' <=> InEntities(h, r)
  <2>1. r \in Roles /\ "writer" \in Roles /\ <<h, r>> \notin EndpointsOf(g)
    BY EndpointsOfHandle DEF Roles, EndpointsOf
  <2>0. entities \in [Participants -> [Roles -> SUBSET (Handles \X Roles)]]
    BY DEF TypeOK
  <2>2. ASSUME NEW s \in RolesOf(g), AddEntity(g, s) \/ RemoveEntity(g, s) \/ RemoveServiceEntity(g, s)
        PROVE  InEntities(h, r)' <=> InEntities(h, r)
    <3>1. \/ entities' = [entities EXCEPT ![Owner[g]][s] = @ \cup {<<g, s>>}]
          \/ entities' = [entities EXCEPT ![Owner[g]][s] = @ \ {<<g, s>>}]
          \/ entities' = entities
      BY <2>2 DEF AddEntity, RemoveEntity, RemoveServiceEntity, Removed
    <3>2. <<h, r>> # <<g, s>> /\ s \in Roles
      BY EndpointsOfHandle
    <3>3. <<h, r>> \in entities'[Owner[h]][r] <=> <<h, r>> \in entities[Owner[h]][r]
      <4>1. CASE entities' = [entities EXCEPT ![Owner[g]][s] = @ \cup {<<g, s>>}]
        BY <1>0, <2>0, <2>1, <3>2, <4>1
      <4>2. CASE entities' = [entities EXCEPT ![Owner[g]][s] = @ \ {<<g, s>>}]
        BY <1>0, <2>0, <2>1, <3>2, <4>2
      <4> QED  BY <3>1, <4>1, <4>2
    <3> QED  BY <3>3 DEF InEntities
  <2>3. CASE Associate(g)
    <3>1. \/ entities' = [entities EXCEPT ![Owner[g]]["writer"] = @ \ EndpointsOf(g)]
          \/ entities' = entities
      BY <1>0, <2>0, <2>3 DEF Associate, RolledBack
    <3> QED  BY <1>0, <2>0, <2>1, <3>1, EntryUpdate DEF InEntities
  <2>4. CASE \/ CreateEndpoints(g) \/ Dissociate(g) \/ DeleteEndpoint(g)
             \/ DeleteWriter(g) \/ DeleteReader(g) \/ DissociateService(g)
    BY <2>4 DEF CreateEndpoints, Dissociate, DeleteEndpoint, DeleteWriter, DeleteReader,
                DissociateService, cacheVars, InEntities
  <2> QED  BY <2>2, <2>3, <2>4 DEF HandleStep
<1>6. ASSUME NEW r \in RolesOf(h)
      PROVE  /\ WithNode(h, r)' <=> WithNode(h, r)
             /\ Told(h, r)' => Told(h, r) \/ WithNode(h, r)'
  <2>1. <<h, r>> \notin EndpointsOf(g)
    BY DEF EndpointsOf
  <2>2. CASE Associate(g)
    <3>1. CASE UNCHANGED <<queue, last, nodeEntities>>
      BY <3>1 DEF WithNode, Told
    <3> DEFINE all == nodeEntities[Owner[g]][Owner[g]] \cup EndpointsOf(g)
    <3>2. CASE /\ nodeEntities' = [nodeEntities EXCEPT ![Owner[g]][Owner[g]] = all]
               /\ PublishUpdate(Owner[g], all)
      <4>1. WithNode(h, r)' <=> WithNode(h, r)
        BY <1>0, <2>1, <3>2 DEF WithNode, TypeOK
      <4> QED  BY <1>0, <3>2, <4>1, PublishTold
    <3> QED  BY <2>2, <3>1, <3>2 DEF Associate
  <2>3. CASE Dissociate(g) \/ DissociateService(g)
    <3>1. nodeEntities' = [nodeEntities EXCEPT ![Owner[g]][Owner[g]] = Dissociated(g)]
      BY <2>3 DEF Dissociate, DissociateService
    <3>2. WithNode(h, r)' <=> WithNode(h, r)
      BY <1>0, <2>1, <3>1 DEF WithNode, Dissociated, TypeOK
    <3>3. PublishUpdate(Owner[g], Dissociated(g)) \/ last' = last
      BY <2>3 DEF Dissociate, DissociateService
    <3>4. Told(h, r)' => Told(h, r) \/ WithNode(h, r)'
      BY <1>0, <3>1, <3>3, PublishTold DEF Told
    <3> QED  BY <3>2, <3>4
  <2>4. CASE \/ CreateEndpoints(g) \/ DeleteEndpoint(g) \/ DeleteWriter(g) \/ DeleteReader(g)
             \/ \E s \in RolesOf(g) : AddEntity(g, s) \/ RemoveEntity(g, s) \/ RemoveServiceEntity(g, s)
    BY <2>4 DEF CreateEndpoints, DeleteEndpoint, DeleteWriter, DeleteReader, AddEntity,
                RemoveEntity, RemoveServiceEntity, cacheVars, historyVars, WithNode, Told
  <2> QED  BY <2>2, <2>3, <2>4 DEF HandleStep
<1> QED
  BY <1>1, <1>2, <1>3, <1>4, <1>5, <1>6, Untouched DEF Running

\* A step of the calls for a handle takes its endpoints from where they are at one step
\* to where they are at the next.
LEMMA OwnStepKeeps ==
  ASSUME TypeOK, NEW h \in Handles, HandleFits(h), HandleStep(h)
  PROVE  HandleFits(h)'
<1> DEFINE p == Owner[h]
<1>0. /\ p \in Participants /\ Kind[h] \in Kinds /\ pc \in [Handles -> Steps]
      /\ entities \in [Participants -> [Roles -> SUBSET (Handles \X Roles)]]
      /\ nodeEntities \in [Participants -> [Participants -> SUBSET Endpoints]]
  BY GraphAssumption DEF TypeOK
<1>r. /\ \A r \in RolesOf(h) : r \in Roles /\ <<h, r>> \in EndpointsOf(h)
      /\ IsService(h) => RolesOf(h) = Roles
      /\ Kind[h] = "pub" => RolesOf(h) = {"writer"} /\ ~IsService(h)
      /\ Kind[h] = "sub" => RolesOf(h) = {"reader"} /\ ~IsService(h)
      /\ IsService(h) \/ Kind[h] = "pub" \/ Kind[h] = "sub"
      /\ IsService(h) => InGraph(h)
  BY <1>0, EndpointsOfHandle DEF RolesOf, IsService, InGraph, Kinds
<1>s. StepFits(h) /\ \A r \in RolesOf(h) : DDSFits(h, r) /\ CacheFits(h, r) /\ NodeFits(h, r)
                                           /\ LastFits(h, r)
  BY DEF HandleFits
<1>p. ASSUME NEW step, Goto(h, step) PROVE pc'[h] = step
  BY <1>0, <1>p DEF Goto
<1>a. ASSUME NEW left, Abandon(h, left) PROVE pc'[h] = "failed"
  BY <1>a, <1>p DEF Abandon
<1>1. CASE CreateEndpoints(h)
  <2>1. /\ pc[h] = "none"
        /\ \/ /\ exists' = exists \cup EndpointsOf(h)
              /\ pc'[h] = IF ~InGraph(h) THEN "live"
                          ELSE IF "reader" \in RolesOf(h) THEN "add_reader" ELSE "add_writer"
           \/ pc'[h] = "failed"
    BY <1>1, <1>a, <1>p DEF CreateEndpoints
  <2>2. ASSUME NEW r \in RolesOf(h)
        PROVE  /\ InDDS(h, r)' \/ pc'[h] = "failed"
               /\ (InEntities(h, r)' <=> InEntities(h, r))
               /\ (WithNode(h, r)' <=> WithNode(h, r)) /\ (Told(h, r)' <=> Told(h, r))
    BY <1>1, <1>r, <2>1
    DEF CreateEndpoints, cacheVars, historyVars, InDDS, InEntities, WithNode, Told
  <2>3. unpublished' = unpublished
    BY <1>1 DEF CreateEndpoints, historyVars
  <2>4. StepFits(h)'
    BY <1>r, <2>1 DEF StepFits, Steps, UnderMutex, InGraph, Roles
  <2>5. ASSUME NEW r \in RolesOf(h)
        PROVE  (DDSFits(h, r) /\ CacheFits(h, r) /\ NodeFits(h, r) /\ LastFits(h, r))'
    BY <1>r, <1>s, <2>1, <2>2, <2>3
    DEF DDSFits, CacheFits, NodeFits, LastFits, InGraph, Roles
  <2> QED  BY <2>4, <2>5 DEF HandleFits
<1>2. ASSUME NEW s \in RolesOf(h), AddEntity(h, s) PROVE HandleFits(h)'
  <2>0. s \in Roles /\ pc[h] = (IF s = "reader" THEN "add_reader" ELSE "add_writer")
    BY <1>2, <1>r DEF AddEntity, AddStep, Roles
  <2>1. InGraph(h)
    BY <1>s, <2>0 DEF StepFits
  <2>2. ASSUME NEW r \in RolesOf(h)
        PROVE  /\ WithNode(h, r)' <=> WithNode(h, r)
               /\ Told(h, r)' <=> Told(h, r)
    BY <1>2 DEF AddEntity, historyVars, WithNode, Told
  <2>3. unpublished' = unpublished
    BY <1>2 DEF AddEntity, historyVars
  <2>4. CASE /\ entities' = [entities EXCEPT ![p][s] = @ \cup {<<h, s>>}]
             /\ Goto(h, IF s = "reader" /\ IsService(h) THEN "add_writer" ELSE "associate")
             /\ UNCHANGED exists
    <3>1. pc'[h] = IF s = "reader" /\ IsService(h) THEN "add_writer" ELSE "associate"
      BY <2>4, <1>p
    <3>2. ASSUME NEW r \in RolesOf(h)
          PROVE  InEntities(h, r)' <=> (r = s \/ InEntities(h, r))
      <4>1. entities'[p][r] = IF r = s THEN entities[p][s] \cup {<<h, s>>} ELSE entities[p][r]
        <5>1. r \in Roles
          BY <1>r
        <5>2. entities' = [entities EXCEPT ![p][s] = @ \cup {<<h, s>>}]
          BY <2>4
        <5> QED  BY <1>0, <5>1, <5>2
      <4> QED  BY <4>1 DEF InEntities
    <3>3. ASSUME NEW r \in RolesOf(h) PROVE InDDS(h, r)' <=> InDDS(h, r)
      BY <2>4 DEF InDDS
    <3>4. Running(h)' => Running(h)
      BY <1>2 DEF AddEntity, Running
    <3>5. StepFits(h)'
      BY <1>r, <2>1, <3>1 DEF StepFits, Steps, UnderMutex, InGraph, Roles
    <3>6. ASSUME NEW r \in RolesOf(h)
          PROVE  (DDSFits(h, r) /\ CacheFits(h, r) /\ NodeFits(h, r) /\ LastFits(h, r))'
      <4>1. DDSFits(h, r)'
        BY <1>s, <2>0, <3>1, <3>3, <3>4 DEF DDSFits
      <4>2. CacheFits(h, r)'
        BY <1>r, <1>s, <2>0, <2>1, <3>1, <3>2 DEF CacheFits, Roles
      <4>3. NodeFits(h, r)' /\ LastFits(h, r)'
        BY <1>s, <2>0, <2>2, <2>3, <3>1 DEF NodeFits, LastFits
      <4> QED  BY <4>1, <4>2, <4>3
    <3> QED  BY <3>5, <3>6 DEF HandleFits
  <2>5. CASE (\E left \in LeftBehind(h) : Abandon(h, left)) /\ UNCHANGED entities
    <3>1. ASSUME NEW r \in RolesOf(h) PROVE InEntities(h, r)' <=> InEntities(h, r)
      BY <2>5 DEF InEntities
    <3>3. pc'[h] = "failed"
      BY <1>a, <2>5
    <3>4. StepFits(h)'
      BY <3>3 DEF StepFits, Steps
    <3>5. Kind[h] = "pub" => \A r \in RolesOf(h) : ~InEntities(h, r)
      BY <1>r, <1>s, <2>0, <2>1 DEF CacheFits
    <3>6. ASSUME NEW r \in RolesOf(h)
          PROVE  (DDSFits(h, r) /\ CacheFits(h, r) /\ NodeFits(h, r) /\ LastFits(h, r))'
      BY <1>r, <1>s, <2>0, <2>2, <2>3, <3>1, <3>3, <3>5
      DEF DDSFits, CacheFits, NodeFits, LastFits
    <3> QED  BY <3>4, <3>6 DEF HandleFits
  <2> QED  BY <1>2, <2>4, <2>5 DEF AddEntity
<1>3. CASE Associate(h)
  <2> DEFINE all == nodeEntities[p][p] \cup EndpointsOf(h)
  <2>1. pc[h] = "associate" /\ InGraph(h)
    BY <1>3, <1>s DEF Associate, StepFits
  <2>2. unpublished' = unpublished /\ (Running(h)' => Running(h))
    BY <1>3 DEF Associate, Running
  <2>3. CASE /\ nodeEntities' = [nodeEntities EXCEPT ![p][p] = all]
             /\ PublishUpdate(p, all) /\ Goto(h, "live") /\ UNCHANGED <<exists, entities>>
    <3>1. pc'[h] = "live"
      BY <2>3, <1>p
    <3>2. ASSUME NEW r \in RolesOf(h) PROVE WithNode(h, r)'
      <4>1. nodeEntities'[p][p] = all
        BY <1>0, <2>3, EntryUpdate
      <4> QED  BY <4>1, <1>r DEF WithNode
    <3>3. StepFits(h)'
      BY <3>1 DEF StepFits, Steps
    <3>4. ASSUME NEW r \in RolesOf(h)
          PROVE  (DDSFits(h, r) /\ CacheFits(h, r) /\ NodeFits(h, r) /\ LastFits(h, r))'
      <4>1. (InDDS(h, r)' <=> InDDS(h, r)) /\ (InEntities(h, r)' <=> InEntities(h, r))
        BY <2>3 DEF InDDS, InEntities
      <4>2. InGraph(h)'
        BY <2>1 DEF InGraph
      <4> QED
        BY <1>s, <2>1, <2>2, <3>1, <3>2, <4>1, <4>2 DEF DDSFits, CacheFits, NodeFits, LastFits
    <3> QED  BY <3>3, <3>4 DEF HandleFits
  <2>4. CASE /\ entities' = [entities EXCEPT ![p] = RolledBack(h)]
             /\ (\E left \in LeftBehind(h) : Abandon(h, left))
             /\ UNCHANGED <<queue, last, nodeEntities>>
    <3>1. pc'[h] = "failed"
      BY <1>a, <2>4
    <3>2. ASSUME Kind[h] = "pub", NEW r \in RolesOf(h) PROVE ~InEntities(h, r)'
      <4>1. entities'[p] = [entities[p] EXCEPT !["writer"] = @ \ EndpointsOf(h)]
        BY <1>0, <1>r, <2>4, <3>2 DEF RolledBack
      <4>2. r = "writer" /\ <<h, r>> \in EndpointsOf(h) /\ "writer" \in Roles
        BY <1>r, <3>2 DEF Roles
      <4>3. entities'[p]["writer"] = entities[p]["writer"] \ EndpointsOf(h)
        BY <1>0, <4>1, <4>2
      <4> QED  BY <4>2, <4>3 DEF InEntities
    <3>3. StepFits(h)'
      BY <3>1 DEF StepFits, Steps
    <3>4. ASSUME NEW r \in RolesOf(h)
          PROVE  (DDSFits(h, r) /\ CacheFits(h, r) /\ NodeFits(h, r) /\ LastFits(h, r))'
      <4>1. (WithNode(h, r)' <=> WithNode(h, r)) /\ (Told(h, r)' <=> Told(h, r))
        BY <2>4 DEF WithNode, Told
      <4> QED
        BY <1>s, <2>1, <2>2, <3>1, <3>2, <4>1 DEF DDSFits, CacheFits, NodeFits, LastFits
    <3> QED  BY <3>3, <3>4 DEF HandleFits
  <2> QED  BY <1>3, <2>3, <2>4 DEF Associate
<1>4. ASSUME NEW s \in RolesOf(h), RemoveEntity(h, s) PROVE HandleFits(h)'
  <2>0. s \in Roles
    BY <1>r
  <2>1. /\ pc[h] = "live" /\ ~IsService(h) /\ <<h, s>> \in entities[p][s]
        /\ pc'[h] = "dissociate"
        /\ entities' = [entities EXCEPT ![p][s] = @ \ {<<h, s>>}]
    BY <1>4, <1>p DEF RemoveEntity, Removed
  <2>2. /\ exists' = exists /\ present' = present /\ nodeEntities' = nodeEntities
        /\ last' = last /\ unpublished' = unpublished
    BY <1>4 DEF RemoveEntity, ddsVars, historyVars
  <2>3. ASSUME NEW r \in RolesOf(h) PROVE ~InEntities(h, r)'
    <3>1. r = s
      BY <1>r, <2>1
    <3>2. entities' = [entities EXCEPT ![p][s] = @ \ {<<h, s>>}]
      BY <2>1
    <3>3. entities'[p][s] = entities[p][s] \ {<<h, s>>}
      BY <1>0, <2>0, <3>2
    <3> QED  BY <3>1, <3>3 DEF InEntities
  <2>4. StepFits(h)'
    BY <2>1 DEF StepFits, Steps, UnderMutex, IsService
  <2>5. ASSUME NEW r \in RolesOf(h)
        PROVE  (DDSFits(h, r) /\ CacheFits(h, r) /\ NodeFits(h, r) /\ LastFits(h, r))'
    BY <1>s, <2>1, <2>2, <2>3
    DEF DDSFits, CacheFits, NodeFits, LastFits, InDDS, WithNode, Told, Running
  <2> QED  BY <2>4, <2>5 DEF HandleFits
<1>5. CASE Dissociate(h) \/ DissociateService(h)
  <2>1. /\ nodeEntities' = [nodeEntities EXCEPT ![p][p] = Dissociated(h)]
        /\ exists' = exists /\ present' = present /\ entities' = entities
    BY <1>5 DEF Dissociate, DissociateService
  <2>2. ASSUME NEW r \in RolesOf(h) PROVE ~WithNode(h, r)'
    <3>1. nodeEntities'[p][p] = Dissociated(h) /\ <<h, r>> \in EndpointsOf(h)
      BY <1>0, <1>r, <2>1
    <3> QED  BY <3>1 DEF Dissociated, WithNode
  <2>3. \/ /\ PublishUpdate(p, Dissociated(h)) /\ unpublished' = unpublished
        \/ /\ h \in unpublished'
    BY <1>5 DEF Dissociate, DissociateService
  <2>4. ASSUME NEW r \in RolesOf(h) PROVE LastFits(h, r)'
    <3>1. CASE PublishUpdate(p, Dissociated(h))
      <4>1. last'[p] = Dissociated(h)
        BY <3>1, <1>0 DEF PublishUpdate, TypeOK
      <4> QED  BY <4>1, <1>r DEF LastFits, Told, Dissociated
    <3>2. CASE h \in unpublished'
      BY <3>2 DEF LastFits
    <3> QED  BY <2>3, <3>1, <3>2
  <2>5. \/ pc[h] = "dissociate" /\ pc'[h] \in {"delete", "broken"}
        \/ pc[h] = "dissociate_service" /\ pc'[h] = "gone"
    BY <1>5, <1>p DEF Dissociate, DissociateService
  <2>6. StepFits(h)'
    BY <1>s, <2>5 DEF StepFits, Steps
  <2>7. ASSUME NEW r \in RolesOf(h) PROVE (DDSFits(h, r) /\ CacheFits(h, r) /\ NodeFits(h, r))'
    BY <1>s, <2>1, <2>2, <2>5
    DEF DDSFits, CacheFits, NodeFits, StepFits, InDDS, InEntities, Running
  <2> QED  BY <2>4, <2>6, <2>7 DEF HandleFits
<1>6. CASE DeleteEndpoint(h) \/ DeleteWriter(h) \/ DeleteReader(h)
  <2>1. /\ present' = present /\ entities' = entities /\ nodeEntities' = nodeEntities
        /\ last' = last /\ unpublished' = unpublished
    BY <1>6 DEF DeleteEndpoint, DeleteWriter, DeleteReader, cacheVars, historyVars
  <2>2. \/ /\ pc[h] = "delete" /\ pc'[h] = "gone" /\ exists' = exists \ EndpointsOf(h)
        \/ /\ pc[h] = "delete" /\ pc'[h] = "broken"
        \/ /\ pc[h] = "live" /\ IsService(h) /\ pc'[h] = "delete_reader"
           /\ exists' = exists \ {<<h, "writer">>}
        \/ /\ pc[h] = "delete_reader" /\ pc'[h] = "remove_reader"
           /\ exists' = exists \ {<<h, "reader">>}
        \/ /\ pc[h] = "delete_reader" /\ pc'[h] = "broken"
    BY <1>6, <1>p DEF DeleteEndpoint, DeleteWriter, DeleteReader
  <2>3. ASSUME NEW r \in RolesOf(h) PROVE DDSFits(h, r)'
    <3>1. r = "writer" \/ r = "reader"
      BY <1>r DEF Roles
    <3> QED  BY <1>r, <1>s, <2>2, <3>1 DEF DDSFits, StepFits, InDDS
  <2>4. ASSUME NEW r \in RolesOf(h) PROVE (CacheFits(h, r) /\ NodeFits(h, r) /\ LastFits(h, r))'
    BY <1>r, <1>s, <2>1, <2>2
    DEF CacheFits, NodeFits, LastFits, StepFits, InEntities, WithNode, Told
  <2>5. StepFits(h)'
    BY <1>s, <2>2 DEF StepFits, Steps, UnderMutex
  <2> QED  BY <2>3, <2>4, <2>5 DEF HandleFits
<1>7. ASSUME NEW s \in RolesOf(h), RemoveServiceEntity(h, s) PROVE HandleFits(h)'
  <2>1. s \in Roles /\ pc[h] = (IF s = "reader" THEN "remove_reader" ELSE "remove_writer")
    BY <1>7, <1>r DEF RemoveServiceEntity, RemoveStep, Roles
  <2>2. /\ pc'[h] = IF s = "reader" THEN "remove_writer" ELSE "dissociate_service"
        /\ entities' = [entities EXCEPT ![p][s] = @ \ {<<h, s>>}]
        /\ exists' = exists /\ present' = present /\ nodeEntities' = nodeEntities
        /\ last' = last /\ unpublished' = unpublished
    BY <1>7, <1>p DEF RemoveServiceEntity, Removed, ddsVars, historyVars
  <2>3. IsService(h)
    BY <1>s, <2>1 DEF StepFits
  <2>4. ASSUME NEW r \in RolesOf(h) PROVE InEntities(h, r)' <=> (r # s /\ InEntities(h, r))
    <3>1. r \in Roles
      BY <1>r
    <3>2. entities'[p][r] = IF r = s THEN entities[p][s] \ {<<h, s>>} ELSE entities[p][r]
      BY <1>0, <2>1, <2>2, <3>1
    <3> QED  BY <3>2 DEF InEntities
  <2>5. ASSUME NEW r \in RolesOf(h) PROVE CacheFits(h, r)'
    <3>1. r = "writer" \/ r = "reader"
      BY <1>r DEF Roles
    <3>2. CASE s = "reader"
      <4>1. pc[h] = "remove_reader" /\ pc'[h] = "remove_writer"
        BY <2>1, <2>2, <3>2
      <4>2. InEntities(h, r)' <=> r = "writer"
        BY <1>s, <2>4, <3>1, <3>2, <4>1 DEF CacheFits
      <4> QED  BY <4>1, <4>2 DEF CacheFits
    <3>3. CASE s = "writer"
      <4>1. pc[h] = "remove_writer" /\ pc'[h] = "dissociate_service"
        BY <2>1, <2>2, <3>3
      <4>2. ~InEntities(h, r)'
        BY <1>s, <2>4, <3>1, <3>3, <4>1 DEF CacheFits
      <4> QED  BY <4>1, <4>2 DEF CacheFits
    <3> QED  BY <2>1, <3>2, <3>3 DEF Roles
  <2>6. ASSUME NEW r \in RolesOf(h) PROVE (DDSFits(h, r) /\ NodeFits(h, r) /\ LastFits(h, r))'
    BY <1>s, <2>1, <2>2 DEF DDSFits, NodeFits, LastFits, InDDS, WithNode, Told
  <2>7. StepFits(h)'
    BY <2>2, <2>3 DEF StepFits, Steps, UnderMutex, IsService
  <2> QED  BY <2>5, <2>6, <2>7 DEF HandleFits
<1> QED  BY <1>1, <1>2, <1>3, <1>4, <1>5, <1>6, <1>7 DEF HandleStep

-----------------------------------------------------------------------------
\* The invariant holds in every state.
THEOREM HandlesFit == Spec => []GraphInv
<1>1. Init => Registration
  <2> SUFFICES ASSUME Init, NEW h \in Handles PROVE HandleFits(h)
    BY DEF Registration
  <2>1. pc[h] = "none" /\ Owner[h] \in Participants
    BY GraphAssumption DEF Init
  <2>2. StepFits(h)
    BY <2>1 DEF StepFits, Steps
  <2>3. ASSUME NEW r \in RolesOf(h)
        PROVE  ~InEntities(h, r) /\ ~WithNode(h, r) /\ ~Told(h, r)
    BY <2>1, EndpointsOfHandle DEF Init, InEntities, WithNode, Told
  <2>4. ASSUME NEW r \in RolesOf(h)
        PROVE  DDSFits(h, r) /\ CacheFits(h, r) /\ NodeFits(h, r) /\ LastFits(h, r)
    BY <2>1, <2>3 DEF DDSFits, CacheFits, NodeFits, LastFits
  <2> QED  BY <2>2, <2>4 DEF HandleFits
<1>2. TypeOK /\ Registration /\ [Next]_vars => Registration'
  <2> SUFFICES ASSUME TypeOK, Registration, [Next]_vars, NEW h \in Handles
               PROVE  HandleFits(h)'
    BY DEF Registration
  <2>0. HandleFits(h)
    BY DEF Registration
  <2>1. ASSUME NEW g \in Handles, HandleStep(g) PROVE HandleFits(h)'
    BY <2>0, <2>1, OwnStepKeeps, OtherHandleKeeps
  <2>2. ASSUME NEW q \in Participants,
               \/ DdsThread(q) \/ ListenerThread(q) \/ Depart(q)
               \/ \E p \in Participants : Overwrite(q, p)
        PROVE  HandleFits(h)'
    BY <2>0, <2>2, OutsideKeeps
  <2>3. CASE UNCHANGED vars
    BY <2>0, <2>3, Untouched
    DEF vars, ddsVars, cacheVars, historyVars, Running, InDDS, InEntities, WithNode, Told
  <2> QED  BY <2>1, <2>2, <2>3 DEF Next
<1> QED  BY <1>1, <1>2, TypeCorrect, PTL DEF Spec, GraphInv

\* A handle the application holds is in DDS, in the cache of its participant and with its
\* node, each under its role.
THEOREM LiveHandlesAreRegistered == Spec => []LiveIsRegistered
<1>1. GraphInv => LiveIsRegistered
  <2> SUFFICES ASSUME Registration, NEW h \in Handles, Running(h), pc[h] = "live"
               PROVE  /\ EndpointsOf(h) \subseteq exists
                      /\ InGraph(h) => InCache(h) = EndpointsOf(h) /\ OfNode(h) = EndpointsOf(h)
    BY DEF GraphInv, LiveIsRegistered
  <2>1. EndpointsOf(h) = {<<h, r>> : r \in RolesOf(h)}
    BY EndpointsOfHandle
  <2>2. ASSUME NEW r \in RolesOf(h)
        PROVE  /\ InDDS(h, r)
               /\ InGraph(h) => InEntities(h, r) /\ WithNode(h, r)
    BY DEF Registration, HandleFits, DDSFits, CacheFits, NodeFits
  <2>3. EndpointsOf(h) \subseteq exists
    BY <2>1, <2>2 DEF InDDS
  <2>4. InGraph(h) => InCache(h) = EndpointsOf(h)
    BY <2>1, <2>2 DEF InEntities, InCache
  <2>5. InGraph(h) => OfNode(h) = EndpointsOf(h)
    BY <2>1, <2>2 DEF WithNode, OfNode
  <2> QED  BY <2>3, <2>4, <2>5
<1> QED  BY <1>1, HandlesFit, PTL

\* A destroyed handle leaves nothing in DDS, in the cache or with the node; a failed
\* creation nothing with the node, and nothing in the cache if it is a publisher; and
\* the participant's last message tells of neither, unless it could not be published.
THEOREM EndedHandlesLeaveNoGhost == Spec => []EndedLeavesNoGhost
<1>1. GraphInv => EndedLeavesNoGhost
  <2> SUFFICES ASSUME Registration, NEW h \in Handles, pc[h] \in {"gone", "failed"}
               PROVE  /\ OfNode(h) = {}
                      /\ h \notin unpublished => EndpointsOf(h) \cap last[Owner[h]] = {}
                      /\ pc[h] = "gone" \/ Kind[h] = "pub" => InCache(h) = {}
                      /\ pc[h] = "gone" => EndpointsOf(h) \cap exists = {}
    BY DEF GraphInv, EndedLeavesNoGhost
  <2>1. EndpointsOf(h) = {<<h, r>> : r \in RolesOf(h)}
    BY EndpointsOfHandle
  <2>2. ASSUME NEW r \in RolesOf(h)
        PROVE  /\ ~WithNode(h, r)
               /\ h \notin unpublished => ~Told(h, r)
               /\ pc[h] = "gone" \/ Kind[h] = "pub" => ~InEntities(h, r)
               /\ pc[h] = "gone" => ~InDDS(h, r)
    BY DEF Registration, HandleFits, DDSFits, CacheFits, NodeFits, LastFits
  <2>3. OfNode(h) = {}
    BY <2>1, <2>2 DEF WithNode, OfNode
  <2>4. h \notin unpublished => EndpointsOf(h) \cap last[Owner[h]] = {}
    BY <2>1, <2>2 DEF Told
  <2>5. pc[h] = "gone" \/ Kind[h] = "pub" => InCache(h) = {}
    BY <2>1, <2>2 DEF InEntities, InCache
  <2>6. pc[h] = "gone" => EndpointsOf(h) \cap exists = {}
    BY <2>1, <2>2 DEF InDDS
  <2> QED  BY <2>3, <2>4, <2>5, <2>6
<1> QED  BY <1>1, HandlesFit, PTL

\* What a participant last told its peers of exists, except for what it failed to
\* take back and for a service or a client whose destruction has begun.
THEOREM PeersAreToldOfWhatExists == Spec => []AdvertisedExists
<1>1. GraphInv => AdvertisedExists
  <2> SUFFICES ASSUME GraphInv, NEW h \in Handles, Running(h), NEW e \in last[Owner[h]], e[1] = h
               PROVE  e \in exists \/ h \in unpublished \/ (IsService(h) /\ pc[h] # "live")
    BY DEF AdvertisedExists
  <2>1. e \in Endpoints
    BY GraphAssumption DEF GraphInv, TypeOK
  <2>2. PICK r \in RolesOf(h) : e = <<h, r>>
    BY <2>1, EndpointIsGid
  <2>3. /\ StepFits(h) /\ DDSFits(h, r) /\ NodeFits(h, r) /\ LastFits(h, r)
    BY DEF GraphInv, Registration, HandleFits
  <2>4. WithNode(h, r) \/ h \in unpublished
    BY <2>2, <2>3 DEF LastFits, Told
  <2>5. CASE WithNode(h, r)
    <3>1. pc[h] \in {"live", "dissociate"} \/ (IsService(h) /\ pc[h] # "live")
      BY <2>3, <2>5 DEF StepFits, NodeFits, Steps, UnderMutex
    <3>2. pc[h] \in {"live", "dissociate"} => InDDS(h, r)
      BY <2>3 DEF DDSFits
    <3> QED  BY <2>2, <3>1, <3>2 DEF InDDS
  <2> QED  BY <2>4, <2>5
<1> QED  BY <1>1, HandlesFit, PTL

-----------------------------------------------------------------------------
(* What a participant knows of a peer.  PeersAgree speaks of the moments   *)
(* when everything has been heard; in between, what a participant has of a *)
(* peer is what was announced, and the last message is the last one in the *)
(* queue.                                                                  *)

\* Of the endpoints of a peer, the cache has the writers its DDS announced, and no
\* other ones, and at least the readers.
EndpointsFit(q, p) ==
  \A e \in EndpointsAt(p) :
    /\ e[2] = "writer" => (e \in entities[q]["writer"] <=> e \in announced[q])
    /\ e[2] = "reader" => (e \in announced[q] => e \in entities[q]["reader"])

\* A peer that was announced is known; one that was lost is not, unless a message of
\* it came after its end.
PeerFits(q, p) ==
  /\ discovered[q][p] = "found" => p \in known[q]
  /\ discovered[q][p] = "lost" /\ <<q, p>> \notin late => p \notin known[q]

\* The last message of a peer is the last one that waits, or was taken: none
\* overtakes another one, and only a lost peer is forgotten.
LastOf(s) == s[Len(s)]
MessagesFit(q, p) ==
  discovered[q][p] # "lost" =>
    last[p] = IF queue[q][p] = <<>> THEN nodeEntities[q][p] ELSE LastOf(queue[q][p])

Acquainted(q, p) == EndpointsFit(q, p) /\ PeerFits(q, p) /\ MessagesFit(q, p)
Acquaintance == \A q \in Participants : \A p \in Participants \ {q} : Acquainted(q, p)

LEMMA LastOfAppend ==
  ASSUME NEW S, NEW s \in Seq(S), NEW m \in S
  PROVE  Append(s, m) # <<>> /\ LastOf(Append(s, m)) = m
  BY DEF LastOf

LEMMA EmptyLength ==
  ASSUME NEW S, NEW s \in Seq(S)
  PROVE  s = <<>> <=> Len(s) = 0
OBVIOUS

LEMMA TailParts ==
  ASSUME NEW S, NEW s \in Seq(S), s # <<>>, NEW t, t = Tail(s)
  PROVE  /\ Len(s) \in Nat \ {0} /\ Len(t) = Len(s) - 1 /\ t \in Seq(S)
         /\ t = <<>> <=> Len(s) = 1
<1>0. Len(s) \in Nat /\ Len(s) > 0 /\ Len(Tail(s)) = Len(s) - 1 /\ Tail(s) \in Seq(S)
  OBVIOUS
<1>1. Len(s) \in Nat \ {0} /\ Len(t) = Len(s) - 1 /\ t \in Seq(S)
  BY <1>0
<1>3. t = <<>> <=> Len(t) = 0
  BY <1>1, EmptyLength
<1>4. ASSUME NEW a \in Nat, NEW b \in Nat, b = a - 1 PROVE b = 0 <=> a = 1
  BY <1>4
<1>5. Len(t) \in Nat
  BY <1>1
<1> QED BY <1>1, <1>3, <1>4, <1>5

LEMMA LastOfTail ==
  ASSUME NEW S, NEW s \in Seq(S), s # <<>>
  PROVE  /\ Tail(s) = <<>> => LastOf(s) = Head(s)
         /\ Tail(s) # <<>> => LastOf(Tail(s)) = LastOf(s)
<1>1. Len(s) \in Nat /\ Len(s) > 0 /\ Len(Tail(s)) = Len(s) - 1 /\ Tail(s) \in Seq(S)
  OBVIOUS
<1>2. CASE Tail(s) = <<>>
  <2>1. Len(s) = 1 BY <1>2, TailParts
  <2> QED BY <1>2, <2>1 DEF LastOf
<1>3. CASE Tail(s) # <<>>
  <2>1. Len(s) # 1 BY <1>3, TailParts
  <2>2. Tail(s)[Len(Tail(s))] = s[Len(Tail(s)) + 1] BY <1>1, <2>1
  <2> QED BY <1>1, <1>3, <2>2 DEF LastOf
<1> QED BY <1>2, <1>3

LEMMA LongTail ==
  ASSUME NEW S, NEW s \in Seq(S), Len(s) > 1
  PROVE  s # <<>> /\ Tail(s) # <<>>
<1>0. \A n \in Nat : n > 1 => n # 0 /\ n # 1
  OBVIOUS
<1>1. Len(s) # 0 /\ Len(s) # 1
  <2>1. Len(s) \in Nat
    OBVIOUS
  <2> QED BY <1>0, <2>1
<1>2. s # <<>>
  BY <1>1, EmptyLength
<1> QED BY <1>1, <1>2, TailParts

LEMMA EndpointsOfPeer ==
  ASSUME NEW p, NEW e \in EndpointsAt(p)
  PROVE  /\ e \in Endpoints /\ Owner[e[1]] = p
         /\ e[1] \in Handles /\ e[2] \in Roles /\ e = <<e[1], e[2]>>
<1>1. e \in Endpoints /\ Owner[e[1]] = p BY DEF EndpointsAt
<1> QED BY <1>1, EndpointIsGid

\* A step that leaves what a participant has of a peer as it is.
LEMMA AcquaintedStays ==
  ASSUME NEW q \in Participants, NEW p \in Participants, Acquainted(q, p),
         \A e \in EndpointsAt(p) :
           /\ e \in announced'[q] <=> e \in announced[q]
           /\ e \in entities'[q]["writer"] <=> e \in entities[q]["writer"]
           /\ e \in entities[q]["reader"] => e \in entities'[q]["reader"],
         discovered'[q][p] = discovered[q][p],
         p \in known'[q] <=> p \in known[q],
         late \subseteq late',
         MessagesFit(q, p)'
  PROVE  Acquainted(q, p)'
<1>1. EndpointsFit(q, p)'
  BY DEF Acquainted, EndpointsFit, EndpointsAt
<1>2. PeerFits(q, p)'
  BY DEF Acquainted, PeerFits
<1> QED BY <1>1, <1>2 DEF Acquainted

LEMMA MessagesStay ==
  ASSUME NEW q \in Participants, NEW p \in Participants, MessagesFit(q, p),
         discovered'[q][p] = discovered[q][p], last'[p] = last[p],
         queue'[q][p] = queue[q][p], nodeEntities'[q][p] = nodeEntities[q][p]
  PROVE  MessagesFit(q, p)'
  BY DEF MessagesFit

\* A published message becomes the last one of its sender, for every peer.
LEMMA PublishedIsLast ==
  ASSUME TypeOK, NEW q \in Participants, NEW p \in Participants \ {q}, MessagesFit(q, p),
         NEW s \in Participants, NEW m \in SUBSET Endpoints, PublishUpdate(s, m),
         discovered' = discovered, nodeEntities'[q][p] = nodeEntities[q][p]
  PROVE  MessagesFit(q, p)'
<1>1. queue[q][p] \in Seq(SUBSET Endpoints) BY DEF TypeOK
<1>2. queue'[q][p] = IF p = s THEN Append(queue[q][p], m) ELSE queue[q][p]
  BY DEF PublishUpdate, TypeOK
<1>3. last'[p] = IF p = s THEN m ELSE last[p]
  BY DEF PublishUpdate, TypeOK
<1>4. CASE p = s
  <2>1. queue'[q][p] # <<>> /\ LastOf(queue'[q][p]) = m
    BY <1>1, <1>2, <1>4, LastOfAppend
  <2> QED BY <1>3, <1>4, <2>1 DEF MessagesFit, LastOf
<1>5. CASE p # s
  BY <1>2, <1>3, <1>5, MessagesStay
<1> QED BY <1>4, <1>5

\* What a participant has of a peer is not touched by the calls for any handle: its
\* own name other gids, the peer's reach it through discovery and messages only.
LEMMA HandleStepKeepsPeers ==
  ASSUME TypeOK, NEW q \in Participants, NEW p \in Participants \ {q}, Acquainted(q, p),
         NEW h \in Handles, HandleStep(h)
  PROVE  Acquainted(q, p)'
<1> DEFINE o == Owner[h]
<1>0. o \in Participants /\ EndpointsOf(h) \subseteq Endpoints /\ RolesOf(h) \subseteq Roles
  BY GraphAssumption, EndpointsOfHandle
<1>1. UNCHANGED <<announced, discovered, known, late>>
  BY DEF HandleStep, CreateEndpoints, AddEntity, Associate, RemoveEntity, Dissociate,
         DeleteEndpoint, DeleteWriter, DeleteReader, RemoveServiceEntity, DissociateService,
         ddsVars, cacheVars, historyVars
<1>2. ASSUME NEW e \in EndpointsAt(p), NEW r \in Roles
      PROVE  e \in entities'[q][r] <=> e \in entities[q][r]
  <2>1. e[1] \in Handles /\ Owner[e[1]] = p BY EndpointsOfPeer
  <2>2. CASE o # q
    <3>1. \/ entities' = entities
          \/ \E maps : entities' = [entities EXCEPT ![o] = maps]
      BY DEF HandleStep, CreateEndpoints, AddEntity, Associate, RemoveEntity, Dissociate,
             DeleteEndpoint, DeleteWriter, DeleteReader, RemoveServiceEntity,
             DissociateService, cacheVars
    <3>2. entities'[q] = entities[q] BY <1>0, <2>2, <3>1 DEF TypeOK
    <3> QED BY <3>2
  <2>3. CASE o = q
    <3>1. e[1] # h BY <2>1, <2>3
    <3>2. e \notin EndpointsOf(h) /\ \A s : e # <<h, s>> BY <3>1 DEF EndpointsOf
    <3>3. \/ entities' = entities
          \/ \E s \in Roles : \/ entities' = [entities EXCEPT ![o][s] = @ \cup {<<h, s>>}]
                              \/ entities' = [entities EXCEPT ![o][s] = @ \ {<<h, s>>}]
                              \/ entities' = [entities EXCEPT ![o][s] = @ \ EndpointsOf(h)]
      <4>1. CASE Associate(h)
        <5>1. "writer" \in Roles BY DEF Roles
        <5>2. \/ entities' = [entities EXCEPT ![o]["writer"] = @ \ EndpointsOf(h)]
              \/ entities' = entities
          BY <1>0, <4>1 DEF Associate, RolledBack, TypeOK
        <5> QED BY <5>1, <5>2
      <4>2. ASSUME NEW s \in RolesOf(h),
                   AddEntity(h, s) \/ RemoveEntity(h, s) \/ RemoveServiceEntity(h, s)
            PROVE  \/ entities' = entities
                   \/ entities' = [entities EXCEPT ![o][s] = @ \cup {<<h, s>>}]
                   \/ entities' = [entities EXCEPT ![o][s] = @ \ {<<h, s>>}]
        BY <4>2 DEF AddEntity, RemoveEntity, RemoveServiceEntity, Removed
      <4>3. CASE \/ CreateEndpoints(h) \/ Dissociate(h) \/ DeleteEndpoint(h)
                 \/ DeleteWriter(h) \/ DeleteReader(h) \/ DissociateService(h)
        BY <4>3 DEF CreateEndpoints, Dissociate, DeleteEndpoint, DeleteWriter, DeleteReader,
                    DissociateService, cacheVars
      <4> QED BY <1>0, <4>1, <4>2, <4>3 DEF HandleStep
    <3>4. entities \in [Participants -> [Roles -> SUBSET (Handles \X Roles)]]
      BY DEF TypeOK
    <3>5. CASE entities' = entities
      BY <3>5
    <3>6. ASSUME NEW s \in Roles, NEW c, entities' = [entities EXCEPT ![o][s] = c],
                 e \in c <=> e \in entities[o][s]
          PROVE  e \in entities'[q][r] <=> e \in entities[q][r]
      <4>1. [entities EXCEPT ![o][s] = c][q][r]
              = IF q = o /\ r = s THEN c ELSE entities[q][r]
        BY <1>0, <3>4, EntryUpdate
      <4> QED BY <3>6, <4>1
    <3>7. ASSUME NEW s \in Roles,
                 \/ entities' = [entities EXCEPT ![o][s] = @ \cup {<<h, s>>}]
                 \/ entities' = [entities EXCEPT ![o][s] = @ \ {<<h, s>>}]
                 \/ entities' = [entities EXCEPT ![o][s] = @ \ EndpointsOf(h)]
          PROVE  e \in entities'[q][r] <=> e \in entities[q][r]
      <4>1. CASE entities' = [entities EXCEPT ![o][s] = @ \cup {<<h, s>>}]
        BY <3>2, <3>6, <4>1
      <4>2. CASE entities' = [entities EXCEPT ![o][s] = @ \ {<<h, s>>}]
        BY <3>2, <3>6, <4>2
      <4>3. CASE entities' = [entities EXCEPT ![o][s] = @ \ EndpointsOf(h)]
        BY <3>2, <3>6, <4>3
      <4> QED BY <3>7, <4>1, <4>2, <4>3
    <3> QED BY <3>3, <3>5, <3>7
  <2> QED BY <2>2, <2>3
<1>3. /\ \/ nodeEntities' = nodeEntities
         \/ \E m : nodeEntities' = [nodeEntities EXCEPT ![o][o] = m]
      /\ \/ UNCHANGED <<queue, last>>
         \/ \E m \in SUBSET Endpoints : PublishUpdate(o, m)
  <2>1. CASE Associate(h)
    <3>1. nodeEntities[o][o] \cup EndpointsOf(h) \in SUBSET Endpoints
      BY <1>0 DEF TypeOK
    <3> QED BY <2>1, <3>1 DEF Associate
  <2>2. CASE Dissociate(h) \/ DissociateService(h)
    <3>1. Dissociated(h) \in SUBSET Endpoints
      BY <1>0 DEF TypeOK, Dissociated
    <3> QED BY <2>2, <3>1 DEF Dissociate, DissociateService
  <2>3. CASE ~Associate(h) /\ ~Dissociate(h) /\ ~DissociateService(h)
    BY <2>3 DEF HandleStep, CreateEndpoints, AddEntity, RemoveEntity, DeleteEndpoint,
         DeleteWriter, DeleteReader, RemoveServiceEntity, ddsVars, cacheVars, historyVars
  <2> QED BY <2>1, <2>2, <2>3
<1>4. nodeEntities'[q][p] = nodeEntities[q][p]
  <2>1. nodeEntities \in [Participants -> [Participants -> SUBSET Endpoints]]
    BY DEF TypeOK
  <2>2. ASSUME NEW m, nodeEntities' = [nodeEntities EXCEPT ![o][o] = m]
        PROVE  nodeEntities'[q][p] = nodeEntities[q][p]
    <3>1. [nodeEntities EXCEPT ![o][o] = m][q][p]
            = IF q = o /\ p = o THEN m ELSE nodeEntities[q][p]
      BY <1>0, <2>1, EntryUpdate
    <3> QED BY <2>2, <3>1
  <2> QED BY <1>3, <2>2
<1>5. MessagesFit(q, p)'
  <2>1. MessagesFit(q, p) BY DEF Acquainted
  <2>2. CASE UNCHANGED <<queue, last>> BY <1>1, <1>4, <2>1, <2>2, MessagesStay
  <2>3. CASE \E m \in SUBSET Endpoints : PublishUpdate(o, m)
    BY <1>0, <1>1, <1>4, <2>1, <2>3, PublishedIsLast
  <2> QED BY <1>3, <2>2, <2>3
<1> QED BY <1>1, <1>2, <1>5, AcquaintedStays DEF Roles

\* Discovery and the listener thread of a participant.
LEMMA OutsideKeepsPeers ==
  ASSUME TypeOK, NEW q \in Participants, NEW p \in Participants \ {q}, Acquainted(q, p),
         NEW v \in Participants,
         \/ DdsThread(v) \/ ListenerThread(v) \/ Depart(v)
         \/ \E u \in Participants : Overwrite(v, u)
  PROVE  Acquainted(q, p)'
<1>0. EndpointsFit(q, p) /\ PeerFits(q, p) /\ MessagesFit(q, p)
  BY DEF Acquainted
<1>t. /\ announced \in [Participants -> SUBSET Endpoints]
      /\ discovered \in [Participants -> [Participants -> {"unknown", "found", "lost"}]]
      /\ queue \in [Participants -> [Participants -> Seq(SUBSET Endpoints)]]
      /\ entities \in [Participants -> [Roles -> SUBSET (Handles \X Roles)]]
      /\ known \in [Participants -> SUBSET Participants]
      /\ nodeEntities \in [Participants -> [Participants -> SUBSET Endpoints]]
  BY DEF TypeOK
<1>1. ASSUME NEW e \in Endpoints, EndpointAppears(v, e) PROVE Acquainted(q, p)'
  <2>1. /\ announced' = [announced EXCEPT ![v] = @ \cup {e}]
        /\ entities' = IF Owner[e[1]] = v THEN entities
                       ELSE [entities EXCEPT ![v][e[2]] = @ \cup {e}]
        /\ UNCHANGED <<discovered, queue, known, nodeEntities, last, late>>
    BY <1>1 DEF EndpointAppears, IsOwnAppearance, MapOf, historyVars
  <2>2. e[2] \in Roles BY EndpointIsGid
  <2>3. EndpointsFit(q, p)'
    <3> SUFFICES ASSUME NEW f \in EndpointsAt(p)
                 PROVE  /\ f[2] = "writer" => (f \in entities'[q]["writer"] <=> f \in announced'[q])
                        /\ f[2] = "reader" => (f \in announced'[q] => f \in entities'[q]["reader"])
      BY DEF EndpointsFit, EndpointsAt
    <3>1. Owner[f[1]] = p BY EndpointsOfPeer
    <3>2. /\ f[2] = "writer" => (f \in entities[q]["writer"] <=> f \in announced[q])
          /\ f[2] = "reader" => (f \in announced[q] => f \in entities[q]["reader"])
      BY <1>0 DEF EndpointsFit
    <3>3. f \in announced'[q] <=> f \in announced[q] \/ (v = q /\ f = e)
      BY <1>t, <2>1
    <3>4. ASSUME NEW r \in Roles, f[2] = r
          PROVE  f \in entities'[q][r] <=> f \in entities[q][r] \/ (v = q /\ f = e)
      BY <1>t, <2>1, <2>2, <3>1, <3>4
    <3> QED BY <3>2, <3>3, <3>4 DEF Roles
  <2>4. PeerFits(q, p)' BY <1>0, <2>1 DEF PeerFits
  <2>5. MessagesFit(q, p)' BY <1>0, <2>1, MessagesStay
  <2> QED BY <2>3, <2>4, <2>5 DEF Acquainted
<1>2. ASSUME NEW e \in Endpoints, EndpointDisappears(v, e) PROVE Acquainted(q, p)'
  <2>1. /\ announced' = [announced EXCEPT ![v] = @ \ {e}]
        /\ entities' = IF Owner[e[1]] = v THEN entities
                       ELSE [entities EXCEPT ![v]["writer"] = @ \ {e}]
        /\ UNCHANGED <<discovered, queue, known, nodeEntities, last, late>>
    BY <1>2 DEF EndpointDisappears, IsOwnDisappearance, historyVars
  <2>2. "writer" \in Roles /\ "reader" \in Roles BY DEF Roles
  <2>3. EndpointsFit(q, p)'
    <3> SUFFICES ASSUME NEW f \in EndpointsAt(p)
                 PROVE  /\ f[2] = "writer" => (f \in entities'[q]["writer"] <=> f \in announced'[q])
                        /\ f[2] = "reader" => (f \in announced'[q] => f \in entities'[q]["reader"])
      BY DEF EndpointsFit, EndpointsAt
    <3>1. Owner[f[1]] = p BY EndpointsOfPeer
    <3>2. /\ f[2] = "writer" => (f \in entities[q]["writer"] <=> f \in announced[q])
          /\ f[2] = "reader" => (f \in announced[q] => f \in entities[q]["reader"])
      BY <1>0 DEF EndpointsFit
    <3>3. f \in announced'[q] <=> f \in announced[q] /\ ~(v = q /\ f = e)
      BY <1>t, <2>1
    <3>4. f \in entities'[q]["writer"] <=> f \in entities[q]["writer"] /\ ~(v = q /\ f = e)
      BY <1>t, <2>1, <2>2, <3>1
    <3>5. entities'[q]["reader"] = entities[q]["reader"]
      BY <1>t, <2>1, <2>2
    <3> QED BY <3>2, <3>3, <3>4, <3>5
  <2>4. PeerFits(q, p)' BY <1>0, <2>1 DEF PeerFits
  <2>5. MessagesFit(q, p)' BY <1>0, <2>1, MessagesStay
  <2> QED BY <2>3, <2>4, <2>5 DEF Acquainted
<1>3. ASSUME NEW u \in Participants, ParticipantAppears(v, u) PROVE Acquainted(q, p)'
  <2>1. /\ nodeEntities' = nodeEntities
        /\ UNCHANGED <<announced, entities, queue, last, late>>
        /\ discovered[v][u] = "unknown"
        /\ discovered' = [discovered EXCEPT ![v][u] = "found"]
    BY <1>3, <1>t DEF ParticipantAppears, Kept, historyVars
  <2>2. known' = IF u = v THEN known ELSE [known EXCEPT ![v] = @ \cup {u}]
    BY <1>3 DEF ParticipantAppears, IsOwnParticipant
  <2>3. discovered'[q][p] = IF v = q /\ u = p THEN "found" ELSE discovered[q][p]
    <3>1. \A c : [discovered EXCEPT ![v][u] = c][q][p]
                  = IF q = v /\ p = u THEN c ELSE discovered[q][p]
      <4>1. discovered \in [Participants -> [Participants -> {"unknown", "found", "lost"}]]
        BY <1>t
      <4>2. q \in Participants /\ p \in Participants
        OBVIOUS
      <4> QED BY <4>1, <4>2, EntryUpdate
    <3>2. discovered' = [discovered EXCEPT ![v][u] = "found"]
      BY <2>1
    <3> QED BY <3>1, <3>2
  <2>4. EndpointsFit(q, p)' BY <1>0, <2>1 DEF EndpointsFit, EndpointsAt
  <2>5. PeerFits(q, p)' BY <1>0, <1>t, <2>1, <2>2, <2>3 DEF PeerFits
  <2>6. MessagesFit(q, p)' BY <1>0, <2>1, <2>3 DEF MessagesFit
  <2> QED BY <2>4, <2>5, <2>6 DEF Acquainted
<1>4. ASSUME NEW u \in Participants, ParticipantDisappears(v, u) PROVE Acquainted(q, p)'
  <2>1. /\ UNCHANGED <<announced, entities, last, late>>
        /\ discovered' = [discovered EXCEPT ![v][u] = "lost"]
        /\ known' = [known EXCEPT ![v] = known[v] \ {u}]
        /\ nodeEntities' = [nodeEntities EXCEPT ![v][u] = {}]
        /\ \E s : queue' = [queue EXCEPT ![v][u] = s]
    BY <1>4 DEF ParticipantDisappears, ParticipantRemoved, historyVars
  <2>2. CASE v = q /\ u = p
    <3>1. discovered'[q][p] = "lost" /\ p \notin known'[q]
      BY <1>t, <2>1, <2>2
    <3> QED BY <1>0, <2>1, <3>1 DEF Acquainted, EndpointsFit, EndpointsAt, PeerFits, MessagesFit
  <2>3. CASE ~(v = q /\ u = p)
    <3>1. /\ discovered'[q][p] = discovered[q][p]
          /\ nodeEntities'[q][p] = nodeEntities[q][p]
          /\ p \in known'[q] <=> p \in known[q]
      BY <1>t, <2>1, <2>3
    <3>2. queue'[q][p] = queue[q][p]
      BY <1>t, <2>1, <2>3
    <3>3. MessagesFit(q, p)' BY <1>0, <2>1, <3>1, <3>2, MessagesStay
    <3> QED BY <2>1, <3>1, <3>3, AcquaintedStays
  <2> QED BY <2>2, <2>3
<1>5. ASSUME NEW u \in Participants, TakeInfo(v, u) PROVE Acquainted(q, p)'
  <2>1. /\ UNCHANGED <<announced, entities, discovered, last>>
        /\ late \subseteq late'
        /\ discovered[v][u] = "lost" => <<v, u>> \in late'
        /\ queue[v][u] # <<>>
        /\ queue' = [queue EXCEPT ![v][u] = Tail(queue[v][u])]
        /\ known' = IF u = v THEN known ELSE [known EXCEPT ![v] = known[v] \cup {u}]
        /\ nodeEntities' = IF u = v THEN nodeEntities
                           ELSE [nodeEntities EXCEPT ![v][u] = Head(queue[v][u])]
    BY <1>5 DEF TakeInfo, IsOwnMessage
  <2>2. EndpointsFit(q, p)' BY <1>0, <2>1 DEF EndpointsFit, EndpointsAt
  <2>3. CASE v = q /\ u = p
    <3>1. /\ p \in known'[q]
          /\ queue'[q][p] = Tail(queue[q][p])
          /\ nodeEntities'[q][p] = Head(queue[q][p])
      <4>1. queue'[q][p] = Tail(queue[q][p])
        BY <1>t, <2>1, <2>3, EntryUpdate
      <4>2. nodeEntities'[q][p] = Head(queue[q][p])
        BY <1>t, <2>1, <2>3, EntryUpdate
      <4>3. p \in known'[q] BY <1>t, <2>1, <2>3
      <4> QED BY <4>1, <4>2, <4>3
    <3>2. PeerFits(q, p)' BY <1>0, <2>1, <2>3, <3>1 DEF PeerFits
    <3>3. /\ Tail(queue[q][p]) = <<>> => LastOf(queue[q][p]) = Head(queue[q][p])
          /\ Tail(queue[q][p]) # <<>> => LastOf(Tail(queue[q][p])) = LastOf(queue[q][p])
      <4>1. queue[q][p] \in Seq(SUBSET Endpoints)
        BY <1>t
      <4>2. queue[q][p] # <<>>
        BY <2>1, <2>3
      <4> QED BY <4>1, <4>2, LastOfTail
    <3>4. MessagesFit(q, p)'
      BY <1>0, <2>1, <2>3, <3>1, <3>3 DEF MessagesFit, LastOf
    <3> QED BY <2>2, <3>2, <3>4 DEF Acquainted
  <2>4. CASE ~(v = q /\ u = p)
    <3>1. nodeEntities'[q][p] = nodeEntities[q][p]
      BY <1>t, <2>1, <2>4
    <3>2. queue'[q][p] = queue[q][p]
      BY <1>t, <2>1, <2>4
    <3>3. p \in known'[q] <=> p \in known[q]
      BY <1>t, <2>1, <2>4
    <3>4. MessagesFit(q, p)' BY <1>0, <2>1, <3>1, <3>2, MessagesStay
    <3> QED BY <2>1, <3>3, <3>4, AcquaintedStays
  <2> QED BY <2>3, <2>4
<1>6. ASSUME NEW u \in Participants, Overwrite(v, u) PROVE Acquainted(q, p)'
  <2>1. /\ UNCHANGED <<announced, entities, discovered, known, nodeEntities, last, late>>
        /\ Len(queue[v][u]) > 1
        /\ queue' = [queue EXCEPT ![v][u] = Tail(queue[v][u])]
    BY <1>6 DEF Overwrite, cacheVars, historyVars
  <2>2. CASE v = q /\ u = p
    <3>1. queue'[q][p] = Tail(queue[q][p])
      BY <1>t, <2>1, <2>2, EntryUpdate
    <3>2. queue[q][p] \in Seq(SUBSET Endpoints) BY <1>t
    <3>3. queue[q][p] # <<>> /\ Tail(queue[q][p]) # <<>>
      <4>1. Len(queue[q][p]) > 1 BY <2>1, <2>2
      <4> QED BY <3>2, <4>1, LongTail
    <3>4. LastOf(Tail(queue[q][p])) = LastOf(queue[q][p])
      BY <3>2, <3>3, LastOfTail
    <3>5. MessagesFit(q, p)'
      BY <1>0, <2>1, <3>1, <3>3, <3>4 DEF MessagesFit, LastOf
    <3> QED BY <2>1, <3>5, AcquaintedStays
  <2>3. CASE ~(v = q /\ u = p)
    <3>1. queue'[q][p] = queue[q][p]
      BY <1>t, <2>1, <2>3
    <3>2. MessagesFit(q, p)' BY <1>0, <2>1, <3>1, MessagesStay
    <3> QED BY <2>1, <3>2, AcquaintedStays
  <2> QED BY <2>2, <2>3
<1>7. CASE Depart(v)
  <2>1. UNCHANGED <<announced, entities, discovered, known, queue, nodeEntities, last, late>>
    BY <1>7 DEF Depart, cacheVars, historyVars
  <2>2. MessagesFit(q, p)' BY <1>0, <2>1, MessagesStay
  <2> QED BY <2>1, <2>2, AcquaintedStays
<1> QED BY <1>1, <1>2, <1>3, <1>4, <1>5, <1>6, <1>7 DEF DdsThread, ListenerThread

LEMMA PeersAcquainted == Spec => [](TypeOK /\ Acquaintance)
<1>1. Init => Acquaintance
  <2> SUFFICES ASSUME Init, NEW q \in Participants, NEW p \in Participants \ {q}
               PROVE  EndpointsFit(q, p) /\ PeerFits(q, p) /\ MessagesFit(q, p)
    BY DEF Acquaintance, Acquainted
  <2>1. /\ entities[q]["writer"] = {} /\ announced[q] = {} /\ discovered[q][p] = "unknown"
        /\ queue[q][p] = <<>> /\ nodeEntities[q][p] = {} /\ last[p] = {}
    BY DEF Init, Roles
  <2>2. EndpointsFit(q, p) BY <2>1 DEF EndpointsFit
  <2>3. PeerFits(q, p) BY <2>1 DEF PeerFits
  <2>4. MessagesFit(q, p) BY <2>1 DEF MessagesFit
  <2> QED BY <2>2, <2>3, <2>4
<1>2. TypeOK /\ Acquaintance /\ [Next]_vars => Acquaintance'
  <2> SUFFICES ASSUME TypeOK, Acquaintance, [Next]_vars,
                      NEW q \in Participants, NEW p \in Participants \ {q}
               PROVE  Acquainted(q, p)'
    BY DEF Acquaintance
  <2>0. Acquainted(q, p) BY DEF Acquaintance
  <2>1. ASSUME NEW h \in Handles, HandleStep(h) PROVE Acquainted(q, p)'
    BY <2>0, <2>1, HandleStepKeepsPeers
  <2>2. ASSUME NEW v \in Participants,
               \/ DdsThread(v) \/ ListenerThread(v) \/ Depart(v)
               \/ \E u \in Participants : Overwrite(v, u)
        PROVE  Acquainted(q, p)'
    BY <2>0, <2>2, OutsideKeepsPeers
  <2>3. CASE UNCHANGED vars
    <3>1. UNCHANGED <<announced, entities, discovered, known, queue, nodeEntities, last, late>>
      BY <2>3 DEF vars, ddsVars, cacheVars, historyVars
    <3>2. MessagesFit(q, p)' BY <2>0, <3>1, MessagesStay DEF Acquainted
    <3> QED BY <2>0, <3>1, <3>2, AcquaintedStays
  <2> QED BY <2>1, <2>2, <2>3 DEF Next
<1> QED BY <1>1, <1>2, TypeCorrect, PTL DEF Spec

\* Once a peer has heard everything about a participant, in whatever order the DDS
\* threads and the listener thread came, it knows its writers and the endpoints of its
\* nodes exactly, its readers at least, and nothing of one that has left.
THEOREM SettledPeersAgree == Spec => []PeersAgree
<1>1. TypeOK /\ Acquaintance => PeersAgree
  <2> SUFFICES ASSUME TypeOK, Acquaintance, NEW q \in present,
                      NEW p \in Participants \ {q}, Settled(q, p)
               PROVE  /\ entities[q]["writer"] \cap EndpointsAt(p)
                           = exists \cap EndpointsAt(p) \cap (Handles \X {"writer"})
                      /\ exists \cap EndpointsAt(p) \cap (Handles \X {"reader"})
                           \subseteq entities[q]["reader"]
                      /\ p \in present => p \in known[q] /\ nodeEntities[q][p] = last[p]
                      /\ p \notin present /\ <<q, p>> \notin late => p \notin known[q]
    BY DEF PeersAgree
  <2>0. q \in Participants /\ Acquainted(q, p)
    BY DEF TypeOK, Acquaintance
  <2>1. \A e \in EndpointsAt(p) : e \in announced[q] <=> e \in exists
    BY DEF Settled
  <2>2. entities[q]["writer"] \subseteq Handles \X {"writer"}
    BY <2>0 DEF TypeOK, Roles
  <2>3. \A e \in EndpointsAt(p) : /\ e \in Handles \X {"writer"} <=> e[2] = "writer"
                                  /\ e \in Handles \X {"reader"} <=> e[2] = "reader"
    BY EndpointsOfPeer
  <2>4. \A e \in EndpointsAt(p) :
          /\ e[2] = "writer" => (e \in entities[q]["writer"] <=> e \in exists)
          /\ e[2] = "reader" => (e \in exists => e \in entities[q]["reader"])
    BY <2>0, <2>1 DEF Acquainted, EndpointsFit
  <2>5. entities[q]["writer"] \cap EndpointsAt(p)
          = exists \cap EndpointsAt(p) \cap (Handles \X {"writer"})
    BY <2>2, <2>3, <2>4
  <2>6. exists \cap EndpointsAt(p) \cap (Handles \X {"reader"}) \subseteq entities[q]["reader"]
    BY <2>3, <2>4
  <2>7. /\ p \in present => p \in known[q] /\ nodeEntities[q][p] = last[p]
        /\ p \notin present /\ <<q, p>> \notin late => p \notin known[q]
    BY <2>0 DEF Settled, Acquainted, PeerFits, MessagesFit
  <2> QED BY <2>5, <2>6, <2>7
<1> QED BY <1>1, PeersAcquainted, PTL
=============================================================================
