----------------------------- MODULE MCWaitSet -----------------------------
(* Instances of WaitSet for TLC: the arrays the executors pass.             *)
EXTENDS WaitSet
LOCAL INSTANCE TLC
CONSTANTS r, g, e1, e2

Call(subs, gcs, srvs, clis, evs) ==
  [k \in HandleLists \cup {"events"} |->
     CASE k = "subscriptions" -> subs
       [] k = "guard_conditions" -> gcs
       [] k = "services" -> srvs
       [] k = "clients" -> clis
       [] OTHER -> evs]

\* Calls of executors that share a guard condition and a reader, either of which
\* they may have lost, and a call with a null guard condition.
MCEntityCalls ==
  {Call(<<r>>, <<g>>, <<>>, <<>>, <<>>),
   Call(<<r>>, <<>>, <<>>, <<>>, <<>>),
   Call(<<>>, <<g, Null>>, <<>>, <<>>, <<>>)}

\* Two wait sets on one endpoint, each on an event of its own.
MCSharedCalls ==
  {Call(<<>>, <<>>, <<>>, <<>>, <<e1>>),
   Call(<<>>, <<>>, <<>>, <<>>, <<e2>>)}

\* Wait sets are interchangeable (in runs without liveness).
MCSymmetry == Permutations(WaitSets)

\* The part of a state that later steps, and the properties about the cache and
\* about timeouts, depend on: without the histories of EventInfo, which no step
\* reads, without what an ended call leaves in its variables, and without what
\* became stale in other entries than those a wait set has cached.
MCStaleCached(w) ==
  stale[w] \cap (Conditions \cup EventObjects)
    \cap (HandlesIn(cached[w]) \cup EventObjectsIn(cached[w]) \cup {StatusCondition}
            \cup {typeOf[e] : e \in EventObjectsIn(cached[w]) \ stale[w]})
MCWaitView ==
  <<ddsVars, infoVars, setter, total, polling, alive, typeOf, ready, enabled, attached,
    cached, pc, reported, [w \in WaitSets |-> MCStaleCached(w)],
    [w \in WaitSets |-> IF pc[w] = "idle" THEN <<>> ELSE <<args[w], active[w], toScan[w]>>]>>

\* No events, and the two events of a publisher that share a counter, one of which
\* is given a callback and changes.
MCNoEvents == {[kind |-> "publisher", types |-> {}, callbacks |-> {}]}
MCTwoEvents == {[kind |-> "publisher", types |-> {"offered_deadline_missed", "liveliness_lost"},
                 callbacks |-> {"offered_deadline_missed"}]}
MCOneDeadline == [t \in EventTypes |-> IF t = "offered_deadline_missed" THEN 1 ELSE 0]
=============================================================================
