----------------------- MODULE ContextLifecycleProofs -----------------------
(***************************************************************************)
(* For every bound on nodes and initializations, and whatever may fail:    *)
(* the state of a context has its types, its nodes are served, its last    *)
(* node leaves nothing behind, its listener thread and its callbacks find  *)
(* what they use.  One inductive invariant says of every place of the      *)
(* holder of initialization_mutex what exists there; the properties follow *)
(* from it one by one.                                                     *)
(***************************************************************************)
EXTENDS ContextLifecycle, TLAPS

\* There are nodes, or the first one is being announced, or the last one has just
\* gone and the listener thread has not been stopped.
Serving ==
  \/ phase = "idle" /\ nodes > 0
  \/ phase = "announce"
  \/ phase = "stop" /\ running

\* The participant of the last initialization is complete, and only its
\* resources are pointed to.
Complete == \A r \in Resources : field[r] = inits /\ <<r, inits>> \in exists

\* node_count counts the handles, and the one that is being created or undone.
CountsNodes ==
  /\ nodes \in Nat /\ nodes <= MaxNodes
  /\ phase = "idle" => nodeCount = nodes
  /\ phase = "announce" => nodeCount = nodes + 1 /\ nodes < MaxNodes
  /\ phase \notin {"idle", "announce"} => nodeCount = 0 /\ nodes = 0
  /\ nodes > 0 \/ phase # "idle" => impl

\* Initializations are numbered in their order; the current one enters ctxOf at
\* its end.
NumbersInits ==
  /\ inits \in Nat /\ inits <= MaxInits
  /\ phase # "idle" \/ nodes > 0 => inits > 0
  /\ ctxOf \subseteq 1..inits
  /\ phase = "init" => inits \notin ctxOf

\* What a serving context has.
Serves ==
  /\ Serving => /\ running /\ exitGc = "down" /\ joinable
                /\ inits \in ctxOf /\ callback = inits
  /\ Serving \/ phase = "join" => Complete /\ threadSub = inits
  /\ phase = "join" => exitGc = "up"
  /\ running => Serving

\* What an initialization has made so far.
Initializes ==
  /\ phase = "init" => \A i \in 1..6 : i < at =>
       field[InitOrder[i]] = inits /\ <<InitOrder[i], inits>> \in exists
  /\ phase = "enable" => Complete /\ callback = inits /\ inits \in ctxOf

\* The change callback is taken back before its guard condition is destroyed.
CallsBack ==
  /\ phase = "fini" => callback = 0
  /\ CallbackTargetExists

\* Unless it failed to stop, the thread runs, and has to be joined, only while the
\* context serves and until the join is over.
Joins ==
  "stop" \notin failed =>
    /\ joinable \/ thread \notin {"none", "done"} => Serving \/ phase = "join"
    /\ ~terminated

\* Unless a finalization failed, a participant that calls back is the current one.
CallsContext ==
  "finalize" \notin failed =>
    \A p \in ctxOf : <<"participant", p>> \in exists =>
      /\ p = field["participant"]
      /\ phase # "init"
      /\ phase # "idle" \/ nodes > 0

\* Unless something was left undone, what exists is what the context points to.
Undone == failed \cap {"enable", "finalize", "stop"} # {}
Pointed == {e \in Resources \X (1..inits) : field[e[1]] = e[2]}
Cleans ==
  ~Undone =>
    /\ exists = Pointed
    /\ phase = "idle" /\ nodes = 0 => callback = 0 /\ \A r \in Resources : field[r] = 0
    /\ phase = "init" =>
         callback = 0 /\ \A i \in 1..6 : i >= at => field[InitOrder[i]] = 0
    /\ phase = "fini" => \A i \in 1..6 : i < at => field[FiniOrder[i]] = 0

ContextInv ==
  /\ TypeOK
  /\ CountsNodes
  /\ NumbersInits
  /\ Serves
  /\ Initializes
  /\ CallsBack
  /\ Joins
  /\ CallsContext
  /\ Cleans

-----------------------------------------------------------------------------
(* The two orders                                                          *)

LEMMA Orders ==
  /\ Len(InitOrder) = 6 /\ Len(FiniOrder) = 6
  /\ \A i \in 1..6 : InitOrder[i] \in Resources /\ FiniOrder[i] \in Resources
  /\ \A r \in Resources : \E i \in 1..6 : InitOrder[i] = r
  /\ \A r \in Resources : \E i \in 1..6 : FiniOrder[i] = r
  /\ \A i, j \in 1..6 : InitOrder[i] = InitOrder[j] => i = j
  /\ \A i, j \in 1..6 : FiniOrder[i] = FiniOrder[j] => i = j
  /\ InitOrder[1] = "participant" /\ InitOrder[6] = "graph_gc"
  /\ FiniOrder[1] = "graph_gc" /\ FiniOrder[6] = "participant"
  /\ {"participant", "sub", "graph_gc"} \subseteq Resources
<1>1. \A i \in 1..6 : i = 1 \/ i = 2 \/ i = 3 \/ i = 4 \/ i = 5 \/ i = 6
  BY SMT
<1>2. DOMAIN InitOrder = 1..6 /\ DOMAIN FiniOrder = 1..6
      /\ Len(InitOrder) = 6 /\ Len(FiniOrder) = 6
  BY SMT DEF InitOrder, FiniOrder
<1>3. Resources = {"participant", "publisher", "subscriber", "pub", "sub", "graph_gc"}
  BY <1>1, <1>2, SMT DEF Resources, InitOrder
<1>4. /\ InitOrder[1] = "participant" /\ InitOrder[2] = "publisher"
      /\ InitOrder[3] = "subscriber" /\ InitOrder[4] = "pub"
      /\ InitOrder[5] = "sub" /\ InitOrder[6] = "graph_gc"
  BY SMT DEF InitOrder
<1>5. /\ FiniOrder[1] = "graph_gc" /\ FiniOrder[2] = "sub"
      /\ FiniOrder[3] = "pub" /\ FiniOrder[4] = "publisher"
      /\ FiniOrder[5] = "subscriber" /\ FiniOrder[6] = "participant"
  BY SMT DEF FiniOrder
<1>6. /\ \A i \in 1..6 : InitOrder[i] \in Resources /\ FiniOrder[i] \in Resources
      /\ \A r \in Resources : \E i \in 1..6 : InitOrder[i] = r
      /\ \A r \in Resources : \E i \in 1..6 : FiniOrder[i] = r
  BY <1>1, <1>3, <1>4, <1>5
<1>7. \A i, j \in 1..6 : InitOrder[i] = InitOrder[j] => i = j
  BY <1>1, <1>4
<1>8. \A i, j \in 1..6 : FiniOrder[i] = FiniOrder[j] => i = j
  BY <1>1, <1>5
<1> QED
  BY <1>2, <1>3, <1>4, <1>5, <1>6, <1>7, <1>8

-----------------------------------------------------------------------------
(* The invariant holds at first.                                           *)

LEMMA InitInv == Init => ContextInv
<1> SUFFICES ASSUME Init PROVE ContextInv
  OBVIOUS
<1>1. TypeOK
  <2>1. /\ impl \in BOOLEAN /\ isShutdown \in BOOLEAN /\ running \in BOOLEAN
        /\ joinable \in BOOLEAN /\ terminated \in BOOLEAN
    BY Zenon DEF Init
  <2>2. /\ nodeCount \in 0..MaxNodes /\ nodes \in 0..MaxNodes /\ inits \in 0..MaxInits
        /\ callback \in 0..MaxInits /\ threadSub \in 0..MaxInits
        /\ at \in 1..Len(InitOrder)
    BY ContextAssumption, Orders, SMT DEF Init
  <2>3. field \in [Resources -> 0..MaxInits]
    BY ContextAssumption, SMT DEF Init
  <2> QED
    BY <2>1, <2>2, <2>3 DEF Init, TypeOK
<1>2. CountsNodes /\ NumbersInits /\ Serves /\ Initializes /\ CallsBack
  BY ContextAssumption DEF Init, CountsNodes, NumbersInits, Serves, Serving, Initializes,
     CallsBack, CallbackTargetExists
<1>3. Joins /\ CallsContext /\ Cleans
  BY DEF Init, Joins, CallsContext, Cleans, Pointed
<1> QED
  BY <1>1, <1>2, <1>3 DEF ContextInv

-----------------------------------------------------------------------------
(* Every action keeps it: one lemma per action, one step per conjunct.    *)

LEMMA InitContextInv ==
  ASSUME ContextInv, InitContext
  PROVE  ContextInv'
<1>0. TypeOK /\ CountsNodes /\ NumbersInits /\ Serves /\ Initializes /\ CallsBack /\ Joins /\ CallsContext /\ Cleans
  BY DEF ContextInv
<1>1. TypeOK'
  BY <1>0, ContextAssumption, Orders DEF InitContext, CountsNodes, NumbersInits, TypeOK, resourceVars, holderVars, threadVars
<1>2. CountsNodes'
  BY <1>0, ContextAssumption, Orders DEF InitContext, CountsNodes, TypeOK, Serves, Serving, resourceVars, holderVars, threadVars
<1>3. NumbersInits'
  BY <1>0, ContextAssumption, Orders DEF InitContext, NumbersInits, CountsNodes, TypeOK, resourceVars, holderVars, threadVars
<1>4. Serves'
  BY <1>0, ContextAssumption, Orders DEF InitContext, Serves, Serving, Complete, CountsNodes, NumbersInits, TypeOK, Initializes, resourceVars, holderVars, threadVars
<1>5. Initializes'
  BY <1>0, ContextAssumption, Orders DEF InitContext, Initializes, Complete, NumbersInits, TypeOK, resourceVars, holderVars, threadVars
<1>6. CallsBack'
  BY <1>0, ContextAssumption, Orders DEF InitContext, CallsBack, CallbackTargetExists, Initializes, Complete, TypeOK, resourceVars, holderVars, threadVars
<1>7. Joins'
  BY <1>0, ContextAssumption, Orders DEF InitContext, Joins, Serves, Serving, CountsNodes, TypeOK, resourceVars, holderVars, threadVars
<1>8. CallsContext'
  BY <1>0, ContextAssumption, Orders DEF InitContext, CallsContext, CountsNodes, NumbersInits, TypeOK, resourceVars, holderVars, threadVars
<1>9. Cleans'
  BY <1>0, ContextAssumption, Orders DEF InitContext, Cleans, Undone, Pointed, CountsNodes, NumbersInits, TypeOK, resourceVars, holderVars, threadVars
<1> QED
  BY <1>1, <1>2, <1>3, <1>4, <1>5, <1>6, <1>7, <1>8, <1>9 DEF ContextInv

LEMMA ShutdownInv ==
  ASSUME ContextInv, Shutdown
  PROVE  ContextInv'
<1>0. TypeOK /\ CountsNodes /\ NumbersInits /\ Serves /\ Initializes /\ CallsBack /\ Joins /\ CallsContext /\ Cleans
  BY DEF ContextInv
<1>1. TypeOK'
  BY <1>0, ContextAssumption, Orders DEF Shutdown, CountsNodes, NumbersInits, TypeOK, resourceVars, holderVars, threadVars
<1>2. CountsNodes'
  BY <1>0, ContextAssumption, Orders DEF Shutdown, CountsNodes, TypeOK, Serves, Serving, resourceVars, holderVars, threadVars
<1>3. NumbersInits'
  BY <1>0, ContextAssumption, Orders DEF Shutdown, NumbersInits, CountsNodes, TypeOK, resourceVars, holderVars, threadVars
<1>4. Serves'
  BY <1>0, ContextAssumption, Orders DEF Shutdown, Serves, Serving, Complete, CountsNodes, NumbersInits, TypeOK, Initializes, resourceVars, holderVars, threadVars
<1>5. Initializes'
  BY <1>0, ContextAssumption, Orders DEF Shutdown, Initializes, Complete, NumbersInits, TypeOK, resourceVars, holderVars, threadVars
<1>6. CallsBack'
  BY <1>0, ContextAssumption, Orders DEF Shutdown, CallsBack, CallbackTargetExists, Initializes, Complete, TypeOK, resourceVars, holderVars, threadVars
<1>7. Joins'
  BY <1>0, ContextAssumption, Orders DEF Shutdown, Joins, Serves, Serving, CountsNodes, TypeOK, resourceVars, holderVars, threadVars
<1>8. CallsContext'
  BY <1>0, ContextAssumption, Orders DEF Shutdown, CallsContext, CountsNodes, NumbersInits, TypeOK, resourceVars, holderVars, threadVars
<1>9. Cleans'
  BY <1>0, ContextAssumption, Orders DEF Shutdown, Cleans, Undone, Pointed, CountsNodes, NumbersInits, TypeOK, resourceVars, holderVars, threadVars
<1> QED
  BY <1>1, <1>2, <1>3, <1>4, <1>5, <1>6, <1>7, <1>8, <1>9 DEF ContextInv

LEMMA FiniContextInv ==
  ASSUME ContextInv, FiniContext
  PROVE  ContextInv'
<1>0. TypeOK /\ CountsNodes /\ NumbersInits /\ Serves /\ Initializes /\ CallsBack /\ Joins /\ CallsContext /\ Cleans
  BY DEF ContextInv
<1>1. TypeOK'
  <2>1. /\ impl' \in BOOLEAN /\ isShutdown' \in BOOLEAN /\ running' \in BOOLEAN
        /\ joinable' \in BOOLEAN /\ terminated' \in BOOLEAN
    BY <1>0, Zenon DEF TypeOK, FiniContext, threadVars

  <2>2. field' \in [Resources -> 0..MaxInits] /\ exists' \subseteq Resources \X (1..MaxInits)
    BY <1>0, ContextAssumption DEF TypeOK, FiniContext
  <2>3. failed' \subseteq {"enable", "stop", "finalize", "wait"}
    BY <1>0 DEF TypeOK, FiniContext
  <2>4. nodeCount' \in 0..MaxNodes /\ callback' \in 0..MaxInits
    BY ContextAssumption, SMT DEF FiniContext
  <2> QED
    BY <1>0, <2>1, <2>2, <2>3, <2>4 DEF TypeOK, FiniContext, holderVars
<1>2. CountsNodes'
  BY <1>0, ContextAssumption, Orders DEF FiniContext, CountsNodes, TypeOK, Serves, Serving, resourceVars, holderVars, threadVars
<1>3. NumbersInits'
  BY <1>0, ContextAssumption, Orders DEF FiniContext, NumbersInits, CountsNodes, TypeOK, resourceVars, holderVars, threadVars
<1>4. Serves'
  BY <1>0, ContextAssumption, Orders DEF FiniContext, Serves, Serving, Complete, CountsNodes, NumbersInits, TypeOK, Initializes, resourceVars, holderVars, threadVars
<1>5. Initializes'
  BY <1>0, ContextAssumption, Orders DEF FiniContext, Initializes, Complete, NumbersInits, TypeOK, resourceVars, holderVars, threadVars
<1>6. CallsBack'
  BY <1>0, ContextAssumption, Orders DEF FiniContext, CallsBack, CallbackTargetExists, Initializes, Complete, TypeOK, resourceVars, holderVars, threadVars
<1>7. Joins'
  BY <1>0, ContextAssumption, Orders DEF FiniContext, Joins, Serves, Serving, CountsNodes, TypeOK, resourceVars, holderVars, threadVars
<1>8. CallsContext'
  BY <1>0, ContextAssumption, Orders DEF FiniContext, CallsContext, CountsNodes, NumbersInits, TypeOK, resourceVars, holderVars, threadVars
<1>9. Cleans'
  BY <1>0, ContextAssumption, Orders DEF FiniContext, Cleans, Undone, Pointed, CountsNodes, NumbersInits, TypeOK, resourceVars, holderVars, threadVars
<1> QED
  BY <1>1, <1>2, <1>3, <1>4, <1>5, <1>6, <1>7, <1>8, <1>9 DEF ContextInv

LEMMA BeginCreateNodeInv ==
  ASSUME ContextInv, BeginCreateNode
  PROVE  ContextInv'
<1>0. TypeOK /\ CountsNodes /\ NumbersInits /\ Serves /\ Initializes /\ CallsBack /\ Joins /\ CallsContext /\ Cleans
  BY DEF ContextInv
<1>1. TypeOK'
  BY <1>0, ContextAssumption, Orders DEF BeginCreateNode, Goto, CountsNodes, NumbersInits, TypeOK, resourceVars, holderVars, threadVars
<1>2. CountsNodes'
  BY <1>0, ContextAssumption, Orders DEF BeginCreateNode, Goto, CountsNodes, TypeOK, Serves, Serving, resourceVars, holderVars, threadVars
<1>3. NumbersInits'
  BY <1>0, ContextAssumption, Orders DEF BeginCreateNode, Goto, NumbersInits, CountsNodes, TypeOK, resourceVars, holderVars, threadVars
<1>4. Serves'
  BY <1>0, ContextAssumption, Orders DEF BeginCreateNode, Goto, Serves, Serving, Complete, CountsNodes, NumbersInits, TypeOK, Initializes, resourceVars, holderVars, threadVars
<1>5. Initializes'
  BY <1>0, ContextAssumption, Orders DEF BeginCreateNode, Goto, Initializes, Complete, NumbersInits, TypeOK, resourceVars, holderVars, threadVars
<1>6. CallsBack'
  BY <1>0, ContextAssumption, Orders DEF BeginCreateNode, Goto, CallsBack, CallbackTargetExists, Initializes, Complete, TypeOK, resourceVars, holderVars, threadVars
<1>7. Joins'
  BY <1>0, ContextAssumption, Orders DEF BeginCreateNode, Goto, Joins, Serves, Serving, CountsNodes, TypeOK, resourceVars, holderVars, threadVars
<1>8. CallsContext'
  BY <1>0, ContextAssumption, Orders DEF BeginCreateNode, Goto, CallsContext, CountsNodes, NumbersInits, TypeOK, resourceVars, holderVars, threadVars
<1>9. Cleans'
  BY <1>0, ContextAssumption, Orders DEF BeginCreateNode, Goto, Cleans, Undone, Pointed, CountsNodes, NumbersInits, TypeOK, resourceVars, holderVars, threadVars
<1> QED
  BY <1>1, <1>2, <1>3, <1>4, <1>5, <1>6, <1>7, <1>8, <1>9 DEF ContextInv

LEMMA InitStepInv ==
  ASSUME ContextInv, InitStep
  PROVE  ContextInv'
<1>0. TypeOK /\ CountsNodes /\ NumbersInits /\ Serves /\ Initializes /\ CallsBack /\ Joins /\ CallsContext /\ Cleans
  BY DEF ContextInv
<1>1. TypeOK'
  <2>1. inits \in 1..MaxInits /\ InitOrder[at] \in Resources /\ at \in 1..6
    BY <1>0, Orders DEF TypeOK, NumbersInits, InitStep, StepFails
  <2>2. field' \in [Resources -> 0..MaxInits]
    BY <1>0, <2>1, ContextAssumption DEF TypeOK, InitStep, StepFails
  <2>5. exists' \subseteq Resources \X (1..MaxInits)
    BY <1>0, <2>1 DEF TypeOK, InitStep, StepFails
  <2>3. at' \in 1..6 /\ phase' \in {"init", "enable", "stop"}
    BY <2>1, Orders DEF InitStep, StepFails, Goto
  <2>4. callback' \in 0..MaxInits /\ ctxOf' \subseteq 1..MaxInits
    BY <1>0, <2>1 DEF TypeOK, InitStep, StepFails
  <2> QED
    BY <1>0, Orders, <2>2, <2>3, <2>4, <2>5 DEF TypeOK, InitStep, threadVars
<1>2. CountsNodes'
  BY <1>0, ContextAssumption, Orders DEF InitStep, StepFails, Goto, CountsNodes, TypeOK, Serves, Serving, resourceVars, holderVars, threadVars
<1>3. NumbersInits'
  <2>1. inits \in Nat /\ inits > 0 /\ inits' = inits /\ inits <= MaxInits
    BY <1>0 DEF NumbersInits, InitStep, StepFails
  <2>2. ctxOf' \subseteq 1..inits
    <3>1. ctxOf \subseteq 1..inits /\ inits \in 1..inits
      BY <1>0, <2>1, SMT DEF NumbersInits
    <3>2. ctxOf' \subseteq ctxOf \cup {inits}
      BY DEF InitStep, StepFails
    <3> QED
      BY <3>1, <3>2
  <2>3. phase' = "init" => ctxOf' = ctxOf
    BY DEF InitStep, StepFails, Goto
  <2> QED
    BY <1>0, <2>1, <2>2, <2>3 DEF NumbersInits, InitStep, StepFails
<1>4. Serves'
  BY <1>0, ContextAssumption, Orders DEF InitStep, StepFails, Goto, Serves, Serving, Complete, CountsNodes, NumbersInits, TypeOK, Initializes, resourceVars, holderVars, threadVars
<1>5. Initializes'
  BY <1>0, ContextAssumption, Orders DEF InitStep, StepFails, Goto, Initializes, Complete, NumbersInits, TypeOK, resourceVars, holderVars, threadVars
<1>6. CallsBack'
  BY <1>0, ContextAssumption, Orders DEF InitStep, StepFails, Goto, CallsBack, CallbackTargetExists, Initializes, Complete, TypeOK, resourceVars, holderVars, threadVars
<1>7. Joins'
  BY <1>0, ContextAssumption, Orders DEF InitStep, StepFails, Goto, Joins, Serves, Serving, CountsNodes, TypeOK, resourceVars, holderVars, threadVars
<1>8. CallsContext'
  <2> SUFFICES ASSUME "finalize" \notin failed, NEW p \in ctxOf',
                      <<"participant", p>> \in exists'
               PROVE  p = field'["participant"] /\ phase' # "init"
    BY <1>0 DEF CallsContext, InitStep, Goto, CountsNodes
  <2>1. \A q \in ctxOf : <<"participant", q>> \notin exists
    BY <1>0 DEF CallsContext, InitStep, StepFails
  <2>2. inits \notin ctxOf
    BY <1>0 DEF NumbersInits, InitStep, StepFails
  <2>3. p = inits /\ at = 6 /\ phase' = "enable"
    BY <2>1, <2>2, Orders DEF InitStep, StepFails, Goto
  <2>4. field'["participant"] = inits
    BY <1>0, <2>3, Orders DEF InitStep, StepFails, Goto, Initializes, TypeOK
  <2> QED
    BY <2>3, <2>4
<1>9. Cleans'
  BY <1>0, ContextAssumption, Orders DEF InitStep, StepFails, Goto, Cleans, Undone, Pointed, CountsNodes, NumbersInits, TypeOK, resourceVars, holderVars, threadVars
<1> QED
  BY <1>1, <1>2, <1>3, <1>4, <1>5, <1>6, <1>7, <1>8, <1>9 DEF ContextInv

LEMMA EnableInv ==
  ASSUME ContextInv, Enable
  PROVE  ContextInv'
<1>0. TypeOK /\ CountsNodes /\ NumbersInits /\ Serves /\ Initializes /\ CallsBack /\ Joins /\ CallsContext /\ Cleans
  BY DEF ContextInv
<1>1. TypeOK'
  <2>1. /\ impl' \in BOOLEAN /\ isShutdown' \in BOOLEAN /\ running' \in BOOLEAN
        /\ joinable' \in BOOLEAN /\ terminated' \in BOOLEAN
    BY <1>0, Zenon DEF TypeOK, Enable

  <2>2. exitGc' \in {"none", "down", "dangling"}
    BY DEF Enable
  <2>3. ctxOf' \subseteq 1..MaxInits
    BY <1>0 DEF TypeOK, Enable, ContextTakenBack
  <2>5. threadSub' \in 0..MaxInits
    BY <1>0, Orders DEF TypeOK, Enable
  <2>6. nodeCount' \in 0..MaxNodes
    BY <1>0, ContextAssumption DEF TypeOK, Enable
  <2>4. failed' \subseteq {"enable", "stop", "finalize", "wait"}
        /\ phase' \in {"idle", "announce"} /\ at' = 1
        /\ thread' \in {"starting", thread}
    BY <1>0 DEF TypeOK, Enable, Goto, Idle
  <2> QED
    BY <1>0, Orders, <2>1, <2>2, <2>3, <2>4, <2>5, <2>6 DEF TypeOK, Enable
<1>2. CountsNodes'
  BY <1>0, ContextAssumption, Orders DEF Enable, ContextTakenBack, Goto, Idle, CountsNodes, TypeOK, Serves, Serving, resourceVars, holderVars, threadVars
<1>3. NumbersInits'
  BY <1>0, ContextAssumption, Orders DEF Enable, ContextTakenBack, Goto, Idle, NumbersInits, CountsNodes, TypeOK, resourceVars, holderVars, threadVars
<1>4. Serves'
  <2>1. CASE phase' = "announce"
    <3>1. /\ running' = TRUE /\ exitGc' = "down" /\ joinable' = TRUE
          /\ threadSub' = field["sub"] /\ UNCHANGED ctxOf
      BY <2>1 DEF Enable, Idle
    <3>2. UNCHANGED <<field, exists, inits, callback>>
      BY DEF Enable
    <3>3. Complete /\ callback = inits /\ inits \in ctxOf
      BY <1>0 DEF Initializes, Enable
    <3> QED
      BY <2>1, <3>1, <3>2, <3>3, Orders DEF Serves, Serving, Complete
  <2>2. CASE phase' # "announce"
    <3>1. phase' = "idle" /\ nodes' = 0 /\ ~running'
      BY <1>0, <2>2 DEF Enable, Goto, Idle, CountsNodes
    <3> QED
      BY <3>1, SMT DEF Serves, Serving
  <2> QED
    BY <2>1, <2>2
<1>5. Initializes'
  BY <1>0, ContextAssumption, Orders DEF Enable, ContextTakenBack, Goto, Idle, Initializes, Complete, NumbersInits, TypeOK, resourceVars, holderVars, threadVars
<1>6. CallsBack'
  BY <1>0, ContextAssumption, Orders DEF Enable, ContextTakenBack, Goto, Idle, CallsBack, CallbackTargetExists, Initializes, Complete, TypeOK, resourceVars, holderVars, threadVars
<1>7. Joins'
  BY <1>0, ContextAssumption, Orders DEF Enable, ContextTakenBack, Goto, Idle, Joins, Serves, Serving, CountsNodes, TypeOK, resourceVars, holderVars, threadVars
<1>8. CallsContext'
  BY <1>0, ContextAssumption, Orders DEF Enable, ContextTakenBack, Goto, Idle, CallsContext, CountsNodes, NumbersInits, TypeOK, resourceVars, holderVars, threadVars
<1>9. Cleans'
  BY <1>0, ContextAssumption, Orders DEF Enable, ContextTakenBack, Goto, Idle, Cleans, Undone, Pointed, CountsNodes, NumbersInits, TypeOK, resourceVars, holderVars, threadVars
<1> QED
  BY <1>1, <1>2, <1>3, <1>4, <1>5, <1>6, <1>7, <1>8, <1>9 DEF ContextInv

LEMMA AnnounceInv ==
  ASSUME ContextInv, Announce
  PROVE  ContextInv'
<1>0. TypeOK /\ CountsNodes /\ NumbersInits /\ Serves /\ Initializes /\ CallsBack /\ Joins /\ CallsContext /\ Cleans
  BY DEF ContextInv
<1>1. TypeOK'
  BY <1>0, ContextAssumption, Orders DEF Announce, FinalizeNode, Goto, Idle, CountsNodes, NumbersInits, TypeOK, resourceVars, holderVars, threadVars
<1>2. CountsNodes'
  BY <1>0, ContextAssumption, Orders DEF Announce, FinalizeNode, Goto, Idle, CountsNodes, TypeOK, Serves, Serving, resourceVars, holderVars, threadVars
<1>3. NumbersInits'
  BY <1>0, ContextAssumption, Orders DEF Announce, FinalizeNode, Goto, Idle, NumbersInits, CountsNodes, TypeOK, resourceVars, holderVars, threadVars
<1>4. Serves'
  BY <1>0, ContextAssumption, Orders DEF Announce, FinalizeNode, Goto, Idle, Serves, Serving, Complete, CountsNodes, NumbersInits, TypeOK, Initializes, resourceVars, holderVars, threadVars
<1>5. Initializes'
  BY <1>0, ContextAssumption, Orders DEF Announce, FinalizeNode, Goto, Idle, Initializes, Complete, NumbersInits, TypeOK, resourceVars, holderVars, threadVars
<1>6. CallsBack'
  BY <1>0, ContextAssumption, Orders DEF Announce, FinalizeNode, Goto, Idle, CallsBack, CallbackTargetExists, Initializes, Complete, TypeOK, resourceVars, holderVars, threadVars
<1>7. Joins'
  BY <1>0, ContextAssumption, Orders DEF Announce, FinalizeNode, Goto, Idle, Joins, Serves, Serving, CountsNodes, TypeOK, resourceVars, holderVars, threadVars
<1>8. CallsContext'
  BY <1>0, ContextAssumption, Orders DEF Announce, FinalizeNode, Goto, Idle, CallsContext, CountsNodes, NumbersInits, TypeOK, resourceVars, holderVars, threadVars
<1>9. Cleans'
  BY <1>0, ContextAssumption, Orders DEF Announce, FinalizeNode, Goto, Idle, Cleans, Undone, Pointed, CountsNodes, NumbersInits, TypeOK, resourceVars, holderVars, threadVars
<1> QED
  BY <1>1, <1>2, <1>3, <1>4, <1>5, <1>6, <1>7, <1>8, <1>9 DEF ContextInv

LEMMA DestroyNodeInv ==
  ASSUME ContextInv, DestroyNode
  PROVE  ContextInv'
<1>0. TypeOK /\ CountsNodes /\ NumbersInits /\ Serves /\ Initializes /\ CallsBack /\ Joins /\ CallsContext /\ Cleans
  BY DEF ContextInv
<1>1. TypeOK'
  BY <1>0, ContextAssumption, Orders DEF DestroyNode, FinalizeNode, Goto, Idle, CountsNodes, NumbersInits, TypeOK, resourceVars, holderVars, threadVars
<1>2. CountsNodes'
  BY <1>0, ContextAssumption, Orders DEF DestroyNode, FinalizeNode, Goto, Idle, CountsNodes, TypeOK, Serves, Serving, resourceVars, holderVars, threadVars
<1>3. NumbersInits'
  BY <1>0, ContextAssumption, Orders DEF DestroyNode, FinalizeNode, Goto, Idle, NumbersInits, CountsNodes, TypeOK, resourceVars, holderVars, threadVars
<1>4. Serves'
  BY <1>0, ContextAssumption, Orders DEF DestroyNode, FinalizeNode, Goto, Idle, Serves, Serving, Complete, CountsNodes, NumbersInits, TypeOK, Initializes, resourceVars, holderVars, threadVars
<1>5. Initializes'
  BY <1>0, ContextAssumption, Orders DEF DestroyNode, FinalizeNode, Goto, Idle, Initializes, Complete, NumbersInits, TypeOK, resourceVars, holderVars, threadVars
<1>6. CallsBack'
  BY <1>0, ContextAssumption, Orders DEF DestroyNode, FinalizeNode, Goto, Idle, CallsBack, CallbackTargetExists, Initializes, Complete, TypeOK, resourceVars, holderVars, threadVars
<1>7. Joins'
  BY <1>0, ContextAssumption, Orders DEF DestroyNode, FinalizeNode, Goto, Idle, Joins, Serves, Serving, CountsNodes, TypeOK, resourceVars, holderVars, threadVars
<1>8. CallsContext'
  BY <1>0, ContextAssumption, Orders DEF DestroyNode, FinalizeNode, Goto, Idle, CallsContext, CountsNodes, NumbersInits, TypeOK, resourceVars, holderVars, threadVars
<1>9. Cleans'
  BY <1>0, ContextAssumption, Orders DEF DestroyNode, FinalizeNode, Goto, Idle, Cleans, Undone, Pointed, CountsNodes, NumbersInits, TypeOK, resourceVars, holderVars, threadVars
<1> QED
  BY <1>1, <1>2, <1>3, <1>4, <1>5, <1>6, <1>7, <1>8, <1>9 DEF ContextInv

LEMMA StopListenerInv ==
  ASSUME ContextInv, StopListener
  PROVE  ContextInv'
<1>0. TypeOK /\ CountsNodes /\ NumbersInits /\ Serves /\ Initializes /\ CallsBack /\ Joins /\ CallsContext /\ Cleans
  BY DEF ContextInv
<1>1. TypeOK'
  <2>1. /\ impl' \in BOOLEAN /\ isShutdown' \in BOOLEAN /\ running' \in BOOLEAN
        /\ joinable' \in BOOLEAN /\ terminated' \in BOOLEAN
    BY <1>0, Zenon DEF TypeOK, StopListener

  <2>2. exitGc' \in {"up", exitGc} /\ callback' \in {0, callback}
        /\ phase' \in {"idle", "join", "fini"} /\ at' = 1
    BY DEF StopListener, TriggerExit, ClearCallback, Goto, Idle
  <2>3. failed' \subseteq {"enable", "stop", "finalize", "wait"}
    BY <1>0 DEF TypeOK, StopListener
  <2> QED
    BY <1>0, ContextAssumption, Orders, <2>1, <2>2, <2>3 DEF TypeOK, StopListener
<1>2. CountsNodes'
  BY <1>0, ContextAssumption, Orders DEF StopListener, TriggerExit, ClearCallback, Goto, Idle, CountsNodes, TypeOK, Serves, Serving, resourceVars, holderVars, threadVars
<1>3. NumbersInits'
  BY <1>0, ContextAssumption, Orders DEF StopListener, TriggerExit, ClearCallback, Goto, Idle, NumbersInits, CountsNodes, TypeOK, resourceVars, holderVars, threadVars
<1>4. Serves'
  BY <1>0, ContextAssumption, Orders DEF StopListener, TriggerExit, ClearCallback, Goto, Idle, Serves, Serving, Complete, CountsNodes, NumbersInits, TypeOK, Initializes, resourceVars, holderVars, threadVars
<1>5. Initializes'
  BY <1>0, ContextAssumption, Orders DEF StopListener, TriggerExit, ClearCallback, Goto, Idle, Initializes, Complete, NumbersInits, TypeOK, resourceVars, holderVars, threadVars
<1>6. CallsBack'
  BY <1>0, ContextAssumption, Orders DEF StopListener, TriggerExit, ClearCallback, Goto, Idle, CallsBack, CallbackTargetExists, Initializes, Complete, TypeOK, resourceVars, holderVars, threadVars
<1>7. Joins'
  BY <1>0, ContextAssumption, Orders DEF StopListener, TriggerExit, ClearCallback, Goto, Idle, Joins, Serves, Serving, CountsNodes, TypeOK, resourceVars, holderVars, threadVars
<1>8. CallsContext'
  BY <1>0, ContextAssumption, Orders DEF StopListener, TriggerExit, ClearCallback, Goto, Idle, CallsContext, CountsNodes, NumbersInits, TypeOK, resourceVars, holderVars, threadVars
<1>9. Cleans'
  BY <1>0, ContextAssumption, Orders DEF StopListener, TriggerExit, ClearCallback, Goto, Idle, Cleans, Undone, Pointed, CountsNodes, NumbersInits, TypeOK, resourceVars, holderVars, threadVars
<1> QED
  BY <1>1, <1>2, <1>3, <1>4, <1>5, <1>6, <1>7, <1>8, <1>9 DEF ContextInv

LEMMA JoinListenerInv ==
  ASSUME ContextInv, JoinListener
  PROVE  ContextInv'
<1>0. TypeOK /\ CountsNodes /\ NumbersInits /\ Serves /\ Initializes /\ CallsBack /\ Joins /\ CallsContext /\ Cleans
  BY DEF ContextInv
<1>1. TypeOK'
  <2>1. /\ impl' \in BOOLEAN /\ isShutdown' \in BOOLEAN /\ running' \in BOOLEAN
        /\ joinable' \in BOOLEAN /\ terminated' \in BOOLEAN
    BY <1>0, Zenon DEF TypeOK, JoinListener

  <2>2. exitGc' = "dangling" /\ callback' = 0 /\ phase' = "fini" /\ at' = 1
    BY DEF JoinListener, ClearCallback, Goto
  <2> QED
    BY <1>0, ContextAssumption, Orders, <2>1, <2>2 DEF TypeOK, JoinListener
<1>2. CountsNodes'
  BY <1>0, ContextAssumption, Orders DEF JoinListener, Joined, ClearCallback, Goto, CountsNodes, TypeOK, Serves, Serving, resourceVars, holderVars, threadVars
<1>3. NumbersInits'
  BY <1>0, ContextAssumption, Orders DEF JoinListener, Joined, ClearCallback, Goto, NumbersInits, CountsNodes, TypeOK, resourceVars, holderVars, threadVars
<1>4. Serves'
  BY <1>0, ContextAssumption, Orders DEF JoinListener, Joined, ClearCallback, Goto, Serves, Serving, Complete, CountsNodes, NumbersInits, TypeOK, Initializes, resourceVars, holderVars, threadVars
<1>5. Initializes'
  BY <1>0, ContextAssumption, Orders DEF JoinListener, Joined, ClearCallback, Goto, Initializes, Complete, NumbersInits, TypeOK, resourceVars, holderVars, threadVars
<1>6. CallsBack'
  BY <1>0, ContextAssumption, Orders DEF JoinListener, Joined, ClearCallback, Goto, CallsBack, CallbackTargetExists, Initializes, Complete, TypeOK, resourceVars, holderVars, threadVars
<1>7. Joins'
  BY <1>0, ContextAssumption, Orders DEF JoinListener, Joined, ClearCallback, Goto, Joins, Serves, Serving, CountsNodes, TypeOK, resourceVars, holderVars, threadVars
<1>8. CallsContext'
  BY <1>0, ContextAssumption, Orders DEF JoinListener, Joined, ClearCallback, Goto, CallsContext, CountsNodes, NumbersInits, TypeOK, resourceVars, holderVars, threadVars
<1>9. Cleans'
  BY <1>0, ContextAssumption, Orders DEF JoinListener, Joined, ClearCallback, Goto, Cleans, Undone, Pointed, CountsNodes, NumbersInits, TypeOK, resourceVars, holderVars, threadVars
<1> QED
  BY <1>1, <1>2, <1>3, <1>4, <1>5, <1>6, <1>7, <1>8, <1>9 DEF ContextInv

LEMMA FiniStepInv ==
  ASSUME ContextInv, FiniStep
  PROVE  ContextInv'
<1>0. TypeOK /\ CountsNodes /\ NumbersInits /\ Serves /\ Initializes /\ CallsBack /\ Joins /\ CallsContext /\ Cleans
  BY DEF ContextInv
<1>1. TypeOK'
  <2>1. at \in 1..6 /\ FiniOrder[at] \in Resources
    BY <1>0, Orders DEF TypeOK
  <2>2. field' \in [Resources -> 0..MaxInits] /\ exists' \subseteq Resources \X (1..MaxInits)
    BY <1>0, <2>1, ContextAssumption DEF TypeOK, FiniStep
  <2>3. at' \in 1..6 /\ phase' \in {"idle", "fini"}
    BY <2>1, Orders DEF FiniStep, Idle
  <2>4. failed' \subseteq {"enable", "stop", "finalize", "wait"}
    BY <1>0 DEF TypeOK, FiniStep
  <2> QED
    BY <1>0, Orders, <2>2, <2>3, <2>4 DEF TypeOK, FiniStep, threadVars
<1>2. CountsNodes'
  BY <1>0, ContextAssumption, Orders DEF FiniStep, Deletable, Idle, CountsNodes, TypeOK, Serves, Serving, resourceVars, holderVars, threadVars
<1>3. NumbersInits'
  BY <1>0, ContextAssumption, Orders DEF FiniStep, Deletable, Idle, NumbersInits, CountsNodes, TypeOK, resourceVars, holderVars, threadVars
<1>4. Serves'
  BY <1>0, ContextAssumption, Orders DEF FiniStep, Deletable, Idle, Serves, Serving, Complete, CountsNodes, NumbersInits, TypeOK, Initializes, resourceVars, holderVars, threadVars
<1>5. Initializes'
  BY <1>0, ContextAssumption, Orders DEF FiniStep, Deletable, Idle, Initializes, Complete, NumbersInits, TypeOK, resourceVars, holderVars, threadVars
<1>6. CallsBack'
  BY <1>0, ContextAssumption, Orders DEF FiniStep, Deletable, Idle, CallsBack, CallbackTargetExists, Initializes, Complete, TypeOK, resourceVars, holderVars, threadVars
<1>7. Joins'
  BY <1>0, ContextAssumption, Orders DEF FiniStep, Deletable, Idle, Joins, Serves, Serving, CountsNodes, TypeOK, resourceVars, holderVars, threadVars
<1>8. CallsContext'
  BY <1>0, ContextAssumption, Orders DEF FiniStep, Deletable, Idle, CallsContext, CountsNodes, NumbersInits, TypeOK, resourceVars, holderVars, threadVars
<1>9. Cleans'
  <2> DEFINE r == FiniOrder[at]
  <2>0. at \in 1..6 /\ r \in Resources /\ field \in [Resources -> 0..MaxInits]
    BY <1>0, Orders DEF TypeOK
  <2>1. SUFFICES ASSUME ~Undone'
                 PROVE  Cleans'
    BY DEF Cleans
  <2>2. ~Undone /\ UNCHANGED <<inits, nodes, callback>>
    BY <2>1 DEF Undone, FiniStep
  <2>3. exists' = exists \ {<<r, field[r]>>} /\ field' = [field EXCEPT ![r] = 0]
    BY <2>1 DEF Undone, FiniStep
  <2>4. exists' = Pointed'
    BY <1>0, <2>0, <2>2, <2>3 DEF Cleans, Pointed
  <2>5. \A i \in 1..6 : i <= at => field'[FiniOrder[i]] = 0
    BY <1>0, <2>0, <2>2, <2>3, Orders DEF Cleans, FiniStep
  <2>6. phase' = "fini" => at' = at + 1
    BY <2>1 DEF FiniStep, Idle, Undone
  <2>7. phase' = "idle" => \A q \in Resources : field'[q] = 0
    BY <2>0, <2>1, <2>5, Orders DEF FiniStep, Undone
  <2>8. callback' = 0 /\ phase' \in {"idle", "fini"}
    BY <1>0, <2>2 DEF CallsBack, FiniStep, Idle
  <2>9. phase' = "fini" => \A i \in 1..6 : i < at' => field'[FiniOrder[i]] = 0
    BY <2>0, <2>5, <2>6
  <2> QED
    BY <2>4, <2>7, <2>8, <2>9 DEF Cleans
<1> QED
  BY <1>1, <1>2, <1>3, <1>4, <1>5, <1>6, <1>7, <1>8, <1>9 DEF ContextInv

LEMMA ListenerThreadInv ==
  ASSUME ContextInv, ListenerThread
  PROVE  ContextInv'
<1>0. TypeOK /\ CountsNodes /\ NumbersInits /\ Serves /\ Initializes /\ CallsBack /\ Joins /\ CallsContext /\ Cleans
  BY DEF ContextInv
<1>1. TypeOK'
  <2>1. UNCHANGED otherThanThread
        /\ thread' \in {"waiting", "cleanup", "handling", "done"}
        /\ failed' \in {failed, failed \cup {"wait"}}
    BY DEF ListenerThread, ListenerStarts, ListenerWakes, ListenerHandles, ListenerCleansUp
  <2>2. /\ impl' \in BOOLEAN /\ isShutdown' \in BOOLEAN /\ running' \in BOOLEAN
        /\ joinable' \in BOOLEAN /\ terminated' \in BOOLEAN
    BY <1>0, <2>1, Zenon DEF TypeOK, otherThanThread
  <2> QED
    BY <1>0, <2>1, <2>2 DEF TypeOK, otherThanThread, resourceVars, holderVars
<1>2. CountsNodes'
  BY <1>0, ContextAssumption, Orders DEF ListenerThread, ListenerStarts, ListenerWakes, ListenerHandles, ListenerCleansUp, otherThanThread, CountsNodes, TypeOK, Serves, Serving, resourceVars, holderVars, threadVars
<1>3. NumbersInits'
  <2>1. UNCHANGED otherThanThread
    BY DEF ListenerThread, ListenerStarts, ListenerWakes, ListenerHandles, ListenerCleansUp
  <2> QED
    BY <1>0, <2>1 DEF NumbersInits, otherThanThread, resourceVars, holderVars
<1>4. Serves'
  BY <1>0, ContextAssumption, Orders DEF ListenerThread, ListenerStarts, ListenerWakes, ListenerHandles, ListenerCleansUp, otherThanThread, Serves, Serving, Complete, CountsNodes, NumbersInits, TypeOK, Initializes, resourceVars, holderVars, threadVars
<1>5. Initializes'
  BY <1>0, ContextAssumption, Orders DEF ListenerThread, ListenerStarts, ListenerWakes, ListenerHandles, ListenerCleansUp, otherThanThread, Initializes, Complete, NumbersInits, TypeOK, resourceVars, holderVars, threadVars
<1>6. CallsBack'
  BY <1>0, ContextAssumption, Orders DEF ListenerThread, ListenerStarts, ListenerWakes, ListenerHandles, ListenerCleansUp, otherThanThread, CallsBack, CallbackTargetExists, Initializes, Complete, TypeOK, resourceVars, holderVars, threadVars
<1>7. Joins'
  BY <1>0, ContextAssumption, Orders DEF ListenerThread, ListenerStarts, ListenerWakes, ListenerHandles, ListenerCleansUp, otherThanThread, Joins, Serves, Serving, CountsNodes, TypeOK, resourceVars, holderVars, threadVars
<1>8. CallsContext'
  BY <1>0, ContextAssumption, Orders DEF ListenerThread, ListenerStarts, ListenerWakes, ListenerHandles, ListenerCleansUp, otherThanThread, CallsContext, CountsNodes, NumbersInits, TypeOK, resourceVars, holderVars, threadVars
<1>9. Cleans'
  BY <1>0, ContextAssumption, Orders DEF ListenerThread, ListenerStarts, ListenerWakes, ListenerHandles, ListenerCleansUp, otherThanThread, Cleans, Undone, Pointed, CountsNodes, NumbersInits, TypeOK, resourceVars, holderVars, threadVars
<1> QED
  BY <1>1, <1>2, <1>3, <1>4, <1>5, <1>6, <1>7, <1>8, <1>9 DEF ContextInv

LEMMA NextInv == ContextInv /\ [Next]_vars => ContextInv'
<1> SUFFICES ASSUME ContextInv, [Next]_vars PROVE ContextInv'
  OBVIOUS
<1>1. CASE UNCHANGED vars
  <2>1. UNCHANGED <<impl, isShutdown, nodeCount, nodes, field, exists, inits, ctxOf, callback,
                    phase, at, running, thread, threadSub, joinable, exitGc, terminated,
                    failed>>
    BY <1>1 DEF vars, resourceVars, holderVars, threadVars
  <2>2. TypeOK' /\ CountsNodes' /\ NumbersInits'
    BY <2>1 DEF ContextInv, TypeOK, CountsNodes, NumbersInits
  <2>3. Serves' /\ Initializes' /\ CallsBack'
    BY <2>1 DEF ContextInv, Serves, Serving, Complete, Initializes, CallsBack,
       CallbackTargetExists
  <2>4. Joins' /\ CallsContext' /\ Cleans'
    BY <2>1 DEF ContextInv, Joins, Serving, CallsContext, Cleans, Undone, Pointed
  <2> QED
    BY <2>2, <2>3, <2>4 DEF ContextInv
<1> QED
  BY <1>1, InitContextInv, ShutdownInv, FiniContextInv, BeginCreateNodeInv, InitStepInv,
     EnableInv, AnnounceInv, DestroyNodeInv, StopListenerInv, JoinListenerInv, FiniStepInv,
     ListenerThreadInv
  DEF Next

LEMMA ContextInvariant == Spec => []ContextInv
  BY InitInv, NextInv, PTL DEF Spec

-----------------------------------------------------------------------------
(* The properties                                                          *)

\* The variables of the context and of its listener thread have their types, the
\* bounds on nodes and initializations included.
THEOREM ContextTypeCorrect == Spec => []TypeOK
<1>1. ContextInv => TypeOK
  BY DEF ContextInv
<1> QED
  BY <1>1, ContextInvariant, PTL

\* While a node exists, node_count counts the nodes, and the participant, its
\* endpoints, the callbacks and the listener are there for them.
THEOREM NodesStayServed == Spec => []NodesAreServed
<1>1. ContextInv => NodesAreServed
  <2> SUFFICES ASSUME ContextInv, phase = "idle", nodes > 0
               PROVE  /\ nodeCount = nodes
                      /\ \A r \in Resources :
                           <<r, field[r]>> \in exists /\ field[r] = field["participant"]
                      /\ field["participant"] \in ctxOf
                      /\ callback = field["graph_gc"]
                      /\ running /\ exitGc = "down" /\ threadSub = field["sub"]
    BY DEF NodesAreServed
  <2>1. Serving /\ nodeCount = nodes
    BY DEF ContextInv, CountsNodes, Serving
  <2>2. /\ Complete /\ threadSub = inits /\ inits \in ctxOf /\ callback = inits
        /\ running /\ exitGc = "down"
    BY <2>1 DEF ContextInv, Serves
  <2> QED
    BY <2>1, <2>2, Orders DEF Complete
<1> QED
  BY <1>1, ContextInvariant, PTL

\* With no node left nothing is left, unless a finalization failed or the listener
\* could not be started or told to stop.
THEOREM LastNodeCleansUp == Spec => []CleanAfterLastNode
<1>1. ContextInv => CleanAfterLastNode
  <2> SUFFICES ASSUME ContextInv, phase = "idle", nodes = 0, ~Undone
               PROVE  exists = {} /\ callback = 0 /\ ~joinable /\ ~running /\ nodeCount = 0
    BY DEF CleanAfterLastNode, Undone
  <2>1. exists = Pointed /\ callback = 0 /\ \A r \in Resources : field[r] = 0
    BY DEF ContextInv, Cleans
  <2>2. exists = {}
    BY <2>1, SMT DEF Pointed, ContextInv, NumbersInits
  <2>3. ~Serving
    BY SMT DEF Serving
  <2>4. ~running /\ nodeCount = 0
    BY <2>3 DEF ContextInv, Serves, CountsNodes
  <2>5. ~joinable
    BY <2>3 DEF ContextInv, Joins, Undone
  <2> QED
    BY <2>1, <2>2, <2>4, <2>5
<1> QED
  BY <1>1, ContextInvariant, PTL

\* The listener thread finds its subscription and its guard condition as long as it
\* runs, and its std::thread is joined before it is assigned or destroyed, unless it
\* could not be told to stop.
THEOREM ListenerStaysJoined == Spec => []ListenerIsJoined
<1>1. ContextInv => ListenerIsJoined
  <2> SUFFICES ASSUME ContextInv, "stop" \notin failed
               PROVE  /\ thread \in {"starting", "waiting", "handling", "cleanup"} =>
                           <<"sub", threadSub>> \in exists /\ exitGc \in {"down", "up"}
                      /\ ~terminated
    BY DEF ListenerIsJoined
  <2>1. ~terminated
    BY DEF ContextInv, Joins
  <2>2. ASSUME thread \in {"starting", "waiting", "handling", "cleanup"}
        PROVE  <<"sub", threadSub>> \in exists /\ exitGc \in {"down", "up"}
    <3>1. Serving \/ phase = "join"
      BY <2>2 DEF ContextInv, Joins
    <3>2. Complete /\ threadSub = inits /\ exitGc \in {"down", "up"}
      BY <3>1 DEF ContextInv, Serves
    <3> QED
      BY <3>2, Orders DEF Complete
  <2> QED
    BY <2>1, <2>2
<1> QED
  BY <1>1, ContextInvariant, PTL

\* The change callback, called by DDS threads at any time, finds the graph guard
\* condition it captured.
THEOREM CallbackFindsTarget == Spec => []CallbackTargetExists
<1>1. ContextInv => CallbackTargetExists
  BY DEF ContextInv, CallsBack
<1> QED
  BY <1>1, ContextInvariant, PTL

\* A participant that exists calls back into the context that made it, unless a
\* finalization failed.
THEOREM RemoteCallbacksFind == Spec => []RemoteCallbacksFindContext
<1>1. ContextInv => RemoteCallbacksFindContext
  BY DEF ContextInv, CallsContext, CountsNodes, RemoteCallbacksFindContext
<1> QED
  BY <1>1, ContextInvariant, PTL
=============================================================================
