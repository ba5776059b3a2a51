-------------------------- MODULE ServiceRpcProofs --------------------------
(***************************************************************************)
(* For any number of clients, servers, threads and calls: the types, the   *)
(* fit of every answer to its call, that a take that finds nothing had     *)
(* nothing to find, and, with one sending thread, the implementation of    *)
(* Rpc.                                                                    *)
(***************************************************************************)
EXTENDS ServiceRpc, TLAPS

\* A number survives the exchange of its halves in the header and back, even
\* where it needs both of them.
LEMMA DivMod == ASSUME NEW n \in Nat
  PROVE  /\ n \div Half \in Nat
         /\ n % Half \in 0..(Half - 1)
         /\ n = (n \div Half) * Half + (n % Half)
  BY RpcAssumption, Z3T(30)

LEMMA HalvesOf == ASSUME NEW q \in Nat, NEW r \in Nat, r < Half
  PROVE  (r + q * Half) % Half = r /\ (r + q * Half) \div Half = q
  BY RpcAssumption, Z3T(30)

LEMMA SequenceNumberSurvives == ASSUME NEW n \in Nat, n < Half * Half
  PROVE  dds_sn_to_ros_sn(ros_sn_to_dds_sn(n)) = n
<1> DEFINE q == n \div Half
           r == n % Half
<1>1. q \in Nat /\ r \in Nat /\ r < Half /\ n = q * Half + r
  BY DivMod, RpcAssumption
<1>2. q < Half
  BY RpcAssumption, DivMod, Z3T(30)
<1>3. (q + r * Half) % Half = q /\ (q + r * Half) \div Half = r
  <2> HIDE DEF q, r
  <2> QED BY <1>1, <1>2, HalvesOf
<1> QED BY <1>1, <1>3 DEF ros_sn_to_dds_sn, dds_sn_to_ros_sn

LEMMA SequenceNumberIsNat == ASSUME NEW n \in Nat
  PROVE  ros_sn_to_dds_sn(n) \in Nat /\ dds_sn_to_ros_sn(n) \in Nat
<1>1. n \div Half \in Nat /\ n % Half \in Nat /\ Half \in Nat
  BY DivMod, RpcAssumption
<1>2. (n % Half) * Half \in Nat
  BY <1>1
<1> QED BY <1>1, <1>2 DEF ros_sn_to_dds_sn, dds_sn_to_ros_sn

LEMMA CallIsPair == ASSUME NEW k \in Calls
  PROVE  /\ k = <<k[1], k[2]>> /\ k[1] \in Clients
         /\ k[2] \in Nat /\ k[2] > 0 /\ k[2] <= MaxCalls[k[1]]
  BY RpcAssumption DEF Calls

LEMMA BoundsAreNats == \A c \in Clients : MaxCalls[c] \in Nat
  BY RpcAssumption

LEMMA PairIsCall == ASSUME NEW c \in Clients, NEW j \in Nat, j > 0, j <= MaxCalls[c]
  PROVE  <<c, j>> \in Calls
  BY RpcAssumption DEF Calls

-----------------------------------------------------------------------------
(* The inductive invariant *)

\* Numbers are given once per call, in no more calls than were made.
Numbering ==
  /\ \A c \in Clients : seqNo[c] <= made[c] /\ made[c] <= MaxCalls[c]
  /\ \A k \in Calls :
       /\ k[2] > made[k[1]] => number[k] = 0 /\ ids[k] = 0
       /\ number[k] <= made[k[1]]
  /\ \A p \in Clients \X Threads : sender[p] # Idle =>
       /\ sender[p].step # "idle"
       /\ sender[p].call \in Calls /\ ClientOf(sender[p].call) = p[1]
       /\ sender[p].call[2] <= made[p[1]]
       /\ sender[p].sn = number[sender[p].call] /\ sender[p].sn > 0

\* A header that travels names the client and the number of its call.
Names(m) == m.call \in Calls /\ m.guid = ClientOf(m.call) /\ number[m.call] > 0
RequestOK(m) == Names(m) /\ m.sn = ros_sn_to_dds_sn(number[m.call]) /\ m.call \in sent
HeaderOK(s, h) == Names(h) /\ h.sn = number[h.call] /\ <<s, h.call>> \in executions
ResponseOK(m) ==
  Names(m) /\ m.sn = ros_sn_to_dds_sn(number[m.call]) /\ <<m.server, m.call>> \in executions
AnswerOK(a) ==
  /\ a.call \in Calls /\ a.client = ClientOf(a.call) /\ number[a.call] > 0
  /\ a.id = number[a.call] /\ <<a.server, a.call>> \in executions
Samples ==
  /\ \A s \in Servers : \A m \in requests[s] : m # InvalidRequest => RequestOK(m)
  /\ \A s \in Servers : \A h \in serving[s] : h # InvalidRequest => HeaderOK(s, h)
  /\ \A c \in Clients : \A m \in responses[c] : m.guid # NoGuid => ResponseOK(m)
  /\ \A a \in answers : AnswerOK(a)

\* Where no two threads have sent at once, the numbers are those of the calls.
OneSender(c) ==
  \A t, u \in Threads : sender[<<c, t>>] # Idle /\ sender[<<c, u>>] # Idle => t = u
SenderIsLast(c) ==
  \A t \in Threads : sender[<<c, t>>] # Idle =>
    /\ sender[<<c, t>>].call = <<c, made[c]>> /\ sender[<<c, t>>].sn = made[c]
    /\ seqNo[c] = IF sender[<<c, t>>].step = "store" THEN made[c] - 1 ELSE made[c]
CounterIsLast(c) == (\A t \in Threads : sender[<<c, t>>] = Idle) => seqNo[c] = made[c]
NumbersAreCalls(c) ==
  \A k \in Calls : ClientOf(k) = c /\ k[2] <= made[c] =>
    number[k] = k[2] /\ ids[k] \in {0, k[2]}
Ordering ==
  \A c \in Clients \ overlapped :
    OneSender(c) /\ SenderIsLast(c) /\ CounterIsLast(c) /\ NumbersAreCalls(c)

RpcInv == TypeOK /\ Numbering /\ Samples /\ Ordering

LEMMA NextIsCall == ASSUME TypeOK, NEW c \in Clients, made[c] < MaxCalls[c]
  PROVE  <<c, made[c] + 1>> \in Calls
<1>1. made[c] \in Nat /\ MaxCalls[c] \in Nat
  BY BoundsAreNats DEF TypeOK
<1> QED BY <1>1, PairIsCall

\* Only the steps of rmw_send_request touch what it keeps.
Send(c, t) == ReadNumber(c, t) \/ StoreNumber(c, t) \/ WriteRequest(c, t) \/ ReturnId(c, t)

LEMMA OthersDoNotSend == ASSUME [Next]_vars
  PROVE  (\E c \in Clients, t \in Threads : Send(c, t)) \/ UNCHANGED sendVars
  BY DEF Next, vars, Send, MatchRequest, MatchResponse, ServerIsAvailable, BeginTake, TakeNext,
         TakeRequest, SendResponse, WriterGoes, Lose

\* A number is never changed once it was given.
LEMMA NumberIsKept == ASSUME TypeOK, Numbering, [Next]_vars, NEW k \in Calls, number[k] > 0
  PROVE  number'[k] = number[k]
<1>1. CASE UNCHANGED sendVars
  BY <1>1 DEF sendVars
<1>2. ASSUME NEW c \in Clients, NEW t \in Threads, Send(c, t)
      PROVE  number'[k] = number[k]
  <2>1. CASE ReadNumber(c, t)
    <3>1. k # <<c, made[c] + 1>>
      BY CallIsPair DEF TypeOK, Numbering
    <3> QED BY <2>1, <3>1 DEF ReadNumber, TypeOK
  <2> QED BY <1>2, <2>1 DEF Send, StoreNumber, WriteRequest, ReturnId
<1> QED BY <1>1, <1>2, OthersDoNotSend

-----------------------------------------------------------------------------
(* Types *)

LEMMA InitIsOK == ASSUME Init
  PROVE  RpcInv
<1>1. TypeOK
  BY DEF Init, TypeOK, Idle, Sends
<1>2. Numbering
  BY RpcAssumption, CallIsPair DEF Init, Numbering
<1>3. Samples
  BY DEF Init, Samples
<1>4. Ordering
  BY CallIsPair DEF Init, Ordering, OneSender, SenderIsLast, CounterIsLast, NumbersAreCalls
<1> QED BY <1>1, <1>2, <1>3, <1>4 DEF RpcInv

\* The steps of a send, with the records they write.
LEMMA SendSteps == ASSUME TypeOK, NEW c \in Clients, NEW t \in Threads
  PROVE  /\ <<c, t>> \in Clients \X Threads /\ sender[<<c, t>>] \in Sends /\ Idle \in Sends
         /\ [sender[<<c, t>>] EXCEPT !.step = "write"] \in Sends
         /\ [sender[<<c, t>>] EXCEPT !.step = "return"] \in Sends
         /\ \A k \in Calls, n \in Nat : [step |-> "store", call |-> k, sn |-> n] \in Sends
<1>1. <<c, t>> \in Clients \X Threads /\ sender[<<c, t>>] \in Sends
  BY DEF TypeOK
<1>2. Idle \in Sends
  BY DEF Idle, Sends
<1>3. \A k \in Calls, n \in Nat : [step |-> "store", call |-> k, sn |-> n] \in Sends
  BY DEF Sends
<1>4. \A r \in Sends : /\ [r EXCEPT !.step = "write"] \in Sends
                       /\ [r EXCEPT !.step = "return"] \in Sends
  BY DEF Sends
<1> QED BY <1>1, <1>2, <1>3, <1>4

LEMMA TypeIsKept == ASSUME TypeOK, Numbering, Samples, [Next]_vars
  PROVE  TypeOK'
<1>1. CASE UNCHANGED vars
  BY <1>1 DEF vars, matchVars, sendVars, takeVars, TypeOK
<1>2. ASSUME NEW c \in Clients, NEW s \in Servers, MatchRequest(c, s) \/ MatchResponse(c, s)
      PROVE  TypeOK'
  BY <1>2 DEF MatchRequest, MatchResponse, sendVars, takeVars, TypeOK
<1>3. ASSUME NEW c \in Clients, ServerIsAvailable(c) \/ BeginTake(c)
      PROVE  TypeOK'
  BY <1>3 DEF ServerIsAvailable, BeginTake, sendVars, takeVars, matchVars, TypeOK
<1>4. ASSUME NEW c \in Clients, TakeNext(c)
      PROVE  TypeOK'
  <2>1. /\ responses' \in [Clients -> SUBSET Responses]
        /\ taker' \in [Clients -> {"idle", "taking", "error"}]
    BY <1>4 DEF TakeNext, Continue, TypeOK
  <2>2. answers' \subseteq Answers
    <3>1. ASSUME NEW m \in responses[c], IsOwn(c, m)
          PROVE  [client |-> c, id |-> dds_sn_to_ros_sn(m.sn), call |-> m.call,
                  server |-> m.server] \in Answers
      <4>1. m \in Responses
        BY DEF TypeOK
      <4>2. m.sn \in Nat /\ m.server \in Servers
        BY <4>1 DEF Responses
      <4>3. m.guid # NoGuid
        BY <3>1, NoGuidAssumption DEF IsOwn
      <4>4. m.call \in Calls
        BY <4>3 DEF Samples, ResponseOK, Names
      <4> QED BY <4>2, <4>4, SequenceNumberIsNat DEF Answers
    <3> QED BY <1>4, <3>1 DEF TakeNext, TypeOK
  <2> QED BY <1>4, <2>1, <2>2 DEF TakeNext, matchVars, sendVars, TypeOK
<1>5. ASSUME NEW c \in Clients, NEW t \in Threads, ReadNumber(c, t)
      PROVE  TypeOK'
  <2>1. <<c, made[c] + 1>> \in Calls /\ seqNo[c] + 1 \in Nat /\ made[c] + 1 \in Nat
    BY <1>5, NextIsCall DEF ReadNumber, TypeOK
  <2>2. sender' \in [Clients \X Threads -> Sends]
    BY <1>5, <2>1, SendSteps DEF ReadNumber, TypeOK
  <2>3. /\ made' \in [Clients -> Nat] /\ number' \in [Calls -> Nat]
        /\ overlapped' \subseteq Clients /\ assured' \subseteq Calls
    BY <1>5, <2>1 DEF ReadNumber, TypeOK
  <2> QED BY <1>5, <2>2, <2>3 DEF ReadNumber, otherThanSend, matchVars, takeVars, TypeOK
<1>6. ASSUME NEW c \in Clients, NEW t \in Threads, StoreNumber(c, t)
      PROVE  TypeOK'
  <2>1. sender[<<c, t>>].sn \in Nat
    BY SendSteps DEF Sends
  <2>2. /\ seqNo' = [seqNo EXCEPT ![c] = sender[<<c, t>>].sn]
        /\ sender' = [sender EXCEPT ![<<c, t>>] = [sender[<<c, t>>] EXCEPT !.step = "write"]]
    BY <1>6 DEF StoreNumber
  <2>3. sender' \in [Clients \X Threads -> Sends]
    BY <2>2, SendSteps DEF TypeOK
  <2>4. seqNo' \in [Clients -> Nat]
    BY <2>1, <2>2 DEF TypeOK
  <2> QED BY <1>6, <2>3, <2>4 DEF StoreNumber, otherThanSend, matchVars, takeVars, TypeOK
<1>7. ASSUME NEW c \in Clients, NEW t \in Threads, WriteRequest(c, t)
      PROVE  TypeOK'
  <2>1. sender[<<c, t>>].step = "write"
    BY <1>7 DEF WriteRequest
  <2>2. sender[<<c, t>>].call \in Calls
    BY <2>1, SendSteps DEF Numbering, Idle
  <2>3. ros_sn_to_dds_sn(sender[<<c, t>>].sn) \in Nat
    BY SendSteps, SequenceNumberIsNat DEF Sends
  <2>4. [guid |-> RequestHeader(<<c, t>>).guid, sn |-> RequestHeader(<<c, t>>).sn,
         call |-> sender[<<c, t>>].call] \in Headers
    BY <2>2, <2>3 DEF RequestHeader, Headers
  <2>5. sent' \subseteq Calls
    BY <1>7, <2>2 DEF WriteRequest, TypeOK
  <2>8. requests' \in [Servers -> SUBSET Headers]
    <3> DEFINE m == [guid |-> RequestHeader(<<c, t>>).guid, sn |-> RequestHeader(<<c, t>>).sn,
                     call |-> sender[<<c, t>>].call]
    <3>1. \/ requests' = [s \in Servers |-> IF s \in ReadersFor(c) THEN requests[s] \cup {m}
                                             ELSE requests[s]]
          \/ requests' = requests
      BY <1>7 DEF WriteRequest
    <3>2. m \in Headers
      BY <2>4
    <3> HIDE DEF m
    <3> QED BY <3>1, <3>2 DEF TypeOK
  <2>6. \/ sender' = [sender EXCEPT ![<<c, t>>] = [sender[<<c, t>>] EXCEPT !.step = "return"]]
        \/ sender' = [sender EXCEPT ![<<c, t>>] = Idle]
    BY <1>7 DEF WriteRequest
  <2>7. sender' \in [Clients \X Threads -> Sends]
    <3>1. CASE sender' = [sender EXCEPT ![<<c, t>>] = Idle]
      BY <3>1, SendSteps DEF TypeOK
    <3>2. CASE sender' = [sender EXCEPT ![<<c, t>>] =
                            [sender[<<c, t>>] EXCEPT !.step = "return"]]
      BY <3>2, SendSteps DEF TypeOK
    <3> QED BY <2>6, <3>1, <3>2
  <2> QED BY <1>7, <2>5, <2>7, <2>8 DEF WriteRequest, otherThanSend, matchVars, takeVars, TypeOK
<1>8. ASSUME NEW c \in Clients, NEW t \in Threads, ReturnId(c, t)
      PROVE  TypeOK'
  <2>1. sender' \in [Clients \X Threads -> Sends] /\ ids' \in [Calls -> Nat]
    BY <1>8, SendSteps DEF ReturnId, TypeOK
  <2> QED BY <1>8, <2>1 DEF ReturnId, otherThanSend, matchVars, takeVars, TypeOK
<1>9. ASSUME NEW s \in Servers, TakeRequest(s)
      PROVE  TypeOK'
  <2>1. PICK m \in requests[s] : TakeRequest(s)!(m)
    BY <1>9 DEF TakeRequest
  <2>2. m \in Headers
    BY DEF TypeOK
  <2>3. m.sn \in Nat
    BY <2>2 DEF Headers
  <2>4. /\ InvalidRequest \in Headers
        /\ [guid |-> m.guid, sn |-> dds_sn_to_ros_sn(m.sn), call |-> m.call] \in Headers
    BY <2>2, <2>3, SequenceNumberIsNat DEF InvalidRequest, Headers
  <2>5. m # InvalidRequest => m.call \in Calls
    BY DEF Samples, RequestOK, Names
  <2>6. serving' \in [Servers -> SUBSET Headers]
    <3>1. \E x \in Headers : \/ serving' = [serving EXCEPT ![s] = @ \cup {x}]
                             \/ serving' = serving
      BY <2>1, <2>4
    <3> QED BY <3>1 DEF TypeOK
  <2>8. executions' \subseteq Servers \X Calls
    BY <2>1, <2>5 DEF TypeOK
  <2>7. requests' \in [Servers -> SUBSET Headers]
    BY <2>1 DEF TypeOK
  <2> QED BY <2>1, <2>6, <2>7, <2>8 DEF matchVars, sendVars, takeVars, TypeOK
<1>10. ASSUME NEW s \in Servers, SendResponse(s)
      PROVE  TypeOK'
  <2>1. PICK h \in serving[s] : SendResponse(s)!(h)
    BY <1>10 DEF SendResponse
  <2>2. h \in Headers
    BY DEF TypeOK
  <2>3. h.sn \in Nat
    BY <2>2 DEF Headers
  <2>4. [guid |-> h.guid, sn |-> ros_sn_to_dds_sn(h.sn), call |-> h.call, server |-> s]
          \in Responses
    BY <2>2, <2>3, SequenceNumberIsNat DEF Headers, Responses
  <2>5. responses' \in [Clients -> SUBSET Responses] /\ serving' \in [Servers -> SUBSET Headers]
    BY <2>1, <2>4 DEF TypeOK
  <2> QED BY <2>1, <2>5 DEF matchVars, sendVars, takeVars, TypeOK
<1>11. CASE WriterGoes \/ Lose
  <2>1. InvalidRequest \in Headers /\ \A s \in Servers : InvalidResponse(s) \in Responses
    BY DEF InvalidRequest, InvalidResponse, Headers, Responses
  <2> QED BY <1>11, <2>1 DEF WriterGoes, Lose, matchVars, sendVars, takeVars, TypeOK
<1> QED BY <1>1, <1>2, <1>3, <1>4, <1>5, <1>6, <1>7, <1>8, <1>9, <1>10, <1>11 DEF Next

-----------------------------------------------------------------------------
(* Numbers *)

\* The sends that are under way after a step were under way before, with the same
\* calls and numbers.
SameCalls ==
  \A p \in Clients \X Threads : sender'[p] # Idle =>
    /\ sender[p] # Idle /\ sender'[p].step # "idle"
    /\ sender'[p].call = sender[p].call /\ sender'[p].sn = sender[p].sn

\* Only one send moves, or ends.
LEMMA StepKeepsCalls ==
  ASSUME TypeOK, Numbering, NEW c \in Clients, NEW t \in Threads, sender[<<c, t>>] # Idle,
         NEW x \in {"write", "return"},
         \/ sender' = [sender EXCEPT ![<<c, t>>] = [sender[<<c, t>>] EXCEPT !.step = x]]
         \/ sender' = [sender EXCEPT ![<<c, t>>] = Idle]
  PROVE  SameCalls
<1> SUFFICES ASSUME NEW p \in Clients \X Threads, sender'[p] # Idle
             PROVE  /\ sender[p] # Idle /\ sender'[p].step # "idle"
                    /\ sender'[p].call = sender[p].call /\ sender'[p].sn = sender[p].sn
  BY DEF SameCalls
<1>1. CASE p # <<c, t>>
  <2>1. sender'[p] = sender[p]
    BY <1>1 DEF TypeOK
  <2> QED BY <2>1 DEF Numbering
<1>2. CASE p = <<c, t>>
  <2>1. sender'[p] = [sender[p] EXCEPT !.step = x] \/ sender'[p] = Idle
    BY <1>2 DEF TypeOK
  <2>2. sender[p] \in Sends
    BY DEF TypeOK
  <2> QED BY <1>2, <2>1, <2>2 DEF Sends
<1> QED BY <1>1, <1>2

LEMMA NumberingIsKept == ASSUME TypeOK, Numbering, [Next]_vars
  PROVE  Numbering'
<1> USE DEF Numbering
<1>1. CASE UNCHANGED sendVars
  BY <1>1 DEF sendVars
<1>2. ASSUME NEW c \in Clients, NEW t \in Threads, ReadNumber(c, t)
      PROVE  Numbering'
  <2> DEFINE k == <<c, made[c] + 1>>
  <2>1. k \in Calls
    BY <1>2, NextIsCall DEF ReadNumber
  <2>2. /\ made' = [made EXCEPT ![c] = @ + 1]
        /\ sender' = [sender EXCEPT ![<<c, t>>] =
                         [step |-> "store", call |-> k, sn |-> seqNo[c] + 1]]
        /\ number' = [number EXCEPT ![k] = seqNo[c] + 1]
        /\ seqNo' = seqNo /\ ids' = ids /\ made[c] < MaxCalls[c]
    BY <1>2 DEF ReadNumber
  <2>3. (\A d \in Clients : seqNo[d] <= made[d] /\ made[d] <= MaxCalls[d])'
    BY <2>2, BoundsAreNats DEF TypeOK
  <2>4. (\A j \in Calls : /\ j[2] > made[j[1]] => number[j] = 0 /\ ids[j] = 0
                          /\ number[j] <= made[j[1]])'
    <3> SUFFICES ASSUME NEW j \in Calls
                 PROVE  /\ j[2] > made'[j[1]] => number'[j] = 0 /\ ids'[j] = 0
                        /\ number'[j] <= made'[j[1]]
      OBVIOUS
    <3>1. /\ j[1] \in Clients /\ j[2] \in Nat
          /\ made[j[1]] \in Nat /\ made[c] \in Nat /\ seqNo[c] \in Nat
          /\ number[j] \in Nat /\ seqNo[c] <= made[c]
      BY CallIsPair DEF TypeOK
    <3>2. made'[j[1]] = IF j[1] = c THEN made[c] + 1 ELSE made[j[1]]
      BY <2>2, <3>1 DEF TypeOK
    <3>3. CASE j = k
      <4>1. number'[j] = seqNo[c] + 1 /\ j[1] = c /\ j[2] = made[c] + 1
        BY <2>2, <3>3 DEF TypeOK
      <4> QED BY <3>1, <3>2, <4>1
    <3>4. CASE j # k
      <4>1. number'[j] = number[j] /\ ids'[j] = ids[j]
        BY <2>2, <3>4 DEF TypeOK
      <4>2. /\ j[2] > made[j[1]] => number[j] = 0 /\ ids[j] = 0
            /\ number[j] <= made[j[1]]
        OBVIOUS
      <4>3. made[j[1]] <= made'[j[1]] /\ made'[j[1]] \in Nat
        BY <3>1, <3>2
      <4> QED BY <3>1, <4>1, <4>2, <4>3
    <3> QED BY <3>3, <3>4
  <2>5. ASSUME NEW p \in Clients \X Threads, sender'[p] # Idle
        PROVE  /\ sender'[p].step # "idle"
               /\ sender'[p].call \in Calls /\ ClientOf(sender'[p].call) = p[1]
               /\ sender'[p].call[2] <= made'[p[1]]
               /\ sender'[p].sn = number'[sender'[p].call] /\ sender'[p].sn > 0
    <3>1. CASE p = <<c, t>>
      BY <2>1, <2>2, <3>1 DEF TypeOK, ClientOf
    <3>2. CASE p # <<c, t>>
      <4>1. sender'[p] = sender[p] /\ sender[p] # Idle
        BY <2>2, <2>5, <3>2 DEF TypeOK
      <4>2. sender[p].call # k
        BY <4>1, CallIsPair DEF TypeOK, ClientOf
      <4> QED BY <2>2, <4>1, <4>2, CallIsPair DEF TypeOK
    <3> QED BY <3>1, <3>2
  <2> QED BY <2>3, <2>4, <2>5
<1>3. ASSUME NEW c \in Clients, NEW t \in Threads, StoreNumber(c, t)
      PROVE  Numbering'
  <2>1. sender[<<c, t>>] # Idle
    BY <1>3 DEF StoreNumber, Idle
  <2>2. sender[<<c, t>>].sn <= made[c]
    <3> DEFINE p == <<c, t>>
    <3>1. p \in Clients \X Threads /\ p[1] = c
      OBVIOUS
    <3> HIDE DEF p
    <3>2. sender[p].call \in Calls /\ sender[p].call[1] = c /\ sender[p].sn = number[sender[p].call]
      BY <2>1, <3>1 DEF ClientOf, p
    <3> QED BY <3>2 DEF p
  <2>3. /\ seqNo' = [seqNo EXCEPT ![c] = sender[<<c, t>>].sn]
        /\ made' = made /\ number' = number /\ ids' = ids
        /\ sender' = [sender EXCEPT ![<<c, t>>] = [sender[<<c, t>>] EXCEPT !.step = "write"]]
    BY <1>3 DEF StoreNumber
  <2>4. SameCalls
    BY <2>1, <2>3, StepKeepsCalls
  <2>5. \A d \in Clients : seqNo'[d] = IF d = c THEN sender[<<c, t>>].sn ELSE seqNo[d]
    BY <2>3 DEF TypeOK
  <2>6. (\A d \in Clients : seqNo[d] <= made[d] /\ made[d] <= MaxCalls[d])'
    BY <2>2, <2>3, <2>5
  <2> QED BY <2>3, <2>4, <2>6 DEF SameCalls
<1>4. ASSUME NEW c \in Clients, NEW t \in Threads, WriteRequest(c, t)
      PROVE  Numbering'
  <2>1. sender[<<c, t>>] # Idle
    BY <1>4 DEF WriteRequest, Idle
  <2>2. \/ sender' = [sender EXCEPT ![<<c, t>>] = [sender[<<c, t>>] EXCEPT !.step = "return"]]
        \/ sender' = [sender EXCEPT ![<<c, t>>] = Idle]
    BY <1>4 DEF WriteRequest
  <2>3. SameCalls
    BY <2>1, <2>2, StepKeepsCalls
  <2>4. seqNo' = seqNo /\ made' = made /\ number' = number /\ ids' = ids
    BY <1>4 DEF WriteRequest
  <2> QED BY <2>3, <2>4 DEF TypeOK, SameCalls
<1>5. ASSUME NEW c \in Clients, NEW t \in Threads, ReturnId(c, t)
      PROVE  Numbering'
  <2>1. sender[<<c, t>>] # Idle
    BY <1>5 DEF ReturnId, Idle
  <2>2. \A k \in Calls : k[2] > made[k[1]] => k # sender[<<c, t>>].call
    BY <2>1 DEF TypeOK, ClientOf
  <2>3. /\ seqNo' = seqNo /\ made' = made /\ number' = number
        /\ ids' = [ids EXCEPT ![sender[<<c, t>>].call] = seqNo[c]]
        /\ sender' = [sender EXCEPT ![<<c, t>>] = Idle]
    BY <1>5 DEF ReturnId
  <2>4. SameCalls
    BY <2>1, <2>3 DEF TypeOK, SameCalls
  <2> QED BY <2>2, <2>3, <2>4 DEF TypeOK, SameCalls
<1> QED BY <1>1, <1>2, <1>3, <1>4, <1>5, OthersDoNotSend DEF Send

-----------------------------------------------------------------------------
(* Samples *)

\* What a sample says stays true: numbers are not changed, requests not unsent.
LEMMA SamplesStayOK == ASSUME TypeOK, Numbering, [Next]_vars
  PROVE  /\ \A m : RequestOK(m) => RequestOK(m)'
         /\ \A s, h : HeaderOK(s, h) => HeaderOK(s, h)'
         /\ \A m : ResponseOK(m) => ResponseOK(m)'
         /\ \A a : AnswerOK(a) => AnswerOK(a)'
<1>1. \A k \in Calls : number[k] > 0 => number'[k] = number[k]
  BY NumberIsKept
<1>2. sent \subseteq sent' /\ executions \subseteq executions'
  <2>1. CASE UNCHANGED vars
    BY <2>1 DEF vars, sendVars
  <2>2. ASSUME NEW c \in Clients, NEW t \in Threads, Send(c, t)
        PROVE  sent \subseteq sent' /\ executions \subseteq executions'
    BY <2>2 DEF Send, ReadNumber, StoreNumber, WriteRequest, ReturnId, otherThanSend
  <2>3. ASSUME NEW s \in Servers, TakeRequest(s)
        PROVE  sent \subseteq sent' /\ executions \subseteq executions'
    BY <2>3 DEF TakeRequest, sendVars
  <2> QED BY <2>1, <2>2, <2>3 DEF Next, Send, MatchRequest, MatchResponse, ServerIsAvailable,
             BeginTake, TakeNext, SendResponse, WriterGoes, Lose, sendVars
<1>3. ASSUME NEW m, Names(m)
      PROVE  Names(m)' /\ number'[m.call] = number[m.call]
  BY <1>1, <1>3 DEF Names
<1>4. ASSUME NEW m, RequestOK(m)
      PROVE  RequestOK(m)'
  BY <1>2, <1>3, <1>4 DEF RequestOK
<1>5. ASSUME NEW s, NEW h, HeaderOK(s, h)
      PROVE  HeaderOK(s, h)'
  BY <1>2, <1>3, <1>5 DEF HeaderOK
<1>6. ASSUME NEW m, ResponseOK(m)
      PROVE  ResponseOK(m)'
  BY <1>2, <1>3, <1>6 DEF ResponseOK
<1>7. ASSUME NEW a, AnswerOK(a)
      PROVE  AnswerOK(a)'
  BY <1>1, <1>2, <1>7 DEF AnswerOK
<1> QED BY <1>4, <1>5, <1>6, <1>7

\* The number of a call is read back from the header that carries it.
LEMMA NumberSurvives == ASSUME TypeOK, Numbering, NEW k \in Calls
  PROVE  dds_sn_to_ros_sn(ros_sn_to_dds_sn(number[k])) = number[k]
<1>1. /\ k[1] \in Clients /\ number[k] \in Nat /\ made[k[1]] \in Nat
      /\ number[k] <= made[k[1]] /\ made[k[1]] <= MaxCalls[k[1]]
  BY CallIsPair DEF TypeOK, Numbering
<1>2. MaxCalls[k[1]] \in Nat /\ Half * Half \in Nat /\ MaxCalls[k[1]] < Half * Half
  BY <1>1, RpcAssumption
<1>3. number[k] < Half * Half
  <2> DEFINE b == Half * Half
  <2> HIDE DEF b
  <2> SUFFICES number[k] < b
    BY DEF b
  <2>1. b \in Nat /\ MaxCalls[k[1]] < b
    BY <1>2 DEF b
  <2> QED BY <1>1, <1>2, <2>1
<1> QED BY <1>1, <1>3, SequenceNumberSurvives

\* The samples after a step were there before it, or are as they should be.
RequestsFrom ==
  \A s \in Servers : \A m \in requests'[s] :
    m \in requests[s] \/ m = InvalidRequest \/ RequestOK(m)'
HeadersFrom ==
  \A s \in Servers : \A h \in serving'[s] :
    h \in serving[s] \/ h = InvalidRequest \/ HeaderOK(s, h)'
ResponsesFrom ==
  \A c \in Clients : \A m \in responses'[c] :
    m \in responses[c] \/ m.guid = NoGuid \/ ResponseOK(m)'
AnswersFrom == \A a \in answers' : a \in answers \/ AnswerOK(a)'

LEMMA SamplesAreKept == ASSUME TypeOK, Numbering, Samples, [Next]_vars
  PROVE  Samples'
<1>1. SUFFICES RequestsFrom /\ HeadersFrom /\ ResponsesFrom /\ AnswersFrom
  BY SamplesStayOK DEF Samples, RequestsFrom, HeadersFrom, ResponsesFrom, AnswersFrom
<1> USE DEF RequestsFrom, HeadersFrom, ResponsesFrom, AnswersFrom
<1>2. CASE UNCHANGED vars
  BY <1>2 DEF vars, takeVars
<1>3. ASSUME NEW c \in Clients, NEW t \in Threads, WriteRequest(c, t)
      PROVE  RequestsFrom
  <2> DEFINE p == <<c, t>>
  <2>0. PICK m : m = [guid |-> c, sn |-> ros_sn_to_dds_sn(sender[p].sn), call |-> sender[p].call]
    OBVIOUS
  <2>1. sender[p] # Idle /\ p \in Clients \X Threads /\ p[1] = c
    BY <1>3 DEF WriteRequest, Idle
  <2>2. /\ sender[p].call \in Calls /\ ClientOf(sender[p].call) = c
        /\ sender[p].sn = number[sender[p].call] /\ sender[p].sn > 0
    <3> HIDE DEF p
    <3> QED BY <2>1 DEF Numbering
  <2>3. \/ /\ requests' = [s \in Servers |-> IF s \in ReadersFor(c) THEN requests[s] \cup {m}
                                             ELSE requests[s]]
           /\ sent' = sent \cup {m.call} /\ number' = number
        \/ requests' = requests
    BY <1>3, <2>0 DEF WriteRequest, RequestHeader
  <2>4. CASE requests' = requests
    BY <2>4
  <2>5. CASE /\ requests' = [s \in Servers |-> IF s \in ReadersFor(c) THEN requests[s] \cup {m}
                                              ELSE requests[s]]
             /\ sent' = sent \cup {m.call} /\ number' = number
    <3>1. RequestOK(m)'
      BY <2>0, <2>2, <2>5 DEF RequestOK, Names
    <3> QED BY <2>5, <3>1
  <2> QED BY <2>3, <2>4, <2>5
<1>4. ASSUME NEW c \in Clients, NEW t \in Threads, Send(c, t)
      PROVE  RequestsFrom /\ HeadersFrom /\ ResponsesFrom /\ AnswersFrom
  <2>1. RequestsFrom
    BY <1>3, <1>4 DEF Send, ReadNumber, StoreNumber, ReturnId
  <2>2. serving' = serving /\ responses' = responses /\ answers' = answers
    BY <1>4 DEF Send, ReadNumber, StoreNumber, WriteRequest, ReturnId, otherThanSend, takeVars
  <2> QED BY <2>1, <2>2
<1>5. ASSUME NEW s \in Servers, TakeRequest(s)
      PROVE  RequestsFrom /\ HeadersFrom /\ ResponsesFrom /\ AnswersFrom
  <2>1. PICK m \in requests[s] : TakeRequest(s)!(m)
    BY <1>5 DEF TakeRequest
  <2> DEFINE h == [guid |-> m.guid, sn |-> dds_sn_to_ros_sn(m.sn), call |-> m.call]
  <2>2. RequestsFrom
    BY <2>1 DEF TypeOK
  <2>3. HeadersFrom
    <3>1. \/ m # InvalidRequest /\ serving' = [serving EXCEPT ![s] = @ \cup {h}]
             /\ executions' = executions \cup {<<s, m.call>>}
          \/ serving' = [serving EXCEPT ![s] = @ \cup {InvalidRequest}]
          \/ serving' = serving
      BY <2>1
    <3>2. CASE /\ m # InvalidRequest /\ serving' = [serving EXCEPT ![s] = @ \cup {h}]
               /\ executions' = executions \cup {<<s, m.call>>}
      <4>1. RequestOK(m)
        BY <3>2 DEF Samples
      <4>2. h.sn = number[m.call]
        BY <4>1, NumberSurvives DEF RequestOK, Names
      <4>3. HeaderOK(s, h)'
        BY <2>1, <3>2, <4>1, <4>2 DEF RequestOK, HeaderOK, Names, sendVars
      <4> HIDE DEF h
      <4> QED BY <3>2, <4>3 DEF TypeOK
    <3>3. CASE serving' = [serving EXCEPT ![s] = @ \cup {InvalidRequest}]
      BY <3>3 DEF TypeOK
    <3> QED BY <3>1, <3>2, <3>3
  <2> QED BY <2>1, <2>2, <2>3 DEF takeVars
<1>6. ASSUME NEW s \in Servers, SendResponse(s)
      PROVE  RequestsFrom /\ HeadersFrom /\ ResponsesFrom /\ AnswersFrom
  <2>1. PICK h \in serving[s] : SendResponse(s)!(h)
    BY <1>6 DEF SendResponse
  <2> DEFINE m == [guid |-> h.guid, sn |-> ros_sn_to_dds_sn(h.sn), call |-> h.call,
                   server |-> s]
  <2>2. HeadersFrom
    BY <2>1 DEF TypeOK
  <2>3. m.guid = NoGuid \/ ResponseOK(m)'
    <3>1. CASE h = InvalidRequest
      BY <3>1 DEF InvalidRequest
    <3>2. CASE h # InvalidRequest
      <4>1. HeaderOK(s, h)
        BY <3>2 DEF Samples
      <4> QED BY <2>1, <4>1 DEF HeaderOK, ResponseOK, Names, sendVars
    <3> QED BY <3>1, <3>2
  <2>4. ResponsesFrom
    <3>1. \/ responses' = [c \in Clients |-> IF <<c, s>> \in rspMatched THEN responses[c] \cup {m}
                                             ELSE responses[c]]
          \/ responses' = responses
      BY <2>1
    <3> HIDE DEF m
    <3> QED BY <2>3, <3>1
  <2> QED BY <2>1, <2>2, <2>4 DEF takeVars
<1>7. ASSUME NEW c \in Clients, TakeNext(c)
      PROVE  RequestsFrom /\ HeadersFrom /\ ResponsesFrom /\ AnswersFrom
  <2>1. ResponsesFrom
    BY <1>7 DEF TakeNext, TypeOK
  <2>2. ASSUME NEW m \in responses[c], IsOwn(c, m),
               answers' = answers \cup {[client |-> c, id |-> dds_sn_to_ros_sn(m.sn),
                                         call |-> m.call, server |-> m.server]}
        PROVE  AnswersFrom
    <3> DEFINE a == [client |-> c, id |-> dds_sn_to_ros_sn(m.sn), call |-> m.call,
                     server |-> m.server]
    <3>1. ResponseOK(m) /\ m.guid = c
      BY <2>2, NoGuidAssumption DEF IsOwn, Samples
    <3>2. a.id = number[m.call]
      BY <3>1, NumberSurvives DEF ResponseOK, Names
    <3>3. number' = number /\ executions' = executions
      BY <1>7 DEF TakeNext, sendVars
    <3>4. AnswerOK(a)'
      BY <3>1, <3>2, <3>3 DEF ResponseOK, AnswerOK, Names
    <3> HIDE DEF a
    <3> QED BY <2>2, <3>4 DEF a
  <2>3. AnswersFrom
    BY <1>7, <2>2 DEF TakeNext
  <2> QED BY <1>7, <2>1, <2>3 DEF TakeNext
<1>8. CASE WriterGoes \/ Lose
  <2>1. \A s \in Servers : InvalidResponse(s).guid = NoGuid
    BY DEF InvalidResponse
  <2>2. RequestsFrom
    BY <1>8 DEF WriterGoes, Lose, TypeOK
  <2>3. ResponsesFrom
    BY <1>8, <2>1 DEF WriterGoes, Lose, TypeOK
  <2> QED BY <1>8, <2>2, <2>3 DEF WriterGoes, Lose, takeVars
<1> QED BY <1>2, <1>4, <1>5, <1>6, <1>7, <1>8
        DEF Next, Send, MatchRequest, MatchResponse, ServerIsAvailable, BeginTake, takeVars

-----------------------------------------------------------------------------
(* The order of the numbers *)

Ordered(c) == OneSender(c) /\ SenderIsLast(c) /\ CounterIsLast(c) /\ NumbersAreCalls(c)

\* A step of one client leaves those of another as they are.
LEMMA OthersStayOrdered ==
  ASSUME NEW d \in Clients, Ordered(d),
         seqNo'[d] = seqNo[d], made'[d] = made[d],
         \A u \in Threads : sender'[<<d, u>>] = sender[<<d, u>>],
         \A k \in Calls : ClientOf(k) = d => number'[k] = number[k] /\ ids'[k] = ids[k]
  PROVE  Ordered(d)'
<1>1. OneSender(d)' /\ SenderIsLast(d)' /\ CounterIsLast(d)'
  BY DEF Ordered, OneSender, SenderIsLast, CounterIsLast
<1>2. NumbersAreCalls(d)'
  BY DEF Ordered, NumbersAreCalls
<1> QED BY <1>1, <1>2 DEF Ordered

LEMMA OrderingIsKept == ASSUME TypeOK, Numbering, Ordering, [Next]_vars
  PROVE  Ordering'
<1>1. SUFFICES ASSUME NEW d \in Clients, d \notin overlapped'
               PROVE  Ordered(d)'
  BY DEF Ordering, Ordered
<1>2. CASE UNCHANGED sendVars
  <2>1. Ordered(d)
    BY <1>1, <1>2 DEF sendVars, Ordering, Ordered
  <2> QED BY <1>2, <2>1, OthersStayOrdered DEF sendVars
<1>3. ASSUME NEW c \in Clients, NEW t \in Threads, Send(c, t)
      PROVE  Ordered(d)'
  <2>1. d \notin overlapped
    BY <1>1, <1>3 DEF Send, ReadNumber, StoreNumber, WriteRequest, ReturnId
  <2>2. Ordered(d)
    BY <2>1 DEF Ordering, Ordered
  <2>3. CASE ReadNumber(c, t)
    <3> DEFINE k == <<c, made[c] + 1>>
    <3>1. k \in Calls /\ made[c] \in Nat
      BY <2>3, NextIsCall DEF ReadNumber, TypeOK
    <3>2. /\ made' = [made EXCEPT ![c] = @ + 1]
          /\ sender' = [sender EXCEPT ![<<c, t>>] =
                           [step |-> "store", call |-> k, sn |-> seqNo[c] + 1]]
          /\ number' = [number EXCEPT ![k] = seqNo[c] + 1]
          /\ seqNo' = seqNo /\ ids' = ids
      BY <2>3 DEF ReadNumber
    <3>3. CASE d # c
      BY <2>2, <3>2, <3>3, OthersStayOrdered DEF TypeOK, ClientOf
    <3>4. CASE d = c
      <4>1. \A u \in Threads : sender[<<c, u>>] = Idle
        BY <1>1, <2>3, <3>4 DEF ReadNumber
      <4>2. seqNo[c] = made[c]
        BY <2>2, <3>4, <4>1 DEF Ordered, CounterIsLast
      <4>3. /\ seqNo'[c] = made[c] /\ made'[c] = made[c] + 1
            /\ \A u \in Threads :
                 sender'[<<c, u>>] =
                   IF u = t THEN [step |-> "store", call |-> k, sn |-> made[c] + 1] ELSE Idle
        BY <3>2, <4>1, <4>2 DEF TypeOK
      <4>6. /\ sender'[<<c, t>>].step = "store" /\ sender'[<<c, t>>].call = <<c, made'[c]>>
            /\ sender'[<<c, t>>].sn = made'[c] /\ seqNo'[c] = made'[c] - 1
            /\ \A u \in Threads : u # t => sender'[<<c, u>>] = Idle
            /\ sender'[<<c, t>>] # Idle
        BY <3>1, <4>3 DEF Idle
      <4>4. OneSender(c)' /\ SenderIsLast(c)' /\ CounterIsLast(c)'
        BY <4>6 DEF OneSender, SenderIsLast, CounterIsLast
      <4>5. NumbersAreCalls(c)'
        <5> SUFFICES ASSUME NEW j \in Calls, ClientOf(j) = c, j[2] <= made'[c]
                     PROVE  number'[j] = j[2] /\ ids'[j] \in {0, j[2]}
          BY DEF NumbersAreCalls
        <5>1. j = <<c, j[2]>> /\ j[2] \in Nat
          BY CallIsPair DEF ClientOf
        <5>2. CASE j[2] = made[c] + 1
          BY <3>1, <3>2, <4>2, <5>1, <5>2 DEF TypeOK, Numbering
        <5>3. CASE j[2] <= made[c]
          <6>1. number'[j] = number[j] /\ ids'[j] = ids[j]
            BY <3>1, <3>2, <5>1, <5>3 DEF TypeOK
          <6> QED BY <2>2, <3>4, <5>3, <6>1 DEF Ordered, NumbersAreCalls
        <5> QED BY <3>1, <4>3, <5>1, <5>2, <5>3
      <4> QED BY <3>4, <4>4, <4>5 DEF Ordered
    <3> QED BY <3>3, <3>4
  <2>4. CASE StoreNumber(c, t)
    <3>0. /\ sender' = [sender EXCEPT ![<<c, t>>] = [sender[<<c, t>>] EXCEPT !.step = "write"]]
          /\ sender[<<c, t>>].step = "store"
      BY <2>4 DEF StoreNumber
    <3>1. /\ seqNo' = [seqNo EXCEPT ![c] = sender[<<c, t>>].sn]
          /\ sender' = [sender EXCEPT ![<<c, t>>] = [sender[<<c, t>>] EXCEPT !.step = "write"]]
          /\ made' = made /\ number' = number /\ ids' = ids
          /\ sender[<<c, t>>] # Idle /\ sender[<<c, t>>] \in Sends
      <4>1. seqNo' = [seqNo EXCEPT ![c] = sender[<<c, t>>].sn]
        BY <2>4 DEF StoreNumber
      <4>2. made' = made /\ number' = number /\ ids' = ids
        BY <2>4 DEF StoreNumber
      <4>3. sender[<<c, t>>] # Idle
        BY <3>0 DEF Idle
      <4> QED BY <3>0, <4>1, <4>2, <4>3, SendSteps
    <3>2. CASE d # c
      BY <2>2, <3>1, <3>2, OthersStayOrdered DEF TypeOK
    <3>3. CASE d = c
      <4>1. /\ sender[<<c, t>>].call = <<c, made[c]>> /\ sender[<<c, t>>].sn = made[c]
            /\ \A u \in Threads : u # t => sender[<<c, u>>] = Idle
        BY <2>2, <3>1, <3>3 DEF Ordered, OneSender, SenderIsLast
      <4>2. /\ seqNo'[c] = made[c] /\ made'[c] = made[c]
            /\ \A u \in Threads :
                 sender'[<<c, u>>] =
                   IF u = t THEN [sender[<<c, t>>] EXCEPT !.step = "write"] ELSE Idle
        BY <3>1, <4>1 DEF TypeOK
      <4>3. /\ sender'[<<c, t>>].step = "write" /\ sender'[<<c, t>>].call = <<c, made[c]>>
            /\ sender'[<<c, t>>].sn = made[c]
        BY <3>1, <4>1, <4>2 DEF Sends
      <4>4. OneSender(c)' /\ SenderIsLast(c)' /\ CounterIsLast(c)'
        BY <4>2, <4>3 DEF OneSender, SenderIsLast, CounterIsLast, Idle
      <4>5. NumbersAreCalls(c)'
        BY <2>2, <3>1, <3>3 DEF Ordered, NumbersAreCalls
      <4> QED BY <3>3, <4>4, <4>5 DEF Ordered
    <3> QED BY <3>2, <3>3
  <2>5. CASE WriteRequest(c, t)
    <3>1. /\ \/ sender' = [sender EXCEPT ![<<c, t>>] = [sender[<<c, t>>] EXCEPT !.step = "return"]]
             \/ sender' = [sender EXCEPT ![<<c, t>>] = Idle]
          /\ seqNo' = seqNo /\ made' = made /\ number' = number /\ ids' = ids
          /\ sender[<<c, t>>] # Idle /\ sender[<<c, t>>] \in Sends
          /\ sender[<<c, t>>].step = "write"
      <4>1. \/ sender' = [sender EXCEPT ![<<c, t>>] =
                             [sender[<<c, t>>] EXCEPT !.step = "return"]]
            \/ sender' = [sender EXCEPT ![<<c, t>>] = Idle]
        BY <2>5 DEF WriteRequest
      <4>2. seqNo' = seqNo /\ made' = made /\ number' = number /\ ids' = ids
        BY <2>5 DEF WriteRequest
      <4>3. sender[<<c, t>>].step = "write"
        BY <2>5 DEF WriteRequest
      <4>4. sender[<<c, t>>] # Idle
        BY <4>3 DEF Idle
      <4> QED BY <4>1, <4>2, <4>3, <4>4, SendSteps
    <3>2. CASE d # c
      BY <2>2, <3>1, <3>2, OthersStayOrdered DEF TypeOK
    <3>3. CASE d = c
      <4>1. /\ sender[<<c, t>>].call = <<c, made[c]>> /\ sender[<<c, t>>].sn = made[c]
            /\ \A u \in Threads : u # t => sender[<<c, u>>] = Idle
            /\ seqNo[c] = made[c]
        BY <2>2, <3>1, <3>3 DEF Ordered, OneSender, SenderIsLast
      <4>2. /\ \A u \in Threads : u # t => sender'[<<c, u>>] = Idle
            /\ sender'[<<c, t>>] \in {Idle, [sender[<<c, t>>] EXCEPT !.step = "return"]}
        BY <3>1, <4>1 DEF TypeOK
      <4>3. sender'[<<c, t>>] # Idle =>
              /\ sender'[<<c, t>>].step = "return" /\ sender'[<<c, t>>].call = <<c, made[c]>>
              /\ sender'[<<c, t>>].sn = made[c]
        BY <3>1, <4>1, <4>2 DEF Sends
      <4>4. OneSender(c)' /\ SenderIsLast(c)' /\ CounterIsLast(c)'
        BY <3>1, <4>1, <4>2, <4>3 DEF OneSender, SenderIsLast, CounterIsLast
      <4>5. NumbersAreCalls(c)'
        BY <2>2, <3>1, <3>3 DEF Ordered, NumbersAreCalls
      <4> QED BY <3>3, <4>4, <4>5 DEF Ordered
    <3> QED BY <3>2, <3>3
  <2>6. CASE ReturnId(c, t)
    <3> DEFINE k == sender[<<c, t>>].call
    <3>1. /\ sender' = [sender EXCEPT ![<<c, t>>] = Idle] /\ ids' = [ids EXCEPT ![k] = seqNo[c]]
          /\ seqNo' = seqNo /\ made' = made /\ number' = number
          /\ sender[<<c, t>>] # Idle /\ sender[<<c, t>>].step = "return"
      BY <2>6 DEF ReturnId, Idle
    <3>2. k \in Calls /\ ClientOf(k) = c
      <4> DEFINE p == <<c, t>>
      <4>1. p \in Clients \X Threads /\ p[1] = c /\ sender[p] # Idle
        BY <3>1
      <4> HIDE DEF p
      <4>2. sender[p].call \in Calls /\ ClientOf(sender[p].call) = c
        BY <4>1 DEF Numbering
      <4> QED BY <4>2 DEF p
    <3>3. CASE d # c
      BY <2>2, <3>1, <3>2, <3>3, OthersStayOrdered DEF TypeOK
    <3>4. CASE d = c
      <4>1. /\ k = <<c, made[c]>> /\ seqNo[c] = made[c]
            /\ \A u \in Threads : u # t => sender[<<c, u>>] = Idle
        BY <2>2, <3>1, <3>4 DEF Ordered, OneSender, SenderIsLast
      <4>2. \A u \in Threads : sender'[<<c, u>>] = Idle
        BY <3>1, <4>1 DEF TypeOK
      <4>3. OneSender(c)' /\ SenderIsLast(c)' /\ CounterIsLast(c)'
        BY <3>1, <4>1, <4>2 DEF OneSender, SenderIsLast, CounterIsLast
      <4>4. \A j \in Calls : ids'[j] = IF j = k THEN k[2] ELSE ids[j]
        BY <3>1, <4>1 DEF TypeOK
      <4>5. NumbersAreCalls(c)'
        BY <2>2, <3>1, <3>4, <4>4 DEF Ordered, NumbersAreCalls
      <4> QED BY <3>4, <4>3, <4>5 DEF Ordered
    <3> QED BY <3>3, <3>4
  <2> QED BY <1>3, <2>3, <2>4, <2>5, <2>6 DEF Send
<1> QED BY <1>2, <1>3, OthersDoNotSend

-----------------------------------------------------------------------------
LEMMA RpcInvariant == Spec => []RpcInv
<1>1. Init => RpcInv
  BY InitIsOK
<1>2. RpcInv /\ [Next]_vars => RpcInv'
  BY TypeIsKept, NumberingIsKept, SamplesAreKept, OrderingIsKept DEF RpcInv
<1> QED BY <1>1, <1>2, PTL DEF Spec

\* Every variable of the services and clients keeps its type; a header without data
\* is the only one that names no client.
THEOREM TypeCorrect == Spec => []TypeOK
<1>1. RpcInv => TypeOK
  BY DEF RpcInv
<1> QED BY <1>1, RpcInvariant, PTL

-----------------------------------------------------------------------------
(* What the application relies on *)

\* A call that was given a number was made; without overlap the number is its own.
LEMMA NumberOfCall ==
  ASSUME RpcInv, NEW k \in Calls, ClientOf(k) \notin overlapped
  PROVE  /\ number[k] > 0 => number[k] = k[2]
         /\ ids[k] # 0 => ids[k] = k[2]
<1>1. k[1] \in Clients /\ k[2] \in Nat /\ made[k[1]] \in Nat
  BY CallIsPair DEF RpcInv, TypeOK
<1>2. k[2] > made[k[1]] => number[k] = 0 /\ ids[k] = 0
  BY DEF RpcInv, Numbering
<1>3. k[2] <= made[k[1]] => number[k] = k[2] /\ ids[k] \in {0, k[2]}
  BY <1>1 DEF RpcInv, Ordering, NumbersAreCalls, ClientOf
<1> QED BY <1>1, <1>2, <1>3

LEMMA CallsDiffer ==
  ASSUME NEW j \in Calls, NEW k \in Calls, ClientOf(j) = ClientOf(k), j[2] = k[2]
  PROVE  j = k
  BY CallIsPair DEF ClientOf

\* The id of an answer, which the client compares with those rmw_send_request gave
\* it, is that of the call the answer belongs to and of no other call of the client,
\* however many clients and servers share the two topics and whatever is lost.
THEOREM AnswersFit == Spec => []AnswersFitCalls
<1>1. ASSUME RpcInv
      PROVE  AnswersFitCalls
  <2> SUFFICES ASSUME NEW a \in answers, a.client \notin overlapped
               PROVE  /\ ClientOf(a.call) = a.client
                      /\ \A k \in Calls : ClientOf(k) = a.client /\ ids[k] # 0 =>
                           (ids[k] = a.id <=> k = a.call)
    BY DEF AnswersFitCalls
  <2>1. /\ a.call \in Calls /\ ClientOf(a.call) = a.client
        /\ number[a.call] > 0 /\ a.id = number[a.call]
    BY <1>1 DEF RpcInv, Samples, AnswerOK
  <2>2. a.id = a.call[2]
    BY <1>1, <2>1, NumberOfCall
  <2>3. ASSUME NEW k \in Calls, ClientOf(k) = a.client, ids[k] # 0
        PROVE  ids[k] = a.id <=> k = a.call
    <3>1. ids[k] = k[2]
      BY <1>1, <2>3, NumberOfCall
    <3> QED BY <2>1, <2>2, <2>3, <3>1, CallsDiffer
  <2> QED BY <2>1, <2>3
<1> QED BY <1>1, RpcInvariant, PTL

-----------------------------------------------------------------------------
(* The abstract service *)

OneAtATime == overlapped = {}

\* Without overlap the answers name the calls they belong to.
AnswersNamed == AnsweredCalls = {<<a.server, a.call>> : a \in answers}

LEMMA AnswersNameCalls == RpcInv /\ OneAtATime => AnswersNamed
<1> SUFFICES ASSUME RpcInv, OneAtATime
             PROVE  AnsweredCalls = {<<a.server, a.call>> : a \in answers}
  BY DEF AnswersNamed
<1>1. ASSUME NEW a \in answers
      PROVE  /\ a.server \in Servers /\ a.call \in Calls /\ a.client = ClientOf(a.call)
             /\ a.id = number[a.call] /\ a.id = a.call[2] /\ a.id > 0
  <2>1. a \in Answers /\ AnswerOK(a)
    BY DEF RpcInv, TypeOK, Samples
  <2> QED BY <2>1, NumberOfCall DEF Answers, AnswerOK, OneAtATime
<1>2. ASSUME NEW a \in answers
      PROVE  <<a.server, a.call>> \in AnsweredCalls
  BY <1>1 DEF AnsweredCalls
<1>3. ASSUME NEW x \in AnsweredCalls
      PROVE  x \in {<<a.server, a.call>> : a \in answers}
  <2>1. PICK a \in answers : /\ a.server = x[1] /\ a.client = ClientOf(x[2])
                             /\ number[x[2]] = a.id
    BY DEF AnsweredCalls
  <2>2. x \in Servers \X Calls
    BY DEF AnsweredCalls
  <2>3. number[x[2]] = x[2][2]
    BY <1>1, <2>1, <2>2, NumberOfCall DEF OneAtATime
  <2>4. x[2] = a.call
    BY <1>1, <2>1, <2>2, <2>3, CallsDiffer
  <2> QED BY <2>1, <2>2, <2>4
<1> QED BY <1>2, <1>3

LEMMA OneThreadNeverOverlaps ==
  ASSUME \A t, u \in Threads : t = u
  PROVE  Spec => []OneAtATime
<1>1. Init => OneAtATime
  BY DEF Init, OneAtATime
<1>2. ASSUME OneAtATime, [Next]_vars
      PROVE  OneAtATime'
  <2>1. CASE UNCHANGED sendVars
    BY <1>2, <2>1 DEF sendVars, OneAtATime
  <2>2. ASSUME NEW c \in Clients, NEW t \in Threads, Send(c, t)
        PROVE  OneAtATime'
    BY <1>2, <2>2 DEF Send, ReadNumber, StoreNumber, WriteRequest, ReturnId, OneAtATime
  <2> QED BY <1>2, <2>1, <2>2, OthersDoNotSend
<1> QED BY <1>1, <1>2, PTL DEF Spec

\* When one thread sends through each client, every step of the clients and servers
\* is a step of the abstract service or none: a request that is written is a call, a
\* take of it an execution, and only a response of that execution answers it.
THEOREM ServiceImplementsRpc ==
  ASSUME \A t, u \in Threads : t = u
  PROVE  Spec => ImplementsRpc
<1>1. Init => Abstract!RpcInit
  BY DEF Init, Abstract!RpcInit, AnsweredCalls
<1>2. ASSUME RpcInv, OneAtATime, RpcInv', OneAtATime', [Next]_vars,
             AnswersNamed, AnswersNamed'
      PROVE  [Abstract!RpcNext]_Abstract!rpcVars
  <2>1. answers' = answers => AnsweredCalls' = AnsweredCalls
    BY <1>2 DEF AnswersNamed
  <2>2. CASE UNCHANGED vars
    BY <2>1, <2>2 DEF vars, sendVars, takeVars, Abstract!rpcVars
  <2>3. ASSUME NEW c \in Clients, NEW t \in Threads, Send(c, t)
        PROVE  [Abstract!RpcNext]_Abstract!rpcVars
    <3>1. AnsweredCalls' = AnsweredCalls /\ executions' = executions
      BY <2>1, <2>3 DEF Send, ReadNumber, StoreNumber, WriteRequest, ReturnId, otherThanSend,
                        takeVars
    <3>2. sent' = sent \/ \E k \in Calls : k \notin sent /\ sent' = sent \cup {k}
      <4>1. CASE WriteRequest(c, t)
        <5>1. sent' = sent \/ sent' = sent \cup {sender[<<c, t>>].call}
          BY <4>1 DEF WriteRequest
        <5>2. sender[<<c, t>>].call \in Calls
          BY <1>2, <4>1 DEF WriteRequest, RpcInv, Numbering, Idle
        <5> QED BY <5>1, <5>2
      <4> QED BY <2>3, <4>1 DEF Send, ReadNumber, StoreNumber, ReturnId
    <3> QED BY <3>1, <3>2 DEF Abstract!RpcNext, Abstract!Call, Abstract!rpcVars
  <2>4. ASSUME NEW s \in Servers, TakeRequest(s)
        PROVE  [Abstract!RpcNext]_Abstract!rpcVars
    <3>1. AnsweredCalls' = AnsweredCalls /\ sent' = sent
      BY <2>1, <2>4 DEF TakeRequest, takeVars, sendVars
    <3>2. \/ executions' = executions
          \/ \E k \in sent : /\ <<s, k>> \notin executions
                            /\ executions' = executions \cup {<<s, k>>}
      BY <1>2, <2>4 DEF TakeRequest, RpcInv, Samples, RequestOK
    <3>3. sent \subseteq Calls
      BY <1>2 DEF RpcInv, TypeOK
    <3> QED BY <3>1, <3>2, <3>3 DEF Abstract!RpcNext, Abstract!Execute, Abstract!rpcVars
  <2>5. ASSUME NEW c \in Clients, TakeNext(c)
        PROVE  [Abstract!RpcNext]_Abstract!rpcVars
    <3>1. sent' = sent /\ executions' = executions
      BY <2>5 DEF TakeNext, sendVars
    <3>2. answers' = answers \/ \E a \in answers' : answers' = answers \cup {a}
      BY <2>5 DEF TakeNext
    <3>3. ASSUME NEW a \in answers', answers' = answers \cup {a}
          PROVE  [Abstract!RpcNext]_Abstract!rpcVars
      <4>1. <<a.server, a.call>> \in executions'
        BY <1>2, <3>3 DEF RpcInv, Samples, AnswerOK
      <4>2. a.server \in Servers /\ a.call \in Calls
        BY <1>2, <3>3 DEF RpcInv, TypeOK, Answers
      <4>3. AnsweredCalls' = AnsweredCalls \cup {<<a.server, a.call>>}
        BY <1>2, <3>3 DEF AnswersNamed
      <4> QED BY <3>1, <4>1, <4>2, <4>3
              DEF Abstract!RpcNext, Abstract!Answer, Abstract!rpcVars
    <3>4. CASE answers' = answers
      BY <2>1, <3>1, <3>4 DEF Abstract!rpcVars
    <3> QED BY <3>2, <3>3, <3>4
  <2>6. CASE UNCHANGED <<sendVars, executions, answers>>
    BY <2>1, <2>6 DEF sendVars, Abstract!rpcVars
  <2> QED BY <1>2, <2>2, <2>3, <2>4, <2>5, <2>6
          DEF Next, Send, MatchRequest, MatchResponse, ServerIsAvailable, BeginTake,
              SendResponse, WriterGoes, Lose, takeVars
<1>3. Spec => []OneAtATime
  BY OneThreadNeverOverlaps
<1>4. RpcInv /\ OneAtATime => AnswersNamed
  BY AnswersNameCalls
<1> QED BY <1>1, <1>2, <1>3, <1>4, RpcInvariant, PTL
        DEF Spec, ImplementsRpc, Abstract!RpcSpec

-----------------------------------------------------------------------------
(* Nothing happens twice.  With the invariant above a sample determines the  *)
(* call it belongs to; what is missing for a take that ends empty is that no *)
(* call has two samples: each is written, executed, responded to and         *)
(* answered at most once.                                                    *)

\* A call is written at most once: its request waits for one thread only.
WrittenOnce ==
  /\ \A p, q \in Clients \X Threads :
       sender[p] # Idle /\ sender[q] # Idle /\ sender[p].call = sender[q].call => p = q
  /\ \A p \in Clients \X Threads :
       sender[p].step \in {"store", "write"} => sender[p].call \notin sent
  /\ \A k \in sent : k[2] <= made[k[1]]
\* A server takes it at most once.
ExecutedOnce ==
  /\ \A x \in executions : x[2] \in sent
  /\ \A s \in Servers : \A m \in requests[s] :
       m # InvalidRequest => <<s, m.call>> \notin executions
\* It answers it at most once, and no response to it is there before.
RespondedOnce ==
  \A s \in Servers : \A h \in serving[s] : h # InvalidRequest =>
    /\ \A c \in Clients : \A m \in responses[c] :
         m.guid # NoGuid => ~(m.server = s /\ m.call = h.call)
    /\ \A a \in answers : ~(a.server = s /\ a.call = h.call)
\* What a client was given is not in its reader any more.
AnsweredOnce ==
  \A c \in Clients : \A m \in responses[c] : m.guid # NoGuid =>
    \A a \in answers : ~(a.client = c /\ a.server = m.server /\ a.call = m.call)

OnceInv == WrittenOnce /\ ExecutedOnce /\ RespondedOnce /\ AnsweredOnce

LEMMA InitOnce == Init => OnceInv
  BY DEF Init, OnceInv, WrittenOnce, ExecutedOnce, RespondedOnce, AnsweredOnce, Idle

\* A step that only moves a send on, or ends it.
LEMMA SendMovesOn ==
  ASSUME TypeOK, Numbering, WrittenOnce, SameCalls, made' = made,
         \A p \in Clients \X Threads : sender'[p].step \in {"store", "write"} =>
           sender'[p].call \notin sent',
         \A k \in sent' : k \in sent \/ \E p \in Clients \X Threads :
                                          sender[p] # Idle /\ k = sender[p].call
  PROVE  WrittenOnce'
<1>1. \A p, q \in Clients \X Threads :
        sender'[p] # Idle /\ sender'[q] # Idle /\ sender'[p].call = sender'[q].call => p = q
  BY DEF WrittenOnce, SameCalls
<1>2. ASSUME NEW k \in sent' PROVE k[2] <= made'[k[1]]
  <2>1. CASE k \in sent BY <2>1 DEF WrittenOnce
  <2>2. CASE \E p \in Clients \X Threads : sender[p] # Idle /\ k = sender[p].call
    BY <2>2 DEF Numbering, ClientOf
  <2> QED BY <1>2, <2>1, <2>2
<1> QED BY <1>1, <1>2 DEF WrittenOnce

LEMMA WrittenOnceKept == ASSUME TypeOK, Numbering, WrittenOnce, [Next]_vars
  PROVE  WrittenOnce'
<1>1. CASE UNCHANGED sendVars
  BY <1>1 DEF sendVars, WrittenOnce
<1>2. ASSUME NEW c \in Clients, NEW t \in Threads, ReadNumber(c, t)
      PROVE  WrittenOnce'
  <2> DEFINE k == <<c, made[c] + 1>>
  <2>1. /\ made' = [made EXCEPT ![c] = @ + 1]
        /\ sender' = [sender EXCEPT ![<<c, t>>] =
                         [step |-> "store", call |-> k, sn |-> seqNo[c] + 1]]
        /\ sent' = sent /\ made[c] < MaxCalls[c]
    BY <1>2 DEF ReadNumber
  <2>2. \A j \in Calls : j[2] <= made[j[1]] => j # k /\ j[2] <= made'[j[1]]
    <3> SUFFICES ASSUME NEW j \in Calls, j[2] <= made[j[1]]
                 PROVE  j # k /\ j[2] <= made'[j[1]]
      OBVIOUS
    <3>1. j[1] \in Clients /\ j[2] \in Nat /\ made[j[1]] \in Nat /\ made[c] \in Nat
      BY CallIsPair DEF TypeOK
    <3>2. made'[j[1]] = IF j[1] = c THEN made[c] + 1 ELSE made[j[1]]
      BY <2>1, <3>1 DEF TypeOK
    <3> QED BY <3>1, <3>2
  <2>3. sent \subseteq Calls BY DEF TypeOK
  <2>4. \A j \in sent : j # k /\ j[2] <= made'[j[1]]
    BY <2>2, <2>3 DEF WrittenOnce
  <2>5. ASSUME NEW p \in Clients \X Threads, p # <<c, t>>
        PROVE  /\ sender'[p] = sender[p]
               /\ sender[p] # Idle => sender[p].call # k
    <3>1. sender'[p] = sender[p] BY <2>1, <2>5 DEF TypeOK
    <3>2. sender[p] # Idle => sender[p].call \in Calls
                              /\ sender[p].call[2] <= made[sender[p].call[1]]
      BY DEF Numbering, ClientOf
    <3> QED BY <2>2, <3>1, <3>2
  <2>6. sender'[<<c, t>>].call = k
    BY <2>1 DEF TypeOK
  <2>7. \A p, q \in Clients \X Threads :
          sender'[p] # Idle /\ sender'[q] # Idle /\ sender'[p].call = sender'[q].call => p = q
    <3> HIDE DEF k
    <3> SUFFICES ASSUME NEW p \in Clients \X Threads, NEW q \in Clients \X Threads,
                        sender'[p] # Idle, sender'[q] # Idle,
                        sender'[p].call = sender'[q].call, p # q
                 PROVE  FALSE
      OBVIOUS
    <3>1. CASE p = <<c, t>> BY <2>5, <2>6, <3>1
    <3>2. CASE q = <<c, t>> BY <2>5, <2>6, <3>2
    <3>3. CASE p # <<c, t>> /\ q # <<c, t>> BY <2>5, <3>3 DEF WrittenOnce
    <3> QED BY <3>1, <3>2, <3>3
  <2>8. ASSUME NEW p \in Clients \X Threads, sender'[p].step \in {"store", "write"}
        PROVE  sender'[p].call \notin sent'
    <3> HIDE DEF k
    <3>1. CASE p = <<c, t>> BY <2>1, <2>4, <2>6, <3>1
    <3>2. CASE p # <<c, t>> BY <2>1, <2>5, <2>8, <3>2 DEF WrittenOnce
    <3> QED BY <3>1, <3>2
  <2> QED BY <2>1, <2>4, <2>7, <2>8 DEF WrittenOnce
<1>3. ASSUME NEW c \in Clients, NEW t \in Threads, StoreNumber(c, t)
      PROVE  WrittenOnce'
  <2>1. /\ sender[<<c, t>>] # Idle /\ sender[<<c, t>>].step = "store"
        /\ made' = made /\ sent' = sent
        /\ sender' = [sender EXCEPT ![<<c, t>>] = [sender[<<c, t>>] EXCEPT !.step = "write"]]
    BY <1>3 DEF StoreNumber, Idle
  <2>2. SameCalls BY <2>1, StepKeepsCalls
  <2>3. ASSUME NEW p \in Clients \X Threads, sender'[p].step \in {"store", "write"}
        PROVE  sender'[p].call \notin sent'
    <3>1. sender'[p] # Idle BY <2>3 DEF Idle
    <3>2. sender'[p].call = sender[p].call BY <2>2, <3>1 DEF SameCalls
    <3>3. sender[p].step \in {"store", "write"}
      BY <2>1, <2>3 DEF TypeOK
    <3> QED BY <2>1, <3>2, <3>3 DEF WrittenOnce
  <2> QED BY <2>1, <2>2, <2>3, SendMovesOn
<1>4. ASSUME NEW c \in Clients, NEW t \in Threads, WriteRequest(c, t)
      PROVE  WrittenOnce'
  <2> DEFINE p0 == <<c, t>>
  <2>1. /\ sender[p0] # Idle /\ made' = made
        /\ \/ sender' = [sender EXCEPT ![p0] = [sender[p0] EXCEPT !.step = "return"]]
           \/ sender' = [sender EXCEPT ![p0] = Idle]
        /\ sent' \subseteq sent \cup {sender[p0].call}
        /\ p0 \in Clients \X Threads
    BY <1>4 DEF WriteRequest, Idle
  <2>2. SameCalls BY <2>1, StepKeepsCalls
  <2>3. sender'[p0].step \notin {"store", "write"}
    BY <2>1, SendSteps DEF TypeOK, Sends, Idle
  <2> HIDE DEF p0
  <2>4. ASSUME NEW p \in Clients \X Threads, sender'[p].step \in {"store", "write"}
        PROVE  sender'[p].call \notin sent'
    <3>1. p # p0 BY <2>3, <2>4
    <3>2. sender'[p] = sender[p] BY <2>1, <3>1 DEF TypeOK
    <3>3. sender[p] # Idle BY <2>4, <3>2 DEF Idle
    <3>4. sender[p].call # sender[p0].call
      BY <2>1, <3>1, <3>3 DEF WrittenOnce
    <3>5. sender[p].call \notin sent BY <2>4, <3>2 DEF WrittenOnce
    <3> QED BY <2>1, <3>2, <3>4, <3>5
  <2> QED BY <2>1, <2>2, <2>4, SendMovesOn
<1>5. ASSUME NEW c \in Clients, NEW t \in Threads, ReturnId(c, t)
      PROVE  WrittenOnce'
  <2>1. /\ sender[<<c, t>>] # Idle /\ made' = made /\ sent' = sent
        /\ sender' = [sender EXCEPT ![<<c, t>>] = Idle]
    BY <1>5 DEF ReturnId, Idle
  <2>2. SameCalls BY <2>1, StepKeepsCalls
  <2>3. ASSUME NEW p \in Clients \X Threads, sender'[p].step \in {"store", "write"}
        PROVE  sender'[p].call \notin sent'
    <3>1. sender'[p] # Idle BY <2>3 DEF Idle
    <3>2. sender'[p] = sender[p] BY <2>1, <3>1 DEF TypeOK
    <3> QED BY <2>1, <2>3, <3>2 DEF WrittenOnce
  <2> QED BY <2>1, <2>2, <2>3, SendMovesOn
<1> QED BY <1>1, <1>2, <1>3, <1>4, <1>5, OthersDoNotSend DEF Send

\* Who writes requests and executions.
LEMMA ExecutedOnceKept ==
  ASSUME TypeOK, Numbering, Samples, WrittenOnce, ExecutedOnce, [Next]_vars
  PROVE  ExecutedOnce'
<1> USE DEF ExecutedOnce
<1>0. ASSUME UNCHANGED <<requests, executions, sent>> PROVE ExecutedOnce'
  BY <1>0
<1>1. ASSUME NEW c \in Clients, NEW t \in Threads, WriteRequest(c, t)
      PROVE  ExecutedOnce'
  <2> DEFINE k == sender[<<c, t>>].call
             m == [guid |-> RequestHeader(<<c, t>>).guid, sn |-> RequestHeader(<<c, t>>).sn,
                   call |-> k]
  <2>1. /\ executions' = executions /\ sent \subseteq sent'
        /\ sender[<<c, t>>].step = "write"
        /\ \A s \in Servers : requests'[s] \subseteq requests[s] \cup {m}
    BY <1>1 DEF WriteRequest, otherThanSend
  <2>2. k \notin sent
    <3>1. <<c, t>> \in Clients \X Threads OBVIOUS
    <3> QED BY <2>1, <3>1 DEF WrittenOnce
  <2>3. \A s \in Servers : <<s, k>> \notin executions
    BY <2>2
  <2>4. m.call = k OBVIOUS
  <2> HIDE DEF k, m
  <2> QED BY <2>1, <2>3, <2>4
<1>2. ASSUME NEW c \in Clients, NEW t \in Threads, Send(c, t)
      PROVE  ExecutedOnce'
  BY <1>0, <1>1, <1>2 DEF Send, ReadNumber, StoreNumber, ReturnId, otherThanSend
<1>3. ASSUME NEW s \in Servers, TakeRequest(s)
      PROVE  ExecutedOnce'
  <2>1. PICK m \in requests[s] : TakeRequest(s)!(m)
    BY <1>3 DEF TakeRequest
  <2>2. /\ sent' = sent
        /\ requests'[s] = requests[s] \ {m}
        /\ \A r \in Servers : requests'[r] \subseteq requests[r]
        /\ \/ executions' = executions
           \/ m # InvalidRequest /\ executions' = executions \cup {<<s, m.call>>}
    BY <2>1 DEF sendVars, TypeOK
  <2>3. CASE executions' = executions BY <2>2, <2>3
  <2>4. CASE m # InvalidRequest /\ executions' = executions \cup {<<s, m.call>>}
    <3>1. RequestOK(m) BY <2>4 DEF Samples
    <3>2. \A x \in executions' : x[2] \in sent' BY <2>2, <2>4, <3>1 DEF RequestOK
    <3>3. ASSUME NEW r \in Servers, NEW n \in requests'[r], n # InvalidRequest
          PROVE  <<r, n.call>> \notin executions'
      <4>1. n \in requests[r] BY <2>2, <3>3
      <4>2. ASSUME r = s, n.call = m.call PROVE FALSE
        <5>1. RequestOK(n) BY <3>3, <4>1 DEF Samples
        <5>2. n.guid = m.guid /\ n.sn = m.sn
          BY <3>1, <4>2, <5>1 DEF RequestOK, Names
        <5>3. n \in Headers /\ m \in Headers BY <4>1 DEF TypeOK
        <5>4. n = m BY <4>2, <5>2, <5>3 DEF Headers
        <5> QED BY <2>2, <3>3, <4>2, <5>4
      <4> QED BY <2>4, <3>3, <4>1, <4>2
    <3> QED BY <3>2, <3>3
  <2> QED BY <2>2, <2>3, <2>4
<1>4. CASE WriterGoes \/ Lose
  <2>1. /\ executions' = executions /\ sent' = sent
        /\ \A s \in Servers : requests'[s] \subseteq requests[s] \cup {InvalidRequest}
    BY <1>4 DEF WriterGoes, Lose, sendVars, TypeOK
  <2> QED BY <2>1
<1>5. CASE UNCHANGED vars
  BY <1>0, <1>5 DEF vars, sendVars
<1> QED BY <1>0, <1>2, <1>3, <1>4, <1>5
        DEF Next, Send, MatchRequest, MatchResponse, ServerIsAvailable, BeginTake, TakeNext,
            SendResponse, sendVars

\* The response to a call, if its server has executed it, is a single one.
LEMMA SameResponse ==
  ASSUME TypeOK, NEW c \in Clients, NEW m \in responses[c], NEW n \in responses[c],
         ResponseOK(m), ResponseOK(n), m.server = n.server, m.call = n.call
  PROVE  m = n
<1>1. m \in Responses /\ n \in Responses BY DEF TypeOK
<1>2. m.guid = n.guid /\ m.sn = n.sn BY DEF ResponseOK, Names
<1> QED BY <1>1, <1>2 DEF Responses

\* A step that takes responses away, or adds some without data.
LEMMA ResponsesShrink ==
  ASSUME RespondedOnce, AnsweredOnce, UNCHANGED <<serving, answers>>,
         \A c \in Clients : \A m \in responses'[c] : m \in responses[c] \/ m.guid = NoGuid
  PROVE  RespondedOnce' /\ AnsweredOnce'
  BY DEF RespondedOnce, AnsweredOnce

LEMMA RespondedOnceKept ==
  ASSUME TypeOK, Numbering, Samples, ExecutedOnce, RespondedOnce, AnsweredOnce, [Next]_vars
  PROVE  RespondedOnce' /\ AnsweredOnce'
<1>0. ASSUME UNCHANGED <<serving, responses, answers>>
      PROVE  RespondedOnce' /\ AnsweredOnce'
  BY <1>0, ResponsesShrink
<1>1. ASSUME NEW s \in Servers, TakeRequest(s)
      PROVE  RespondedOnce' /\ AnsweredOnce'
  <2>1. PICK m \in requests[s] : TakeRequest(s)!(m)
    BY <1>1 DEF TakeRequest
  <2> DEFINE h == [guid |-> m.guid, sn |-> dds_sn_to_ros_sn(m.sn), call |-> m.call]
  <2>2. UNCHANGED <<responses, answers>> BY <2>1 DEF takeVars
  <2>3. AnsweredOnce' BY <2>2 DEF AnsweredOnce
  <2>4. \/ serving' = serving
        \/ serving' = [serving EXCEPT ![s] = @ \cup {InvalidRequest}]
        \/ m # InvalidRequest /\ serving' = [serving EXCEPT ![s] = @ \cup {h}]
    BY <2>1
  <2>5. CASE serving' = serving BY <1>0, <2>2, <2>5
  <2>6. CASE serving' = [serving EXCEPT ![s] = @ \cup {InvalidRequest}]
    BY <2>2, <2>3, <2>6 DEF RespondedOnce, TypeOK
  <2>7. CASE m # InvalidRequest /\ serving' = [serving EXCEPT ![s] = @ \cup {h}]
    <3>1. <<s, m.call>> \notin executions BY <2>7 DEF ExecutedOnce
    <3>2. \A c \in Clients : \A n \in responses[c] :
            n.guid # NoGuid => ~(n.server = s /\ n.call = m.call)
      BY <3>1 DEF Samples, ResponseOK
    <3>3. \A a \in answers : ~(a.server = s /\ a.call = m.call)
      BY <3>1 DEF Samples, AnswerOK
    <3>4. h.call = m.call OBVIOUS
    <3> HIDE DEF h
    <3>5. \A r \in Servers : \A g \in serving'[r] : g \in serving[r] \/ (r = s /\ g = h)
      BY <2>7 DEF TypeOK
    <3>6. RespondedOnce'
      BY <2>2, <3>2, <3>3, <3>4, <3>5 DEF RespondedOnce
    <3> QED BY <2>3, <3>6
  <2> QED BY <2>4, <2>5, <2>6, <2>7
<1>2. ASSUME NEW s \in Servers, SendResponse(s)
      PROVE  RespondedOnce' /\ AnsweredOnce'
  <2>1. PICK h \in serving[s] : SendResponse(s)!(h)
    BY <1>2 DEF SendResponse
  <2> DEFINE m == [guid |-> h.guid, sn |-> ros_sn_to_dds_sn(h.sn), call |-> h.call,
                   server |-> s]
  <2>2. /\ answers' = answers
        /\ serving'[s] = serving[s] \ {h}
        /\ \A r \in Servers : serving'[r] \subseteq serving[r]
    BY <2>1 DEF takeVars, TypeOK
  <2>3. \A c \in Clients : \A n \in responses'[c] : n \in responses[c] \/ n = m
    <3>1. \/ responses' = [c \in Clients |-> IF <<c, s>> \in rspMatched THEN responses[c] \cup {m}
                                             ELSE responses[c]]
          \/ responses' = responses
      BY <2>1
    <3> HIDE DEF m
    <3> QED BY <3>1
  <2>4. m.guid = h.guid /\ m.call = h.call /\ m.server = s OBVIOUS
  <2> HIDE DEF m
  <2>5. h = InvalidRequest => m.guid = NoGuid BY <2>4 DEF InvalidRequest
  <2>6. \A a \in answers : h # InvalidRequest => ~(a.server = s /\ a.call = h.call)
    BY DEF RespondedOnce
  <2>7. AnsweredOnce'
    BY <2>2, <2>3, <2>4, <2>5, <2>6 DEF AnsweredOnce
  <2>8. ASSUME NEW r \in Servers, NEW g \in serving'[r], g # InvalidRequest,
               NEW c \in Clients, NEW n \in responses'[c], n.guid # NoGuid,
               n.server = r, n.call = g.call
        PROVE  FALSE
    <3>1. g \in serving[r] BY <2>2, <2>8
    <3>2. n = m /\ r = s BY <2>3, <2>4, <2>8, <3>1 DEF RespondedOnce
    <3>3. HeaderOK(s, g) /\ HeaderOK(s, h)
      BY <2>5, <2>8, <3>1, <3>2 DEF Samples
    <3>4. g.guid = h.guid /\ g.sn = h.sn /\ g.call = h.call
      BY <2>4, <2>8, <3>2, <3>3 DEF HeaderOK, Names
    <3>5. g \in Headers /\ h \in Headers BY <3>1, <3>2 DEF TypeOK
    <3>6. g = h BY <3>4, <3>5 DEF Headers
    <3> QED BY <2>2, <2>8, <3>2, <3>6
  <2>9. RespondedOnce'
    BY <2>2, <2>8 DEF RespondedOnce
  <2> QED BY <2>7, <2>9
<1>3. ASSUME NEW c \in Clients, TakeNext(c)
      PROVE  RespondedOnce' /\ AnsweredOnce'
  <2>1. /\ serving' = serving
        /\ \A d \in Clients : responses'[d] \subseteq responses[d]
    BY <1>3 DEF TakeNext, TypeOK
  <2>2. CASE answers' = answers
    BY <2>1, <2>2, ResponsesShrink
  <2>3. ASSUME NEW m \in responses[c], IsOwn(c, m),
               responses' = [responses EXCEPT ![c] = @ \ {m}],
               answers' = answers \cup {[client |-> c, id |-> dds_sn_to_ros_sn(m.sn),
                                         call |-> m.call, server |-> m.server]}
        PROVE  RespondedOnce' /\ AnsweredOnce'
    <3> DEFINE a == [client |-> c, id |-> dds_sn_to_ros_sn(m.sn), call |-> m.call,
                     server |-> m.server]
    <3>1. a.client = c /\ a.call = m.call /\ a.server = m.server OBVIOUS
    <3>2. answers' = answers \cup {a} BY <2>3
    <3> HIDE DEF a
    <3>3. m.guid # NoGuid BY <2>3, NoGuidAssumption DEF IsOwn
    <3>4. RespondedOnce'
      BY <2>1, <3>1, <3>2, <3>3 DEF RespondedOnce
    <3>5. ASSUME NEW d \in Clients, NEW n \in responses'[d], n.guid # NoGuid,
                 a.client = d, a.server = n.server, a.call = n.call
          PROVE  FALSE
      <4>1. d = c /\ n \in responses[c] /\ n # m
        BY <2>3, <3>1, <3>5 DEF TypeOK
      <4>2. ResponseOK(m) /\ ResponseOK(n)
        BY <3>3, <3>5, <4>1 DEF Samples
      <4> QED BY <3>1, <3>5, <4>1, <4>2, SameResponse
    <3>6. AnsweredOnce'
      BY <2>1, <3>2, <3>5 DEF AnsweredOnce
    <3> QED BY <3>4, <3>6
  <2> QED BY <1>3, <2>2, <2>3 DEF TakeNext
<1>4. CASE WriterGoes \/ Lose
  <2>1. UNCHANGED <<serving, answers>>
    BY <1>4 DEF WriterGoes, Lose, takeVars
  <2>2. \A c \in Clients : \A m \in responses'[c] : m \in responses[c] \/ m.guid = NoGuid
    BY <1>4 DEF WriterGoes, Lose, InvalidResponse, TypeOK
  <2> QED BY <2>1, <2>2, ResponsesShrink
<1>5. CASE UNCHANGED vars
  BY <1>0, <1>5 DEF vars, takeVars
<1>6. ASSUME NEW c \in Clients, NEW t \in Threads, Send(c, t)
      PROVE  RespondedOnce' /\ AnsweredOnce'
  BY <1>0, <1>6 DEF Send, ReadNumber, StoreNumber, WriteRequest, ReturnId, otherThanSend, takeVars
<1> QED BY <1>0, <1>1, <1>2, <1>3, <1>4, <1>5, <1>6
        DEF Next, Send, MatchRequest, MatchResponse, ServerIsAvailable, BeginTake, takeVars

LEMMA OnceInvariant == Spec => [](RpcInv /\ OnceInv)
<1>1. Init => RpcInv /\ OnceInv
  BY InitIsOK, InitOnce
<1>2. (RpcInv /\ OnceInv) /\ [Next]_vars => (RpcInv /\ OnceInv)'
  <2> SUFFICES ASSUME RpcInv, OnceInv, [Next]_vars PROVE RpcInv' /\ OnceInv'
    OBVIOUS
  <2>1. RpcInv'
    BY TypeIsKept, NumberingIsKept, SamplesAreKept, OrderingIsKept DEF RpcInv
  <2>2. WrittenOnce' BY WrittenOnceKept DEF RpcInv, OnceInv
  <2>3. ExecutedOnce' BY ExecutedOnceKept DEF RpcInv, OnceInv
  <2>4. RespondedOnce' /\ AnsweredOnce' BY RespondedOnceKept DEF RpcInv, OnceInv
  <2> QED BY <2>1, <2>2, <2>3, <2>4 DEF OnceInv
<1> QED BY <1>1, <1>2, PTL DEF Spec

\* A take that ends with nothing has left no response to the client's own calls
\* behind those of others.  A response that was taken twice would end the loop too,
\* without a new answer: each call is written, executed and answered at most once.
THEOREM EmptyTakeIsTrue == Spec => TakeFindsOwnResponse
<1>1. RpcInv /\ OnceInv /\ [Next]_vars
      => [\A c \in Clients :
            taker[c] = "taking" /\ taker'[c] = "idle" /\ answers' = answers =>
              ~\E m \in responses'[c] : m.guid = c]_vars
  <2> SUFFICES ASSUME RpcInv, OnceInv, [Next]_vars, NEW c \in Clients,
                      taker[c] = "taking", taker'[c] = "idle", answers' = answers
               PROVE  ~\E m \in responses'[c] : m.guid = c
    OBVIOUS
  <2>0. taker \in [Clients -> {"idle", "taking", "error"}] BY DEF RpcInv, TypeOK
  <2>1. taker' # taker OBVIOUS
  <2>2. PICK d \in Clients : BeginTake(d) \/ TakeNext(d)
    <3>1. ~UNCHANGED vars BY <2>1 DEF vars, takeVars
    <3>2. ~UNCHANGED takeVars BY <2>1 DEF takeVars
    <3> QED BY <3>1, <3>2
            DEF Next, MatchRequest, MatchResponse, ServerIsAvailable, ReadNumber, StoreNumber,
                WriteRequest, ReturnId, TakeRequest, SendResponse, WriterGoes, Lose, otherThanSend
  <2>3. d = c
    BY <2>0, <2>2 DEF BeginTake, TakeNext
  <2>4. TakeNext(c)
    BY <2>2, <2>3 DEF BeginTake
  <2>5. CASE responses[c] = {} /\ UNCHANGED responses
    BY <2>5
  <2>6. ASSUME NEW m \in responses[c], IsOwn(c, m),
               answers' = answers \cup {[client |-> c, id |-> dds_sn_to_ros_sn(m.sn),
                                         call |-> m.call, server |-> m.server]}
        PROVE  FALSE
    <3> DEFINE a == [client |-> c, id |-> dds_sn_to_ros_sn(m.sn), call |-> m.call,
                     server |-> m.server]
    <3>1. a \in answers BY <2>6
    <3>2. a.client = c /\ a.call = m.call /\ a.server = m.server OBVIOUS
    <3> HIDE DEF a
    <3>3. m.guid # NoGuid BY <2>6, NoGuidAssumption DEF IsOwn
    <3> QED BY <3>1, <3>2, <3>3 DEF OnceInv, AnsweredOnce
  <2>7. CASE \E m \in responses[c] : taker' = [taker EXCEPT ![c] = "taking"]
                                    \/ taker' = [taker EXCEPT ![c] = "error"]
    BY <2>0, <2>7
  <2> QED BY <2>4, <2>5, <2>6, <2>7 DEF TakeNext, Continue
<1> QED BY <1>1, OnceInvariant, PTL DEF Spec, TakeFindsOwnResponse
=====================
