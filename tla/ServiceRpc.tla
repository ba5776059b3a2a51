----------------------------- MODULE ServiceRpc -----------------------------
(***************************************************************************)
(* Services and clients with the enhanced request/reply mapping            *)
(* (rmw_client.cpp, rmw_service.cpp): requests and responses travel over   *)
(* two topics that all the clients and servers of a service share; the     *)
(* sample info carries the client's guid and a sequence number with its    *)
(* two halves exchanged, and every client receives every response.         *)
(*                                                                         *)
(* Any number of threads send through one client; one thread per client    *)
(* takes responses.  A call is named <<client, k>>, the k-th send through  *)
(* that client; the program does not know this name, so the "call" of a    *)
(* sample is a history of where it came from.                              *)
(*                                                                         *)
(* External (GurumDDS): a sample reaches the readers the writer has been   *)
(* matched with; a reader returns its samples in any order; a writer that  *)
(* goes away leaves a sample without valid data.  The application: a       *)
(* server answers its requests in any order, with the header it was given, *)
(* which was zero before the take.                                         *)
(***************************************************************************)
EXTENDS Integers, FiniteSets

CONSTANTS Clients, Servers,
          Threads,    \* the threads that send through a client
          MaxCalls,   \* per client, the bound on the sends through it
          Half,       \* 2^32: the range of one half of a sequence number
          MaxGone,    \* bound on the writers that go away
  CanFail     \* samples may be lost, writes and deserializations fail

ASSUME RpcAssumption ==
  /\ MaxCalls \in [Clients -> Nat]
  /\ Half \in Nat \ {0}
  /\ \A c \in Clients : MaxCalls[c] < Half * Half
  /\ MaxGone \in Nat
  /\ CanFail \in BOOLEAN

Calls == UNION {{c} \X (1..MaxCalls[c]) : c \in Clients}
ClientOf(k) == k[1]

CONSTANTS NoGuid, NoCall   \* the zero guid; what a sample without data stems from

ASSUME NoGuidAssumption == NoGuid \notin Clients /\ NoCall \notin Calls

VARIABLES
  reqMatched,  \* <<client, server>>: request writer and reader are matched
  rspMatched,  \* <<client, server>>: response reader and writer are matched
  checked,     \* the clients for which rmw_service_server_is_available said yes
  seqNo,       \* per client: sequence_number
  sender,      \* per client and thread: where its rmw_send_request is
  requests,    \* per server: the samples in its request reader
  serving,     \* per server: the headers of the requests not answered yet
  responses,   \* per client: the samples in its response reader
  taker,       \* per client: where rmw_take_response is, or that it failed
  gone,        \* the readers that got a sample without valid data
  made,        \* history: the sends through a client so far
  number,      \* history: the number a call was given, 0 before
  ids,         \* history: the sequence_id returned for a call, 0 before
  sent,        \* history: the calls whose request was written
  executions,  \* history: <<server, call>> that were taken
  answers,     \* history: what rmw_take_response returned
  assured,     \* history: calls sent to the one known, available server
  overlapped   \* history: the clients through which two threads sent at once

sendVars == <<seqNo, sender, made, number, ids, sent, assured, overlapped>>
matchVars == <<reqMatched, rspMatched, checked>>
takeVars == <<taker, answers>>
vars == <<matchVars, sendVars, requests, serving, responses, takeVars, gone, executions>>

\* ros_sn_to_dds_sn and dds_sn_to_ros_sn exchange the halves of the number.
\* Mutant: the shift of serialize_service_basic, by 8 instead of 32.
SnShifted(n) == (n \div Half) * 2 + (n % Half) * Half
ros_sn_to_dds_sn(n) == (n \div Half) + (n % Half) * Half
dds_sn_to_ros_sn(n) == (n % Half) * Half + (n \div Half)

Idle == [step |-> "idle", call |-> NoCall, sn |-> 0]
\* A sample without valid data, and the header a service takes with it.
InvalidRequest == [guid |-> NoGuid, sn |-> 0, call |-> NoCall]
InvalidResponse(s) == [guid |-> NoGuid, sn |-> 0, call |-> NoCall, server |-> s]

Init ==
  /\ reqMatched = {} /\ rspMatched = {} /\ checked = {}
  /\ seqNo = [c \in Clients |-> 0]
  /\ sender = [p \in Clients \X Threads |-> Idle]
  /\ requests = [s \in Servers |-> {}]
  /\ serving = [s \in Servers |-> {}]
  /\ responses = [c \in Clients |-> {}]
  /\ taker = [c \in Clients |-> "idle"]
  /\ gone = {}
  /\ made = [c \in Clients |-> 0]
  /\ number = [k \in Calls |-> 0]
  /\ ids = [k \in Calls |-> 0]
  /\ sent = {} /\ executions = {} /\ answers = {} /\ assured = {} /\ overlapped = {}

-----------------------------------------------------------------------------
(* Discovery *)

\* External: the endpoints of the two topics are matched one by one.
MatchRequest(c, s) ==
  /\ <<c, s>> \notin reqMatched
  /\ reqMatched' = reqMatched \cup {<<c, s>>}
  /\ UNCHANGED <<rspMatched, checked, sendVars, requests, serving, responses, takeVars,
                 gone, executions>>
MatchResponse(c, s) ==
  /\ <<c, s>> \notin rspMatched
  /\ rspMatched' = rspMatched \cup {<<c, s>>}
  /\ UNCHANGED <<reqMatched, checked, sendVars, requests, serving, responses, takeVars,
                 gone, executions>>

ReadersFor(c) == {s \in Servers : <<c, s>> \in reqMatched}
WritersFor(c) == {s \in Servers : <<c, s>> \in rspMatched}

\* rmw_service_server_is_available; mutant: only the request readers are counted.
RequestReaderFound(c) == ReadersFor(c) # {}
Available(c) == ReadersFor(c) # {} /\ WritersFor(c) # {}
ServerIsAvailable(c) ==
  /\ Available(c)
  /\ checked' = checked \cup {c}
  /\ UNCHANGED <<reqMatched, rspMatched, sendVars, requests, serving, responses, takeVars,
                 gone, executions>>

-----------------------------------------------------------------------------
(* rmw_send_request: ++sequence_number, the write, a second read of the counter *)

otherThanSend == <<matchVars, serving, responses, takeVars, gone, executions>>

ReadNumber(c, t) ==
  LET k == <<c, made[c] + 1>>
  IN  /\ sender[<<c, t>>] = Idle
      /\ made[c] < MaxCalls[c]
      /\ made' = [made EXCEPT ![c] = @ + 1]
      /\ sender' = [sender EXCEPT ![<<c, t>>] =
                      [step |-> "store", call |-> k, sn |-> seqNo[c] + 1]]
      /\ number' = [number EXCEPT ![k] = seqNo[c] + 1]
      /\ overlapped' = IF \E u \in Threads : sender[<<c, u>>] # Idle
                       THEN overlapped \cup {c} ELSE overlapped
      /\ assured' = IF c \in checked /\ Cardinality(ReadersFor(c) \cup WritersFor(c)) = 1
                    THEN assured \cup {k} ELSE assured
      /\ UNCHANGED <<seqNo, ids, sent, requests, otherThanSend>>

StoreNumber(c, t) ==
  /\ sender[<<c, t>>].step = "store"
  /\ seqNo' = [seqNo EXCEPT ![c] = sender[<<c, t>>].sn]
  /\ sender' = [sender EXCEPT ![<<c, t>>].step = "write"]
  /\ UNCHANGED <<made, number, ids, sent, assured, overlapped, requests, otherThanSend>>

\* The header of a request.
RequestHeader(p) == [guid |-> p[1], sn |-> ros_sn_to_dds_sn(sender[p].sn)]

\* dds_DataWriter_write_w_sampleinfoex; the number of a failed write is not reused.
WriteRequest(c, t) ==
  LET p == <<c, t>>
      h == RequestHeader(p)
      m == [guid |-> h.guid, sn |-> h.sn, call |-> sender[p].call]
  IN  /\ sender[p].step = "write"
      /\ \/ /\ requests' = [s \in Servers |->
                              IF s \in ReadersFor(c) THEN requests[s] \cup {m} ELSE requests[s]]
            /\ sent' = sent \cup {m.call}
            /\ sender' = [sender EXCEPT ![p].step = "return"]
         \/ /\ CanFail
            /\ sender' = [sender EXCEPT ![p] = Idle]
            /\ UNCHANGED <<requests, sent>>
      /\ UNCHANGED <<seqNo, made, number, ids, assured, overlapped, otherThanSend>>

ReturnId(c, t) ==
  /\ sender[<<c, t>>].step = "return"
  /\ ids' = [ids EXCEPT ![sender[<<c, t>>].call] = seqNo[c]]
  /\ sender' = [sender EXCEPT ![<<c, t>>] = Idle]
  /\ UNCHANGED <<seqNo, made, number, sent, assured, overlapped, requests, otherThanSend>>

-----------------------------------------------------------------------------
(* The server *)

\* rmw_take_request: "taken" even for a sample without valid data, whose header is
\* left as it was; a sample that cannot be deserialized is consumed.
TakeRequest(s) ==
  \E m \in requests[s] :
    /\ requests' = [requests EXCEPT ![s] = @ \ {m}]
    /\ \/ /\ m # InvalidRequest
          /\ serving' = [serving EXCEPT ![s] = @ \cup
                           {[guid |-> m.guid, sn |-> dds_sn_to_ros_sn(m.sn), call |-> m.call]}]
          /\ executions' = executions \cup {<<s, m.call>>}
       \/ /\ m = InvalidRequest
          /\ serving' = [serving EXCEPT ![s] = @ \cup {InvalidRequest}]
          /\ UNCHANGED executions
       \/ /\ m # InvalidRequest /\ CanFail
          /\ UNCHANGED <<serving, executions>>
    /\ UNCHANGED <<matchVars, sendVars, responses, takeVars, gone>>

\* rmw_send_response, with the header of one of the requests taken; the response
\* goes to the readers of all the matched clients.
SendResponse(s) ==
  \E h \in serving[s] :
    LET m == [guid |-> h.guid, sn |-> ros_sn_to_dds_sn(h.sn), call |-> h.call, server |-> s]
    IN  /\ serving' = [serving EXCEPT ![s] = @ \ {h}]
        /\ \/ responses' = [c \in Clients |->
                              IF <<c, s>> \in rspMatched THEN responses[c] \cup {m}
                              ELSE responses[c]]
           \/ CanFail /\ UNCHANGED responses
        /\ UNCHANGED <<matchVars, sendVars, requests, takeVars, gone, executions>>

-----------------------------------------------------------------------------
(* rmw_take_response *)

BeginTake(c) ==
  /\ taker[c] # "taking"
  /\ taker' = [taker EXCEPT ![c] = "taking"]
  /\ UNCHANGED <<matchVars, sendVars, requests, serving, responses, gone, executions, answers>>

\* valid_data and the comparison of the guids; mutant: nothing is compared.
AnyResponse(c, m) == TRUE
IsOwn(c, m) == m.guid = c

\* What the loop does after a response of another client; mutant: it ends.
EndLoop == "idle"
Continue == "taking"

\* One iteration: no data ends the loop, the client's own response is returned, any
\* other is consumed and the loop continues.  The response is deserialized before
\* its guid is looked at, so an error may concern another client's response.
TakeNext(c) ==
  /\ taker[c] = "taking"
  /\ \/ /\ responses[c] = {}
        /\ taker' = [taker EXCEPT ![c] = "idle"]
        /\ UNCHANGED <<responses, answers>>
     \/ \E m \in responses[c] :
          /\ responses' = [responses EXCEPT ![c] = @ \ {m}]
          /\ \/ /\ IsOwn(c, m)
                /\ taker' = [taker EXCEPT ![c] = "idle"]
                /\ answers' = answers \cup
                     {[client |-> c, id |-> dds_sn_to_ros_sn(m.sn), call |-> m.call,
                       server |-> m.server]}
             \/ /\ ~IsOwn(c, m)
                /\ taker' = [taker EXCEPT ![c] = Continue]
                /\ UNCHANGED answers
             \/ /\ CanFail /\ m.call # NoCall
                /\ taker' = [taker EXCEPT ![c] = "error"]
                /\ UNCHANGED answers
  /\ UNCHANGED <<matchVars, sendVars, requests, serving, gone, executions>>

-----------------------------------------------------------------------------
(* External: a writer goes away, a reader loses a sample (KEEP_LAST, best effort) *)

WriterGoes ==
  \/ \E s \in Servers \ gone :
       /\ Cardinality(gone) < MaxGone
       /\ requests' = [requests EXCEPT ![s] = @ \cup {InvalidRequest}]
       /\ gone' = gone \cup {s}
       /\ UNCHANGED <<matchVars, sendVars, serving, responses, takeVars, executions>>
  \/ \E c \in Clients \ gone, s \in Servers :
       /\ Cardinality(gone) < MaxGone
       /\ responses' = [responses EXCEPT ![c] = @ \cup {InvalidResponse(s)}]
       /\ gone' = gone \cup {c}
       /\ UNCHANGED <<matchVars, sendVars, requests, serving, takeVars, executions>>

Lose ==
  /\ CanFail
  /\ \/ \E s \in Servers : \E m \in requests[s] :
          /\ requests' = [requests EXCEPT ![s] = @ \ {m}]
          /\ UNCHANGED responses
     \/ \E c \in Clients : \E m \in responses[c] :
          /\ responses' = [responses EXCEPT ![c] = @ \ {m}]
          /\ UNCHANGED requests
  /\ UNCHANGED <<matchVars, sendVars, serving, takeVars, gone, executions>>

Next ==
  \/ \E c \in Clients, s \in Servers : MatchRequest(c, s) \/ MatchResponse(c, s)
  \/ \E c \in Clients : ServerIsAvailable(c) \/ BeginTake(c) \/ TakeNext(c)
  \/ \E c \in Clients, t \in Threads :
       ReadNumber(c, t) \/ StoreNumber(c, t) \/ WriteRequest(c, t) \/ ReturnId(c, t)
  \/ \E s \in Servers : TakeRequest(s) \/ SendResponse(s)
  \/ WriterGoes
  \/ Lose

Spec == Init /\ [][Next]_vars

\* A call that was begun returns; executors on both sides take and answer what
\* their wait sets report.  Nobody has to make a call, and discovery may never end.
Fairness ==
  /\ \A c \in Clients, t \in Threads :
       WF_vars(StoreNumber(c, t)) /\ WF_vars(WriteRequest(c, t)) /\ WF_vars(ReturnId(c, t))
  /\ \A s \in Servers : WF_vars(TakeRequest(s)) /\ WF_vars(SendResponse(s))
  /\ \A c \in Clients :
       WF_vars(responses[c] # {} /\ BeginTake(c)) /\ WF_vars(TakeNext(c))
FairSpec == Spec /\ Fairness

-----------------------------------------------------------------------------
Headers == [guid : Clients \cup {NoGuid}, sn : Nat, call : Calls \cup {NoCall}]
Responses == [guid : Clients \cup {NoGuid}, sn : Nat, call : Calls \cup {NoCall},
              server : Servers]
Answers == [client : Clients, id : Nat, call : Calls, server : Servers]
Sends == [step : {"idle", "store", "write", "return"}, call : Calls \cup {NoCall}, sn : Nat]

TypeOK ==
  /\ reqMatched \subseteq Clients \X Servers
  /\ rspMatched \subseteq Clients \X Servers
  /\ checked \subseteq Clients
  /\ seqNo \in [Clients -> Nat]
  /\ sender \in [Clients \X Threads -> Sends]
  /\ requests \in [Servers -> SUBSET Headers]
  /\ serving \in [Servers -> SUBSET Headers]
  /\ responses \in [Clients -> SUBSET Responses]
  /\ taker \in [Clients -> {"idle", "taking", "error"}]
  /\ gone \subseteq Servers \cup Clients
  /\ made \in [Clients -> Nat]
  /\ number \in [Calls -> Nat]
  /\ ids \in [Calls -> Nat]
  /\ sent \subseteq Calls
  /\ executions \subseteq Servers \X Calls
  /\ answers \subseteq Answers
  /\ assured \subseteq Calls
  /\ overlapped \subseteq Clients

\* A response that a client receives fits, by the id that rmw_send_request returned,
\* the call it answers and no other one of that client, with any number of calls and
\* of servers answering, samples lost and writes failing.  Only two threads that
\* send through one client at the same time, which ++sequence_number and the second
\* read of it do not expect, can break it.
AnswersFitCalls ==
  \A a \in answers : a.client \notin overlapped =>
    /\ ClientOf(a.call) = a.client
    /\ \A k \in Calls :
         ClientOf(k) = a.client /\ ids[k] # 0 => (ids[k] = a.id <=> k = a.call)

\* When rmw_take_response takes nothing, no response to one of the client's calls is
\* left in the reader behind those of other clients.
TakeFindsOwnResponse ==
  [][\A c \in Clients :
       taker[c] = "taking" /\ taker'[c] = "idle" /\ answers' = answers =>
         ~\E m \in responses'[c] : m.guid = c]_vars

\* The service as the application sees it, by the numbers of its calls.
AnsweredCalls ==
  {x \in Servers \X Calls :
     \E a \in answers : /\ a.server = x[1] /\ a.client = ClientOf(x[2])
                        /\ number[x[2]] = a.id}
Abstract == INSTANCE Rpc WITH called <- sent, executed <- executions,
                              answered <- AnsweredCalls

\* With one thread sending through each client, the two topics shared by everybody
\* implement the service the abstract specification promises.
ImplementsRpc == Abstract!RpcSpec

\* A call made after server_is_available said yes is answered when the client knows
\* of one server only: the samples are not lost although the two topics are matched
\* independently.  (With two servers half of each may be known.)
CallIsAnswered ==
  \A k \in Calls : k \in assured ~> \E a \in answers : a.call = k
=============================================================================
